------------------------- MODULE QueryEngineProofs -------------------------
(***************************************************************************)
(* The pages of QueryEngine are those of a ranking, for any documents,     *)
(* scores, iteration order, limit and offset, and any choice among ties.   *)
(*                                                                         *)
(* KeepsTheBest is the bounded heap's invariant while documents are        *)
(* pushed; Sorted takes it over while the heap is drained into results;    *)
(* from an empty heap and Sorted follows what a page holds.                *)
(*                                                                         *)
(* The heap of the library, an array, makes one such choice: the search of *)
(* QueryEngineHeap implements QueryEngine.                                 *)
(***************************************************************************)
EXTENDS QueryEngineHeap, FiniteSetTheorems, WellFoundedInduction, TLAPS

Top(s, k) == {s[i] : i \in 1..k}

Once(s) == \A i, j \in DOMAIN s : s[i] = s[j] => i = j

\* The first k of a sequence without repetitions are k.
LEMMA CardinalityOfTop ==
  ASSUME NEW S, NEW s \in Seq(S), Once(s), NEW k \in 0..Len(s)
  PROVE  IsFiniteSet(Top(s, k)) /\ Cardinality(Top(s, k)) = k
<1> DEFINE f == [i \in 1..k |-> s[i]]
<1>1. \A i \in 1..k : i \in DOMAIN s
  OBVIOUS
<1>2. f \in Surjection(1..k, Top(s, k))
  BY DEF Surjection, Top
<1>3. f \in Injection(1..k, Top(s, k))
  BY <1>1, <1>2 DEF Injection, IsInjective, Surjection, Once
<1>4. IsFiniteSet(1..k) /\ Cardinality(1..k) = k
  BY FS_Interval
<1> QED  BY <1>2, <1>3, <1>4, FS_Surjection

LEMMA OrderFacts ==
  ASSUME order \in Orders
  PROVE  order \in Seq(Docs) /\ Once(order) /\ Len(order) \in Nat
  BY FS_CardinalityType, EngineAssumption DEF Orders, Once

LEMMA WrappedSum ==
  ASSUME NEW m \in Nat, NEW n \in Nat, NEW w \in Nat
  PROVE  (IF m + n <= w THEN m + n ELSE m + n - (w + 1)) \in Nat
  OBVIOUS

LEMMA KeepIsNat ==
  ASSUME TypeOK
  PROVE  Keep \in Nat /\ limit \in Nat /\ offset \in Nat
  BY EngineAssumption DEF TypeOK, Keep

LEMMA MatchingFinite ==
  ASSUME TypeOK
  PROVE  /\ Matching \subseteq Docs /\ Pushed \subseteq Matching
         /\ IsFiniteSet(Matching)
         /\ \A h \in SUBSET Matching : IsFiniteSet(h) /\ Cardinality(h) \in Nat
<1>1. Matching \subseteq Docs /\ Pushed \subseteq Matching
  BY OrderFacts DEF TypeOK, Matching, Pushed
<1>2. IsFiniteSet(Matching)
  BY <1>1, EngineAssumption, FS_Subset
<1> QED  BY <1>1, <1>2, FS_Subset, FS_CardinalityType

LEMMA TypeStep == TypeOK /\ [Next]_vars => TypeOK'
<1> SUFFICES ASSUME TypeOK, [Next]_vars PROVE TypeOK'
  OBVIOUS
<1>0. order \in Seq(Docs) /\ Len(order) \in Nat
  BY OrderFacts DEF TypeOK
<1>1. CASE Push
  <2> DEFINE all == heap \cup {order[seen + 1]}
  <2>1. seen \in Nat /\ seen + 1 \in 1..Len(order)
    BY <1>0, <1>1 DEF TypeOK, Push
  <2>2. Pushed' = Pushed \cup {order[seen + 1]}
    BY <1>1, <2>1 DEF Push, Pushed
  <2>3. heap' \subseteq all
    BY <1>1 DEF Push
  <2>4. heap' \subseteq Pushed'
    BY <2>2, <2>3 DEF TypeOK
  <2> QED  BY <1>1, <2>1, <2>4 DEF TypeOK, Push
<1>2. CASE AllPushed
  BY <1>2 DEF TypeOK, AllPushed, Pushed
<1>3. CASE Drain
  <2>1. PICK top \in TopOf(heap) : results' = <<top>> \o results /\ heap' = heap \ {top}
    BY <1>3 DEF Drain
  <2>2. top \in Docs
    BY <2>1, MatchingFinite DEF TypeOK, TopOf
  <2> QED  BY <1>3, <2>1, <2>2 DEF TypeOK, Drain, Pushed
<1>4. CASE Paginate
  <2>1. Page \in Seq(Docs)
    BY KeepIsNat DEF TypeOK, Page
  <2> QED  BY <1>4, <2>1 DEF TypeOK, Paginate, Pushed
<1>5. CASE AskNextPage
  BY <1>0, <1>5, KeepIsNat, EngineAssumption DEF TypeOK, AskNextPage, Pushed
<1>6. CASE UNCHANGED vars
  BY <1>6 DEF TypeOK, vars, Pushed
<1> QED  BY <1>1, <1>2, <1>3, <1>4, <1>5, <1>6 DEF Next, Done

\* The variables keep their types: no offset asked for is out of size_t, and the
\* heap holds documents of the map only.
THEOREM TypeCorrect == Spec => []TypeOK
<1>1. Init => TypeOK
  BY OrderFacts DEF Init, TypeOK, Pushed
<1> QED  BY <1>1, TypeStep, PTL DEF Spec

-----------------------------------------------------------------------------
(* The heap while the documents are pushed.                                *)

LEMMA BestInit ==
  ASSUME TypeOK, seen = 0, heap = {}
  PROVE  KeepsTheBest
  BY KeepIsNat, FS_EmptySet DEF KeepsTheBest, Pushed

\* One more document, and one fewer if that is too many.
LEMMA BestPush ==
  ASSUME TypeOK, KeepsTheBest, Push
  PROVE  KeepsTheBest'
<1> DEFINE x == order[seen + 1]
           all == heap \cup {x}
<1>1. /\ order \in Seq(Docs) /\ Once(order) /\ seen + 1 \in DOMAIN order
      /\ seen \in Nat
  BY OrderFacts DEF TypeOK, Push
<1>2. Pushed' = Pushed \cup {x} /\ x \notin Pushed /\ x \in Docs
  BY <1>1 DEF Push, Pushed, Once
<1>3. /\ heap \subseteq Pushed /\ IsFiniteSet(heap) /\ Cardinality(heap) \in Nat
      /\ Pushed \subseteq Docs
  BY MatchingFinite DEF TypeOK
<1>4. x \notin heap /\ IsFiniteSet(all) /\ Cardinality(all) = Cardinality(heap) + 1
  BY <1>2, <1>3, FS_AddElement
<1>5. Keep' = Keep /\ Keep \in Nat /\ score' = score
  BY KeepIsNat DEF Push, Keep
<1>6. /\ Cardinality(heap) <= Keep
      /\ \A d \in heap, e \in Pushed \ heap : score[e] <= score[d]
      /\ Cardinality(heap) < Keep => heap = Pushed
  BY DEF KeepsTheBest, Push
<1>7. CASE Cardinality(all) > Keep
  <2>1. PICK top \in TopOf(all) : heap' = all \ {top}
    BY <1>7 DEF Push
  <2>2. top \in all /\ \A d \in all : score[top] <= score[d]
    BY <2>1 DEF TopOf
  <2>3. Cardinality(heap') = Keep
    <3>1. Cardinality(all \ {top}) = Cardinality(all) - 1
      BY <1>4, <2>2, FS_RemoveElement
    <3> QED  BY <1>3, <1>4, <1>5, <1>6, <1>7, <2>1, <3>1
  <2>4. \A d \in all : score[d] \in Nat
    BY <1>2, <1>3, EngineAssumption DEF TypeOK
  <2>5. ASSUME NEW d \in heap', NEW e \in Pushed' \ heap'
        PROVE  score[e] <= score[d]
    <3>1. e = top \/ e \in Pushed \ heap
      BY <1>2, <2>1, <2>5
    <3>2. CASE e = top
      BY <2>1, <2>2, <2>5, <3>2
    <3>3. CASE e \in Pushed \ heap /\ d \in heap
      BY <1>6, <3>3
    <3>4. CASE e \in Pushed \ heap /\ d = x
      <4>1. top \in heap
        BY <2>1, <2>2, <2>5, <3>4
      <4>2. score[e] <= score[top] /\ score[top] <= score[d]
        BY <1>6, <2>1, <2>2, <2>5, <3>4, <4>1
      <4>3. score[e] \in Nat /\ score[d] \in Nat /\ score[top] \in Nat
        BY <1>2, <1>3, <2>2, <2>4, <3>4, EngineAssumption DEF TypeOK
      <4> QED  BY <4>2, <4>3
    <3> QED  BY <2>1, <2>5, <3>1, <3>2, <3>3, <3>4
  <2> QED  BY <1>5, <2>3, <2>5 DEF KeepsTheBest
<1>8. CASE ~(Cardinality(all) > Keep)
  <2>1. heap' = all /\ heap = Pushed
    BY <1>3, <1>4, <1>5, <1>6, <1>8 DEF Push
  <2> QED  BY <1>2, <1>3, <1>4, <1>5, <1>8, <2>1 DEF KeepsTheBest
<1> QED  BY <1>7, <1>8

LEMMA BestStep == TypeOK /\ TypeOK' /\ KeepsTheBest /\ [Next]_vars => KeepsTheBest'
<1> SUFFICES ASSUME TypeOK, TypeOK', KeepsTheBest, [Next]_vars PROVE KeepsTheBest'
  OBVIOUS
<1>1. CASE Push
  BY <1>1, BestPush
<1>2. CASE AllPushed \/ Drain \/ Paginate
  BY <1>2 DEF AllPushed, Drain, Paginate, KeepsTheBest
<1>3. CASE AskNextPage
  <2>1. seen' = 0 /\ heap' = {} /\ Pushed' = {}
    BY <1>3 DEF AskNextPage, Pushed
  <2>2. Keep' \in Nat
    <3>1. limit \in Nat /\ offset + limit \in Nat /\ SizeMax \in Nat
      BY KeepIsNat, EngineAssumption
    <3>2. limit' = limit /\ offset' = offset + limit
      BY <1>3 DEF AskNextPage
    <3> QED  BY <3>1, <3>2, WrappedSum DEF Keep
  <2> QED  BY <2>1, <2>2, FS_EmptySet DEF KeepsTheBest
<1>4. CASE UNCHANGED vars
  BY <1>4 DEF vars, KeepsTheBest, Keep, Pushed
<1> QED  BY <1>1, <1>2, <1>3, <1>4 DEF Next, Done

\* The bounded heap of search() loses nothing a page could need.
THEOREM HeapKeepsTheBest == Spec => []KeepsTheBest
<1>1. Init => KeepsTheBest
  BY BestInit, OrderFacts DEF Init, TypeOK, Pushed
<1> QED  BY <1>1, BestStep, TypeCorrect, PTL DEF Spec

-----------------------------------------------------------------------------
(* The heap drained into results.                                          *)

Shown == Top(results, Len(results))

Kept == heap \cup Shown

\* What has been drained is sorted, what has not is no worse, and both together
\* are what KeepsTheBest says of the heap.
Sorted ==
  /\ step = "push" => results = << >>
  /\ step = "drain" =>
       /\ Once(results)
       /\ Kept \subseteq Matching /\ heap \cap Shown = {}
       /\ Cardinality(heap) + Len(results) <= Keep
       /\ Cardinality(heap) + Len(results) < Keep => Kept = Matching
       /\ \A d \in Kept, e \in Matching \ Kept : score[e] <= score[d]
       /\ \A i, j \in DOMAIN results : i <= j => score[results[j]] <= score[results[i]]
       /\ \A d \in heap, i \in DOMAIN results : score[results[i]] <= score[d]

LEMMA SortedAllPushed ==
  ASSUME TypeOK, KeepsTheBest, Sorted, AllPushed
  PROVE  Sorted'
<1>1. results = << >> /\ results' = << >> /\ heap' = heap /\ score' = score
  BY DEF Sorted, AllPushed
<1>2. Shown' = {} /\ Kept' = heap
  BY <1>1 DEF Shown, Kept, Top
<1>3. Pushed = Matching /\ Matching' = Matching
  <2>1. order \in Seq(Docs) /\ seen = Len(order) /\ order' = order
    BY OrderFacts DEF TypeOK, AllPushed
  <2>2. DOMAIN order = 1..seen
    BY <2>1
  <2> QED  BY <2>1, <2>2 DEF Pushed, Matching
<1>4. Keep' = Keep /\ Keep \in Nat
  BY KeepIsNat DEF AllPushed, Keep
<1>5. Cardinality(heap) \in Nat /\ heap \subseteq Matching
  BY <1>3, MatchingFinite DEF TypeOK
<1>6. /\ Cardinality(heap) <= Keep
      /\ \A d \in heap, e \in Matching \ heap : score[e] <= score[d]
      /\ Cardinality(heap) < Keep => heap = Matching
  BY <1>3 DEF KeepsTheBest, AllPushed
<1>7. step' = "drain" /\ Len(results') = 0 /\ DOMAIN results' = {}
  BY <1>1 DEF AllPushed
<1> QED  BY <1>1, <1>2, <1>3, <1>4, <1>5, <1>6, <1>7 DEF Sorted, Once

\* The smallest of the heap goes in front.
LEMMA SortedDrain ==
  ASSUME TypeOK, Sorted, Drain
  PROVE  Sorted'
<1>1. PICK top \in TopOf(heap) : results' = <<top>> \o results /\ heap' = heap \ {top}
  BY DEF Drain
<1>2. top \in heap /\ \A d \in heap : score[top] <= score[d]
  BY <1>1 DEF TopOf
<1>3. /\ Once(results)
      /\ Kept \subseteq Matching /\ heap \cap Shown = {}
      /\ Cardinality(heap) + Len(results) <= Keep
      /\ Cardinality(heap) + Len(results) < Keep => Kept = Matching
      /\ \A d \in Kept, e \in Matching \ Kept : score[e] <= score[d]
      /\ \A i, j \in DOMAIN results : i <= j => score[results[j]] <= score[results[i]]
      /\ \A d \in heap, i \in DOMAIN results : score[results[i]] <= score[d]
  BY DEF Sorted, Drain
<1>4. /\ results \in Seq(Docs) /\ top \in Docs /\ heap \subseteq Matching
      /\ IsFiniteSet(heap) /\ Cardinality(heap) \in Nat
  BY <1>2, MatchingFinite DEF TypeOK
<1>5. /\ Len(results') = Len(results) + 1 /\ DOMAIN results' = 1..(Len(results) + 1)
      /\ results'[1] = top
      /\ \A i \in 2..(Len(results) + 1) : i - 1 \in DOMAIN results /\ results'[i] = results[i - 1]
      /\ \A i \in DOMAIN results : i + 1 \in 2..(Len(results) + 1) /\ results'[i + 1] = results[i]
  BY <1>1, <1>4
<1>6. Shown' = Shown \cup {top}
  <2>1. ASSUME NEW x \in Shown' PROVE x \in Shown \cup {top}
    <3>1. PICK i \in 1..(Len(results) + 1) : x = results'[i]
      BY <1>5, <2>1 DEF Shown, Top
    <3>2. CASE i = 1
      BY <1>5, <3>1, <3>2
    <3>3. CASE i # 1
      <4>1. i \in 2..(Len(results) + 1)
        BY <1>4, <3>3
      <4>2. i - 1 \in 1..Len(results) /\ x = results[i - 1]
        BY <1>4, <1>5, <3>1, <4>1
      <4> QED  BY <4>2 DEF Shown, Top
    <3> QED  BY <3>2, <3>3
  <2>2. ASSUME NEW x \in Shown PROVE x \in Shown'
    <3>1. PICK i \in 1..Len(results) : x = results[i]
      BY <2>2 DEF Shown, Top
    <3> QED  BY <1>4, <1>5, <3>1 DEF Shown, Top
  <2>3. top \in Shown'
    BY <1>4, <1>5 DEF Shown, Top
  <2> QED  BY <2>1, <2>2, <2>3
<1>7. Kept' = Kept
  BY <1>1, <1>2, <1>6 DEF Kept
<1>8. top \notin Shown
  BY <1>2, <1>3
<1>9. Cardinality(heap') = Cardinality(heap) - 1
  BY <1>1, <1>2, <1>4, FS_RemoveElement
<1>10. Keep' = Keep /\ score' = score /\ Matching' = Matching /\ step' = step
  BY DEF Drain, Keep, Matching
<1>11. Once(results')
  <2>1. ASSUME NEW i \in DOMAIN results', NEW j \in DOMAIN results',
               results'[i] = results'[j]
        PROVE  i = j
    <3>1. \A k \in 2..(Len(results) + 1) : results'[k] \in Shown
      BY <1>4, <1>5 DEF Shown, Top
    <3>2. CASE i = 1 \/ j = 1
      BY <1>5, <1>8, <2>1, <3>1, <3>2
    <3>3. CASE i # 1 /\ j # 1
      <4>1. i \in 2..(Len(results) + 1) /\ j \in 2..(Len(results) + 1)
        BY <1>5, <3>3
      <4>2. i - 1 = j - 1
        BY <1>3, <1>5, <2>1, <4>1 DEF Once
      <4> QED  BY <4>1, <4>2
    <3> QED  BY <3>2, <3>3
  <2> QED  BY <2>1 DEF Once
<1>12. \A i, j \in DOMAIN results' : i <= j => score[results'[j]] <= score[results'[i]]
  <2>1. ASSUME NEW i \in DOMAIN results', NEW j \in DOMAIN results', i <= j
        PROVE  score[results'[j]] <= score[results'[i]]
    <3>1. CASE j = 1
      <4>1. i = 1
        BY <1>5, <2>1, <3>1
      <4> QED  BY <1>2, <1>5, <3>1, <4>1
    <3>2. CASE j # 1 /\ i = 1
      BY <1>2, <1>3, <1>5, <3>2
    <3>3. CASE j # 1 /\ i # 1
      <4>1. i \in 2..(Len(results) + 1) /\ j \in 2..(Len(results) + 1) /\ i - 1 <= j - 1
        BY <1>5, <2>1, <3>3
      <4> QED  BY <1>3, <1>5, <4>1
    <3> QED  BY <3>1, <3>2, <3>3
  <2> QED  BY <2>1
<1>13. \A d \in heap', i \in DOMAIN results' : score[results'[i]] <= score[d]
  <2>1. ASSUME NEW d \in heap', NEW i \in DOMAIN results'
        PROVE  score[results'[i]] <= score[d]
    <3>1. CASE i = 1
      BY <1>1, <1>2, <1>5, <3>1
    <3>2. CASE i # 1
      <4>1. i \in 2..(Len(results) + 1)
        BY <1>5, <3>2
      <4> QED  BY <1>1, <1>3, <1>5, <4>1
    <3> QED  BY <3>1, <3>2
  <2> QED  BY <2>1
<1>14. heap' \cap Shown' = {}
  BY <1>1, <1>3, <1>6
<1>15. Cardinality(heap') + Len(results') = Cardinality(heap) + Len(results)
  BY <1>4, <1>5, <1>9
<1> QED  BY <1>3, <1>7, <1>10, <1>11, <1>12, <1>13, <1>14, <1>15 DEF Sorted, Drain

LEMMA SortedStep == TypeOK /\ KeepsTheBest /\ Sorted /\ [Next]_vars => Sorted'
<1> SUFFICES ASSUME TypeOK, KeepsTheBest, Sorted, [Next]_vars PROVE Sorted'
  OBVIOUS
<1>1. CASE Push
  BY <1>1 DEF Push, Sorted
<1>2. CASE AllPushed
  BY <1>2, SortedAllPushed
<1>3. CASE Drain
  BY <1>3, SortedDrain
<1>4. CASE Paginate
  BY <1>4 DEF Paginate, Sorted
<1>5. CASE AskNextPage
  BY <1>5 DEF AskNextPage, Sorted
<1>6. CASE UNCHANGED vars
  BY <1>6 DEF vars, Sorted, Kept, Shown, Keep, Matching
<1> QED  BY <1>1, <1>2, <1>3, <1>4, <1>5, <1>6 DEF Next, Done

-----------------------------------------------------------------------------
(* A page is cut out of sorted results.                                    *)

RankedPage(p) ==
  /\ Len(p.docs) = PageLength(p.offset)
  /\ Once(p.docs)
  /\ \A i \in DOMAIN p.docs : HasRank(p.docs[i], p.offset + i) /\ p.docs[i] \in Matching

\* When the heap is empty the results are the best Keep documents, best first.
LEMMA Drained ==
  ASSUME TypeOK, Sorted, step = "drain", heap = {}
  PROVE  /\ Once(results) /\ Len(results) \in Nat /\ Cardinality(Matching) \in Nat
         /\ Shown \subseteq Matching
         /\ Len(results) <= Keep /\ Len(results) <= Cardinality(Matching)
         /\ Len(results) < Keep => Len(results) = Cardinality(Matching)
         /\ \A d \in Shown, e \in Matching \ Shown : score[e] <= score[d]
         /\ \A i, j \in DOMAIN results : i <= j => score[results[j]] <= score[results[i]]
<1>1. /\ Once(results) /\ Kept \subseteq Matching
      /\ Cardinality(heap) + Len(results) <= Keep
      /\ Cardinality(heap) + Len(results) < Keep => Kept = Matching
      /\ \A d \in Kept, e \in Matching \ Kept : score[e] <= score[d]
      /\ \A i, j \in DOMAIN results : i <= j => score[results[j]] <= score[results[i]]
  BY DEF Sorted
<1>2. Kept = Shown /\ Cardinality(heap) = 0
  BY FS_EmptySet DEF Kept
<1>3. results \in Seq(Docs) /\ Len(results) \in Nat
  BY DEF TypeOK
<1>4. IsFiniteSet(Shown) /\ Cardinality(Shown) = Len(results)
  BY <1>1, <1>3, CardinalityOfTop DEF Shown
<1>5. Cardinality(Shown) <= Cardinality(Matching)
  BY <1>1, <1>2, MatchingFinite, FS_Subset
<1>6. Cardinality(Matching) \in Nat
  BY MatchingFinite
<1>7. Len(results) <= Keep /\ (Len(results) < Keep => Kept = Matching)
  BY <1>1, <1>2, <1>3
<1> QED  BY <1>1, <1>2, <1>3, <1>4, <1>5, <1>6, <1>7

\* The result at place k has rank k.
LEMMA RankOfResult ==
  ASSUME TypeOK, Sorted, step = "drain", heap = {}, NEW k \in DOMAIN results
  PROVE  HasRank(results[k], k)
<1> DEFINE better == {e \in Matching : score[e] > score[results[k]]}
           asGood == {e \in Matching : score[e] >= score[results[k]]}
<1>1. results \in Seq(Docs) /\ k \in 1..Len(results) /\ Len(results) \in Nat
  BY DEF TypeOK
<1>2. IsFiniteSet(Top(results, k)) /\ Cardinality(Top(results, k)) = k
  BY <1>1, Drained, CardinalityOfTop
<1>3. IsFiniteSet(Top(results, k - 1)) /\ Cardinality(Top(results, k - 1)) = k - 1
  <2>1. k - 1 \in 0..Len(results)
    BY <1>1
  <2> QED  BY <1>1, <2>1, Drained, CardinalityOfTop
<1>4. \A e \in Matching : score[e] \in Nat
  BY MatchingFinite, EngineAssumption DEF TypeOK
<1>5. \A i \in 1..Len(results) : results[i] \in Shown /\ results[i] \in Matching
  BY Drained DEF Shown, Top
<1>6. Cardinality(better) < k
  <2>1. ASSUME NEW e \in better PROVE e \in Top(results, k - 1)
    <3>1. e \in Shown
      BY <1>1, <1>4, <1>5, <2>1, Drained
    <3>2. PICK j \in 1..Len(results) : e = results[j]
      BY <3>1 DEF Shown, Top
    <3>3. ~(k <= j)
      BY <1>1, <1>4, <1>5, <2>1, <3>2, Drained
    <3>4. j \in 1..(k - 1)
      BY <1>1, <3>2, <3>3
    <3> QED  BY <3>2, <3>4 DEF Top
  <2>2. Cardinality(better) <= k - 1
    BY <1>3, <2>1, FS_Subset
  <2>3. Cardinality(better) \in Nat
    BY MatchingFinite
  <2> QED  BY <1>1, <2>2, <2>3
<1>7. Cardinality(asGood) >= k
  <2>1. ASSUME NEW e \in Top(results, k) PROVE e \in asGood
    <3>1. PICK j \in 1..k : e = results[j]
      BY <2>1 DEF Top
    <3>2. j \in 1..Len(results) /\ j <= k
      BY <1>1, <3>1
    <3> QED  BY <1>1, <1>4, <1>5, <3>1, <3>2, Drained
  <2>2. IsFiniteSet(asGood) /\ Cardinality(asGood) \in Nat
    BY MatchingFinite
  <2>3. Cardinality(Top(results, k)) <= Cardinality(asGood)
    BY <2>1, <2>2, FS_Subset
  <2> QED  BY <1>1, <1>2, <2>2, <2>3
<1> QED  BY <1>6, <1>7 DEF HasRank

\* Where limit + offset wraps around, no document is that far down.
LEMMA WrapsPastTheEnd ==
  ASSUME TypeOK, limit + offset > SizeMax
  PROVE  Cardinality(Matching) <= offset
<1>1. Cardinality(Matching) <= Cardinality(Docs)
  BY MatchingFinite, EngineAssumption, FS_Subset
<1>2. limit \in 1..MaxLimit /\ offset \in Nat /\ Cardinality(Docs) \in Nat
  BY EngineAssumption, FS_CardinalityType, KeepIsNat DEF TypeOK
<1>3. Cardinality(Matching) \in Nat
  BY MatchingFinite
<1> QED  BY <1>1, <1>2, <1>3, EngineAssumption

LEMMA PageIsRanked ==
  ASSUME TypeOK, Sorted, step = "drain", heap = {}
  PROVE  RankedPage([offset |-> offset, docs |-> Page])
<1> DEFINE n == Len(results)
           m == Cardinality(Matching)
           last == IF offset + limit < n THEN offset + limit ELSE n
<1>1. /\ n \in Nat /\ m \in Nat /\ n <= Keep /\ n <= m
      /\ n < Keep => n = m
  BY Drained
<1>2. /\ limit \in Nat /\ limit >= 1 /\ offset \in Nat /\ Keep \in Nat
      /\ results \in Seq(Docs)
  BY KeepIsNat DEF TypeOK
<1>3. limit + offset <= SizeMax => Keep = limit + offset
  BY DEF Keep
<1>4. limit + offset > SizeMax => m <= offset
  BY WrapsPastTheEnd
<1>5. SizeMax \in Nat
  BY EngineAssumption
<1>6. CASE offset >= n
  <2>1. m <= offset
    BY <1>1, <1>2, <1>3, <1>4, <1>5, <1>6
  <2>2. PageLength(offset) = 0
    BY <1>1, <1>2, <2>1 DEF PageLength
  <2>3. Page = << >>
    BY <1>6 DEF Page
  <2> QED  BY <2>2, <2>3 DEF RankedPage, Once
<1>7. CASE offset < n
  <2>1. Keep = limit + offset /\ n <= limit + offset
    BY <1>1, <1>2, <1>3, <1>4, <1>5, <1>7
  <2>2. last = n
    BY <1>1, <1>2, <2>1
  <2>3. Page = SubSeq(results, offset + 1, n)
    BY <1>1, <1>2, <1>7, <2>2 DEF Page
  <2>4. /\ Len(Page) = n - offset /\ DOMAIN Page = 1..(n - offset)
        /\ \A i \in 1..(n - offset) : offset + i \in DOMAIN results /\ Page[i] = results[offset + i]
    BY <1>1, <1>2, <1>7, <2>3
  <2>5. PageLength(offset) = n - offset
    BY <1>1, <1>2, <1>7, <2>1 DEF PageLength
  <2>6. Once(Page)
    <3>1. ASSUME NEW i \in DOMAIN Page, NEW j \in DOMAIN Page, Page[i] = Page[j]
          PROVE  i = j
      <4>1. offset + i = offset + j
        BY <2>4, <3>1, Drained DEF Once
      <4> QED  BY <1>1, <1>2, <2>4, <4>1
    <3> QED  BY <3>1 DEF Once
  <2>7. \A i \in DOMAIN Page : HasRank(Page[i], offset + i)
    BY <2>4, RankOfResult
  <2>8. \A i \in DOMAIN Page : Page[i] \in Matching
    BY <1>2, <2>4, Drained, SMTT(30) DEF Shown, Top
  <2> QED  BY <2>4, <2>5, <2>6, <2>7, <2>8 DEF RankedPage
<1> QED  BY <1>1, <1>2, <1>6, <1>7

AllRanked == \A i \in DOMAIN pages : RankedPage(pages[i])

LEMMA RankedStep == TypeOK /\ Sorted /\ AllRanked /\ [Next]_vars => AllRanked'
<1> SUFFICES ASSUME TypeOK, Sorted, AllRanked, [Next]_vars PROVE AllRanked'
  OBVIOUS
<1>1. order' = order /\ score' = score /\ limit' = limit
  BY DEF Next, Push, AllPushed, Drain, Paginate, AskNextPage, Done, vars
<1>2. ASSUME NEW p, RankedPage(p) PROVE RankedPage(p)'
  <2>1. Matching' = Matching
    BY <1>1 DEF Matching
  <2>2. PageLength(p.offset)' = PageLength(p.offset)
    BY <1>1, <2>1 DEF PageLength
  <2>3. ASSUME NEW d, NEW i, HasRank(d, i) PROVE HasRank(d, i)'
    BY <1>1, <2>1, <2>3 DEF HasRank
  <2> QED  BY <1>2, <2>1, <2>2, <2>3 DEF RankedPage
<1>3. CASE Paginate
  <2>1. RankedPage([offset |-> offset, docs |-> Page])
    BY <1>3, PageIsRanked DEF Paginate
  <2>2. pages \in Seq([offset : 0..SizeMax, docs : Seq(Docs)])
    BY DEF TypeOK
  <2>3. pages' = Append(pages, [offset |-> offset, docs |-> Page])
    BY <1>3 DEF Paginate
  <2>4. \A i \in DOMAIN pages' : RankedPage(pages'[i])
    BY <2>1, <2>2, <2>3 DEF AllRanked
  <2> QED  BY <1>2, <2>4 DEF AllRanked
<1>4. CASE pages' = pages
  BY <1>2, <1>4 DEF AllRanked
<1> QED  BY <1>3, <1>4 DEF Next, Push, AllPushed, Drain, AskNextPage, Done, vars

\* Each page is as long as it can be, shows no document twice, and has at each
\* place a document of that rank: for any documents and scores, any order of the
\* score map and choice among ties, any limit and any offset of a size_t.
THEOREM PagesAreRanked == Spec => []PagesOfRanking
<1>1. Init => Sorted /\ AllRanked
  BY DEF Init, Sorted, AllRanked
<1>2. AllRanked => PagesOfRanking
  BY DEF AllRanked, RankedPage, PagesOfRanking, Once
<1> QED
  BY <1>1, <1>2, SortedStep, RankedStep, TypeCorrect, HeapKeepsTheBest, PTL DEF Spec

-----------------------------------------------------------------------------
(* Without ties a document has one rank, and pages lie apart.              *)

Apart ==
  /\ \A n \in DOMAIN pages :
       IF step = "idle" THEN pages[n].offset <= offset ELSE pages[n].offset + limit <= offset
  /\ \A m, n \in DOMAIN pages : m < n => pages[m].offset + limit <= pages[n].offset

LEMMA EntryTyped ==
  ASSUME NEW S, NEW s \in Seq(S), NEW n \in DOMAIN s
  PROVE  s[n] \in S
  OBVIOUS

LEMMA PagesTyped ==
  ASSUME TypeOK
  PROVE  /\ limit \in Nat /\ offset \in Nat
         /\ pages \in Seq([offset : 0..SizeMax, docs : Seq(Docs)])
         /\ \A n \in DOMAIN pages : pages[n].offset \in Nat /\ pages[n].docs \in Seq(Docs)
<1>1. pages \in Seq([offset : 0..SizeMax, docs : Seq(Docs)])
  BY DEF TypeOK
<1>2. ASSUME NEW n \in DOMAIN pages
      PROVE  pages[n].offset \in Nat /\ pages[n].docs \in Seq(Docs)
  <2>1. pages[n] \in [offset : 0..SizeMax, docs : Seq(Docs)]
    BY <1>1, EntryTyped
  <2> QED  BY <2>1, EngineAssumption
<1> QED  BY <1>1, <1>2, KeepIsNat

LEMMA ApartStep == TypeOK /\ Apart /\ [Next]_vars => Apart'
<1> SUFFICES ASSUME TypeOK, Apart, [Next]_vars PROVE Apart'
  OBVIOUS
<1>1. /\ limit \in Nat /\ offset \in Nat
      /\ pages \in Seq([offset : 0..SizeMax, docs : Seq(Docs)])
      /\ \A n \in DOMAIN pages : pages[n].offset \in Nat
  BY PagesTyped
<1>2. CASE Push \/ AllPushed \/ Drain
  BY <1>2 DEF Push, AllPushed, Drain, Apart
<1>3. CASE Paginate
  <2> DEFINE page == [offset |-> offset, docs |-> Page]
  <2>1. /\ pages' = Append(pages, page) /\ step' = "idle" /\ step # "idle"
        /\ limit' = limit /\ offset' = offset
    BY <1>3 DEF Paginate
  <2>2. /\ DOMAIN pages' = 1..(Len(pages) + 1) /\ Len(pages) \in Nat
        /\ DOMAIN pages = 1..Len(pages)
        /\ pages'[Len(pages) + 1].offset = offset
        /\ \A n \in DOMAIN pages : pages'[n] = pages[n]
    BY <1>1, <2>1
  <2>3. \A n \in DOMAIN pages : pages[n].offset + limit <= offset
    BY <2>1 DEF Apart
  <2>4. ASSUME NEW n \in DOMAIN pages' PROVE pages'[n].offset <= offset
    BY <1>1, <2>2, <2>3
  <2>5. ASSUME NEW m \in DOMAIN pages', NEW n \in DOMAIN pages', m < n
        PROVE  pages'[m].offset + limit <= pages'[n].offset
    <3>1. m \in DOMAIN pages
      BY <2>2, <2>5
    <3>2. CASE n \in DOMAIN pages
      BY <2>2, <2>5, <3>1, <3>2 DEF Apart
    <3>3. CASE n = Len(pages) + 1
      BY <2>2, <2>3, <3>1, <3>3
    <3> QED  BY <2>2, <3>2, <3>3
  <2> QED  BY <2>1, <2>4, <2>5 DEF Apart
<1>4. CASE AskNextPage
  <2>1. /\ pages' = pages /\ step = "idle" /\ step' = "push"
        /\ limit' = limit /\ offset' = offset + limit
    BY <1>4 DEF AskNextPage
  <2>2. \A n \in DOMAIN pages : pages[n].offset + limit <= offset + limit
    BY <1>1, <2>1 DEF Apart
  <2> QED  BY <2>1, <2>2 DEF Apart
<1>5. CASE UNCHANGED vars
  BY <1>5 DEF vars, Apart
<1> QED  BY <1>2, <1>3, <1>4, <1>5 DEF Next, Done

LEMMA OneRank ==
  ASSUME TypeOK, NoTies, NEW d \in Matching, NEW i \in Nat, NEW j \in Nat,
         HasRank(d, i), HasRank(d, j)
  PROVE  i = j
<1> DEFINE better == {e \in Matching : score[e] > score[d]}
           asGood == {e \in Matching : score[e] >= score[d]}
<1>1. \A e \in Matching : score[e] \in Nat
  BY MatchingFinite, EngineAssumption DEF TypeOK
<1>2. asGood = better \cup {d} /\ d \notin better
  BY <1>1 DEF NoTies
<1>3. IsFiniteSet(better) /\ Cardinality(better) \in Nat
  BY MatchingFinite
<1>4. Cardinality(asGood) = Cardinality(better) + 1
  BY <1>2, <1>3, FS_AddElement
<1>5. /\ Cardinality(better) < i /\ Cardinality(asGood) >= i
      /\ Cardinality(better) < j /\ Cardinality(asGood) >= j
  BY DEF HasRank
<1> QED  BY <1>3, <1>4, <1>5

LEMMA ShownOnceFollows ==
  ASSUME TypeOK, AllRanked, Apart, NoTies
  PROVE  ShownOnce
<1>1. /\ limit \in Nat
      /\ pages \in Seq([offset : 0..SizeMax, docs : Seq(Docs)])
      /\ \A n \in DOMAIN pages : pages[n].offset \in Nat /\ pages[n].docs \in Seq(Docs)
  BY PagesTyped
<1>2. ASSUME NEW n \in DOMAIN pages, NEW i \in DOMAIN pages[n].docs
      PROVE  /\ i \in Nat /\ 1 <= i /\ i <= limit
             /\ HasRank(pages[n].docs[i], pages[n].offset + i)
             /\ pages[n].docs[i] \in Matching
  <2>1. /\ Len(pages[n].docs) = PageLength(pages[n].offset)
        /\ HasRank(pages[n].docs[i], pages[n].offset + i)
        /\ pages[n].docs[i] \in Matching
    BY DEF AllRanked, RankedPage
  <2>2. Cardinality(Matching) \in Nat
    BY MatchingFinite
  <2>3. PageLength(pages[n].offset) <= limit
    BY <1>1, <2>2, SMTT(30) DEF PageLength
  <2>4. i \in 1..Len(pages[n].docs) /\ Len(pages[n].docs) \in Nat
    BY <1>1, SMTT(30)
  <2> QED  BY <1>1, <2>1, <2>3, <2>4
<1>3. ASSUME NEW m \in DOMAIN pages, NEW n \in DOMAIN pages,
             NEW i \in DOMAIN pages[m].docs, NEW j \in DOMAIN pages[n].docs,
             pages[m].docs[i] = pages[n].docs[j], m < n
      PROVE  FALSE
  <2>1. /\ i \in Nat /\ i <= limit
        /\ HasRank(pages[m].docs[i], pages[m].offset + i)
        /\ pages[m].docs[i] \in Matching
    BY <1>2
  <2>2. /\ j \in Nat /\ 1 <= j
        /\ HasRank(pages[n].docs[j], pages[n].offset + j)
    BY <1>2
  <2>3. pages[m].offset \in Nat /\ pages[n].offset \in Nat /\ limit \in Nat
    BY <1>1
  <2>4. pages[m].offset + i \in Nat /\ pages[n].offset + j \in Nat
    BY <2>1, <2>2, <2>3
  <2>5. pages[m].offset + i = pages[n].offset + j
    BY <1>3, <2>1, <2>2, <2>4, OneRank
  <2>6. pages[m].offset + limit <= pages[n].offset
    BY <1>3 DEF Apart
  <2> QED  BY <2>1, <2>2, <2>3, <2>5, <2>6
<1>4. \A m, n \in DOMAIN pages : m < n \/ n < m \/ m = n
  BY <1>1
<1> QED  BY <1>3, <1>4 DEF ShownOnce

\* If no two scores are equal, no document is on two pages.
THEOREM ShownOnceIfNoTies == Spec => []ShownOnceWithoutTies
<1>1. Init => AllRanked /\ Sorted /\ Apart
  BY DEF Init, Sorted, AllRanked, Apart
<1>2. TypeOK /\ AllRanked /\ Apart => ShownOnceWithoutTies
  BY ShownOnceFollows DEF ShownOnceWithoutTies
<1> QED
  BY <1>1, <1>2, SortedStep, RankedStep, ApartStep, TypeCorrect, HeapKeepsTheBest, PTL DEF Spec

-----------------------------------------------------------------------------
(* The heap of the library.  Smallest and Greatest stand for induction.    *)

\* A set of numbers that is not empty has a smallest.
LEMMA Smallest ==
  ASSUME NEW S, S \subseteq Nat, S # {}
  PROVE  \E x \in S : \A y \in S : x <= y
<1>1. PICK x \in S : \A y \in S : ~(y < x)
  <2>1. \E x \in S : \A y \in S : ~(<<y, x>> \in OpToRel(<, Nat))
    BY NatLessThanWellFounded, WFMin, Zenon
  <2> QED  BY <2>1, Zenon DEF OpToRel
<1> QED  BY <1>1

LEMMA Greatest ==
  ASSUME NEW n \in Nat, NEW S, S \subseteq 0..n, S # {}
  PROVE  \E x \in S : \A y \in S : y <= x
<1> DEFINE T == {n - x : x \in S}
<1>1. T \subseteq Nat /\ T # {}
  <2>1. \A x \in S : n - x \in Nat
    OBVIOUS
  <2> QED  BY <2>1, Zenon
<1>2. PICK t \in T : \A y \in T : t <= y
  BY <1>1, Smallest
<1>3. PICK x \in S : t = n - x
  OBVIOUS
<1>4. \A y \in S : n - x <= n - y
  BY <1>2, <1>3
<1> QED  BY <1>4

LEMMA ParentFacts ==
  ASSUME NEW i \in Nat
  PROVE  /\ Parent(i) \in Nat /\ Parent(i) <= i
         /\ i > 0 => Parent(i) < i
         /\ i > 1 => Parent(i) > 0
         /\ i = 2 * Parent(i) \/ i = 2 * Parent(i) + 1
         /\ \A j \in Nat : i <= j => Parent(i) <= Parent(j)
  BY DEF Parent

LEMMA ParentIsBefore ==
  ASSUME NEW i \in Nat, i > 1
  PROVE  Parent(i) \in 1..(i - 1) /\ (i = 2 * Parent(i) \/ i = 2 * Parent(i) + 1)
  BY DEF Parent

\* What a set of places with their parents has at least.
LEMMA AboveLeast ==
  ASSUME NEW i, NEW S, S \in SUBSET (1..i), i \in S,
         \A x \in S \ {1} : Parent(x) \in S
  PROVE  Above(i) \subseteq S
  BY DEF Above

LEMMA AboveFacts ==
  ASSUME NEW i \in Nat \ {0}
  PROVE  /\ Above(i) \subseteq 1..i /\ i \in Above(i)
         /\ \A x \in Above(i) \ {1} : Parent(x) \in Above(i)
         /\ 1 \in Above(i)
<1>1. Above(i) \subseteq 1..i /\ i \in Above(i)
  BY DEF Above
<1>2. ASSUME NEW x \in Above(i) \ {1} PROVE Parent(x) \in Above(i)
  <2>1. x \in 1..i /\ Parent(x) \in 1..i
    BY <1>1, ParentFacts
  <2>2. ASSUME NEW S \in SUBSET (1..i), i \in S, \A y \in S \ {1} : Parent(y) \in S
        PROVE  Parent(x) \in S
    BY <2>2 DEF Above
  <2> QED  BY <2>1, <2>2 DEF Above
<1>3. 1 \in Above(i)
  <2>1. PICK x \in Above(i) : \A y \in Above(i) : x <= y
    BY <1>1, Smallest
  <2>2. x \in Nat /\ x > 0
    BY <1>1
  <2>3. x # 1 => Parent(x) \in Above(i) /\ Parent(x) < x /\ Parent(x) \in Nat
    BY <1>2, <2>2, ParentFacts
  <2> QED  BY <2>1, <2>2, <2>3
<1> QED  BY <1>1, <1>2, <1>3

\* Each place above has a child on the way.
LEMMA AboveHasChild ==
  ASSUME NEW i \in Nat \ {0}, NEW j \in Above(i), j # i
  PROVE  \E c \in Above(i) \ {1} : Parent(c) = j
<1> SUFFICES ASSUME \A c \in Above(i) \ {1} : Parent(c) # j PROVE FALSE
  OBVIOUS
<1> DEFINE S == Above(i) \ {j}
<1>1. S \in SUBSET (1..i) /\ i \in S
  BY AboveFacts
<1>2. \A x \in S \ {1} : Parent(x) \in S
  BY AboveFacts
<1>3. Above(i) \subseteq S
  <2> HIDE DEF S
  <2> QED  BY <1>1, <1>2, AboveLeast
<1> QED  BY <1>3

\* And nothing of the way is between a place and its parent.
LEMMA AboveHasNoGap ==
  ASSUME NEW i \in Nat \ {0}
  PROVE  \A y \in Above(i), x \in Above(i) : x < y => x <= Parent(y)
<1> DEFINE Good == {y \in Above(i) : \A x \in Above(i) : x < y => x <= Parent(y)}
<1>1. Above(i) \subseteq 1..i
  BY AboveFacts
<1>2. i \in Good
  <2> DEFINE S == {x \in Above(i) : x = i \/ x <= Parent(i)}
  <2>1. S \in SUBSET (1..i) /\ i \in S
    BY <1>1, AboveFacts
  <2>2. ASSUME NEW x \in S \ {1} PROVE Parent(x) \in S
    <3>1. Parent(x) \in Above(i) /\ x \in Nat /\ Parent(x) <= x /\ Parent(x) \in Nat /\ Parent(i) \in Nat
      BY <1>1, AboveFacts, ParentFacts
    <3> QED  BY <3>1
  <2>3. Above(i) \subseteq S
    <3> HIDE DEF S
    <3> QED  BY <2>1, <2>2, AboveLeast
  <2>4. \A x \in Above(i) : x < i => x <= Parent(i)
    BY <1>1, <2>3
  <2> QED  BY <2>4, AboveFacts
<1>3. ASSUME NEW y \in Good \ {1} PROVE Parent(y) \in Good
  <2> DEFINE z == Parent(y)
             S == {x \in Above(i) : x >= z \/ x <= Parent(z)}
  <2>1. /\ y \in Above(i) /\ z \in Above(i) /\ z \in 1..i /\ y \in 1..i /\ z < y
        /\ \A x \in Above(i) : x < y => x <= z
    BY <1>1, AboveFacts, ParentFacts
  <2>2. S \in SUBSET (1..i) /\ i \in S
    BY <1>1, <2>1, AboveFacts
  <2>3. ASSUME NEW x \in S \ {1} PROVE Parent(x) \in S
    <3>1. /\ Parent(x) \in Above(i) /\ x \in Nat /\ x \in Above(i)
          /\ Parent(x) <= x /\ Parent(x) \in Nat /\ Parent(z) \in Nat
      BY <1>1, <2>1, AboveFacts, ParentFacts
    <3>2. CASE x <= Parent(z)
      BY <3>1, <3>2
    <3>3. CASE x = z
      BY <3>1, <3>3
    <3>4. CASE x > z
      <4>1. y <= x
        BY <2>1, <3>1, <3>4
      <4>2. z <= Parent(x)
        BY <2>1, <3>1, <4>1, ParentFacts
      <4> QED  BY <3>1, <4>2
    <3> QED  BY <2>1, <3>1, <3>2, <3>3, <3>4
  <2>4. Above(i) \subseteq S
    BY <2>2, <2>3, AboveLeast
  <2>5. \A x \in Above(i) : x < z => x <= Parent(z)
    BY <1>1, <2>1, <2>4
  <2> QED  BY <2>1, <2>5
<1>4. Good \in SUBSET (1..i)
  BY <1>1
<1>5. Above(i) \subseteq Good
  <2> HIDE DEF Good
  <2>1. i \in Good /\ \A y \in Good \ {1} : Parent(y) \in Good
    BY <1>2, <1>3
  <2> QED  BY <1>4, <2>1, AboveLeast
<1> QED  BY <1>5

\* Every entry is no smaller than the one it hangs from, a place apart that nothing
\* hangs from.
OrderedBut(q, s, n, hole) ==
  /\ \A i \in (1..n) \ {hole} : s[q[i]] \in Nat
  /\ \A i \in (2..n) \ {hole} : s[q[Parent(i)]] <= s[q[i]]
  /\ hole \in 1..n /\ 2 * hole > n

LEMMA PlaceExists ==
  ASSUME NEW q, NEW s, NEW hole \in Nat \ {0}, NEW d, s[d] \in Nat,
         \A i \in 1..(hole - 1) : s[q[i]] \in Nat
  PROVE  LET p == Place(q, s, hole, d)
         IN  /\ p \in Above(hole)
             /\ p = 1 \/ s[q[Parent(p)]] <= s[d]
             /\ \A j \in Above(hole) : j > p => s[q[Parent(j)]] > s[d]
<1> DEFINE Past == {i \in Above(hole) : \A j \in Above(hole) : j > i => s[q[Parent(j)]] > s[d]}
<1>1. /\ Above(hole) \subseteq 1..hole /\ hole \in Above(hole)
      /\ \A x \in Above(hole) \ {1} : Parent(x) \in Above(hole)
  BY AboveFacts
<1>2. Past \subseteq Nat /\ hole \in Past
  BY <1>1
<1>3. PICK p \in Past : \A i \in Past : p <= i
  <2> HIDE DEF Past
  <2> QED  BY <1>2, Smallest
<1>4. p = 1 \/ s[q[Parent(p)]] <= s[d]
  <2> SUFFICES ASSUME p # 1, ~(s[q[Parent(p)]] <= s[d]) PROVE FALSE
    OBVIOUS
  <2>1. /\ p \in Nat /\ p > 1 /\ Parent(p) \in Above(hole) /\ Parent(p) \in Nat
        /\ Parent(p) < p /\ Parent(p) \in 1..(hole - 1) /\ p \in Above(hole)
    BY <1>1, ParentFacts
  <2>2. s[q[Parent(p)]] > s[d]
    BY <2>1
  <2>3. ASSUME NEW j \in Above(hole), j > Parent(p) PROVE s[q[Parent(j)]] > s[d]
    <3>1. j \in Nat
      BY <1>1
    <3>2. j < p => j <= Parent(p)
      BY <2>1, AboveHasNoGap
    <3>3. j = p \/ j > p
      BY <2>1, <2>3, <3>1, <3>2
    <3> QED  BY <2>2, <3>3
  <2>4. Parent(p) \in Past
    BY <2>1, <2>3
  <2> QED  BY <1>3, <2>1, <2>4
<1>5. \E i \in Above(hole) :
        /\ i = 1 \/ s[q[Parent(i)]] <= s[d]
        /\ \A j \in Above(hole) : j > i => s[q[Parent(j)]] > s[d]
  BY <1>3, <1>4
<1> QED  BY <1>5, Zenon DEF Place

\* The same with a document in it: a heap of what there was and d.
Filled(D, q, s, n, hole, d, r) ==
  /\ r \in [1..n -> D]
  /\ Entries(r) = {q[i] : i \in (1..n) \ {hole}} \cup {d}
  /\ \A i \in 2..n : s[r[Parent(i)]] <= s[r[i]]

\* push_heap: the entry that comes in takes its place and the order is whole.
LEMMA RisenIsHeap ==
  ASSUME NEW D, NEW s \in [D -> Nat], NEW n \in Nat \ {0}, NEW hole, NEW q, NEW d \in D,
         DOMAIN q \cup {hole} = 1..n, \A i \in (1..n) \ {hole} : q[i] \in D,
         OrderedBut(q, s, n, hole), NEW r, r = Risen(q, s, hole, d)
  PROVE  Filled(D, q, s, n, hole, d, r)
<1> DEFINE A == Above(hole)
           p == Place(q, s, hole, d)
<1>1. /\ hole \in 1..n /\ 2 * hole > n /\ hole \in Nat \ {0}
      /\ \A i \in (2..n) \ {hole} : s[q[Parent(i)]] <= s[q[i]]
  BY DEF OrderedBut
<1>2. /\ A \subseteq 1..hole /\ hole \in A /\ 1 \in A
      /\ \A x \in A \ {1} : Parent(x) \in A
  BY <1>1, AboveFacts
<1>3. s[d] \in Nat /\ \A i \in (1..n) \ {hole} : s[q[i]] \in Nat
  OBVIOUS
<1>4. /\ p \in A
      /\ p = 1 \/ s[q[Parent(p)]] <= s[d]
      /\ \A j \in A : j > p => s[q[Parent(j)]] > s[d]
  <2>1. \A i \in 1..(hole - 1) : s[q[i]] \in Nat
    BY <1>1, <1>3
  <2> QED  BY <1>1, <1>3, <2>1, PlaceExists
<1>5. /\ p \in 1..hole /\ p \in Nat
      /\ \A i \in A, j \in A : i < j => i <= Parent(j)
      /\ \A i \in A \ {hole} : \E c \in A \ {1} : Parent(c) = i
  <2>1. p \in 1..hole /\ p \in Nat
    <3> HIDE DEF p
    <3> QED  BY <1>1, <1>2, <1>4
  <2>2. \A i \in A, j \in A : i < j => i <= Parent(j)
    BY <1>1, AboveHasNoGap
  <2>3. \A i \in A \ {hole} : \E c \in A \ {1} : Parent(c) = i
    BY <1>1, AboveHasChild
  <2> QED  BY <2>1, <2>2, <2>3
<1>6. ASSUME NEW i \in 2..n
      PROVE  /\ Parent(i) \in 1..n /\ Parent(i) < i /\ Parent(i) # hole
  BY <1>1, ParentFacts
<1> HIDE DEF A, p
<1>7. r = [i \in 1..n |-> CASE i = p            -> d
                            [] i \in A /\ i > p -> q[Parent(i)]
                            [] OTHER            -> q[i]]
  BY DEF Risen, A, p
<1>8. ASSUME NEW i \in 1..n
      PROVE  /\ i = p => r[i] = d
             /\ i \in A /\ i > p => r[i] = q[Parent(i)] /\ Parent(i) \in (1..n) \ {hole}
                                    /\ Parent(i) \in A /\ i \in 2..n
             /\ i # p /\ ~(i \in A /\ i > p) => r[i] = q[i] /\ i # hole
  <2>1. i = p => r[i] = d
    BY <1>7
  <2>2. ASSUME i \in A, i > p
        PROVE  r[i] = q[Parent(i)] /\ Parent(i) \in (1..n) \ {hole} /\ Parent(i) \in A
               /\ i \in 2..n
    <3>1. r[i] = q[Parent(i)]
      BY <1>5, <1>7, <2>2
    <3>2. i \in 2..n
      BY <1>5, <2>2
    <3> QED  BY <1>2, <1>6, <2>2, <3>1, <3>2
  <2>3. ASSUME i # p, ~(i \in A /\ i > p) PROVE r[i] = q[i] /\ i # hole
    <3>1. r[i] = q[i]
      BY <1>7, <2>3
    <3>2. i # hole
      BY <1>2, <1>5, <2>3
    <3> QED  BY <3>1, <3>2
  <2> QED  BY <2>1, <2>2, <2>3
<1>9. r \in [1..n -> D]
  <2>1. \A i \in 1..n : r[i] \in D
    BY <1>8
  <2>2. DOMAIN r = 1..n /\ r = [i \in 1..n |-> r[i]]
    BY <1>7
  <2> QED  BY <2>1, <2>2
<1>10. ASSUME NEW i \in 2..n PROVE s[r[Parent(i)]] <= s[r[i]]
  <2> DEFINE u == Parent(i)
  <2>1. /\ u \in 1..n /\ u < i /\ u # hole /\ i \in 1..n /\ i # 1
        /\ u \in Nat /\ i \in Nat
        /\ i \in A => u \in A
    BY <1>2, <1>6
  <2>2. i # hole => s[q[u]] <= s[q[i]]
    BY <1>1
  <2>3. s[q[u]] \in Nat /\ s[d] \in Nat /\ (i # hole => s[q[i]] \in Nat)
    BY <1>3, <2>1
  <2> HIDE DEF u
  <2>4. CASE i \in A /\ i > p
    <3>1. r[i] = q[u] /\ p <= u
      <4>1. r[i] = q[u]
        BY <1>8, <2>1, <2>4 DEF u
      <4>2. p <= u
        BY <1>4, <1>5, <2>4 DEF u
      <4> QED  BY <4>1, <4>2
    <3>2. CASE u = p
      <4>1. r[u] = d /\ s[q[u]] > s[d]
        BY <1>4, <1>8, <2>1, <2>4, <3>2 DEF u
      <4> QED  BY <2>3, <3>1, <4>1 DEF u
    <3>3. CASE u > p
      <4>1. r[u] = q[Parent(u)] /\ u \in (2..n) \ {hole}
        BY <1>8, <2>1, <2>4, <3>3
      <4> QED  BY <1>1, <3>1, <4>1 DEF u
    <3> QED  BY <1>5, <2>1, <3>1, <3>2, <3>3
  <2>5. CASE i = p
    <3>1. r[i] = d /\ s[q[u]] <= s[d]
      BY <1>4, <1>8, <2>1, <2>5 DEF u
    <3>2. r[u] = q[u]
      BY <1>5, <1>8, <2>1, <2>5
    <3> QED  BY <3>1, <3>2 DEF u
  <2>6. CASE i # p /\ ~(i \in A /\ i > p)
    <3>1. r[i] = q[i] /\ i # hole
      BY <1>8, <2>1, <2>6
    <3>2. CASE u = p
      <4>1. PICK c \in A \ {1} : Parent(c) = p
        <5>1. p # hole
          BY <2>1, <3>2
        <5> QED  BY <1>4, <1>5, <5>1
      <4>2. c \in Nat /\ c > p
        BY <1>2, <4>1, ParentFacts
      <4>3. s[q[u]] > s[d] /\ r[u] = d
        BY <1>4, <1>8, <2>1, <3>2, <4>1, <4>2
      <4> QED  BY <2>2, <2>3, <3>1, <4>3 DEF u
    <3>3. CASE u \in A /\ u > p
      <4>1. r[u] = q[Parent(u)] /\ u \in (2..n) \ {hole} /\ Parent(u) \in (1..n) \ {hole}
        BY <1>8, <2>1, <3>3
      <4>2. s[q[Parent(u)]] <= s[q[u]] /\ s[q[Parent(u)]] \in Nat
        BY <1>1, <1>3, <4>1
      <4> QED  BY <2>2, <2>3, <3>1, <4>1, <4>2 DEF u
    <3>4. CASE u # p /\ ~(u \in A /\ u > p)
      BY <1>8, <2>1, <2>2, <3>1, <3>4 DEF u
    <3> QED  BY <3>2, <3>3, <3>4
  <2> QED  BY <2>4, <2>5, <2>6
<1>11. Entries(r) = {q[i] : i \in (1..n) \ {hole}} \cup {d}
  <2>1. DOMAIN r = 1..n
    BY <1>9
  <2>2. ASSUME NEW i \in 1..n PROVE r[i] \in {q[k] : k \in (1..n) \ {hole}} \cup {d}
    BY <1>8
  <2>3. ASSUME NEW i \in (1..n) \ {hole} PROVE \E k \in 1..n : r[k] = q[i]
    <3>1. CASE i \in A /\ i >= p
      <4>1. PICK c \in A \ {1} : Parent(c) = i
        BY <1>5, <3>1
      <4>2. c \in 1..n /\ c > p
        BY <1>1, <1>2, <1>5, <3>1, <4>1, ParentFacts
      <4> QED  BY <1>8, <4>1, <4>2
    <3>2. CASE ~(i \in A /\ i >= p)
      <4>1. i # p /\ i \in 1..n
        BY <1>4, <1>5, <3>2
      <4>2. ~(i \in A /\ i > p)
        BY <1>5, <3>2, <4>1
      <4> QED  BY <1>8, <4>1, <4>2
    <3> QED  BY <3>1, <3>2
  <2>4. r[p] = d /\ p \in 1..n
    <3>1. p \in 1..n
      BY <1>1, <1>5
    <3> QED  BY <1>8, <3>1
  <2>5. Entries(r) \subseteq {q[i] : i \in (1..n) \ {hole}} \cup {d}
    BY <2>1, <2>2 DEF Entries
  <2>6. {q[i] : i \in (1..n) \ {hole}} \subseteq Entries(r) /\ d \in Entries(r)
    BY <2>1, <2>3, <2>4 DEF Entries
  <2> QED  BY <2>5, <2>6
<1> QED  BY <1>9, <1>10, <1>11 DEF Filled

IsHeap(q, s) == \A i \in 2..Len(q) : s[q[Parent(i)]] <= s[q[i]]

LEMMA PushedIsHeap ==
  ASSUME NEW D, NEW s \in [D -> Nat], NEW q \in Seq(D), NEW d \in D, IsHeap(q, s)
  PROVE  LET r == WithPushed(q, s, d)
         IN  r \in Seq(D) /\ Len(r) = Len(q) + 1 /\ Entries(r) = Entries(q) \cup {d}
             /\ IsHeap(r, s)
<1> DEFINE n == Len(q) + 1
           r == Risen(q, s, n, d)
<1>0. Len(q) \in Nat /\ DOMAIN q = 1..Len(q)
  OBVIOUS
<1>1. n \in Nat \ {0} /\ DOMAIN q \cup {n} = 1..n /\ DOMAIN q = (1..n) \ {n}
  BY <1>0
<1>2. OrderedBut(q, s, n, n)
  <2>1. \A i \in (2..n) \ {n} : i \in 2..Len(q)
    OBVIOUS
  <2> QED  BY <1>1, <2>1 DEF OrderedBut, IsHeap
<1> HIDE DEF n
<1>3. \A i \in (1..n) \ {n} : q[i] \in D
  <2>1. \A i \in DOMAIN q : q[i] \in D
    OBVIOUS
  <2> QED  BY <1>1, <2>1
<1>4. /\ r \in [1..n -> D] /\ Entries(r) = {q[i] : i \in (1..n) \ {n}} \cup {d}
      /\ \A i \in 2..n : s[r[Parent(i)]] <= s[r[i]]
  <2> HIDE DEF r
  <2>1. r = Risen(q, s, n, d)
    BY DEF r
  <2>2. Filled(D, q, s, n, n, d, r)
    BY <1>1, <1>2, <1>3, <2>1, RisenIsHeap
  <2> QED  BY <2>2 DEF Filled
<1> HIDE DEF r
<1>5. r \in Seq(D) /\ Len(r) = n
  BY <1>1, <1>4
<1>6. Entries(r) = Entries(q) \cup {d} /\ IsHeap(r, s)
  BY <1>1, <1>4, <1>5 DEF Entries, IsHeap
<1> QED  BY <1>5, <1>6 DEF r, n, WithPushed

\* A heap whose top is gone, the free place moved down to hole.
Freed(D, q, s, last, hole, m) ==
  /\ m \in [1..last -> D]
  /\ OrderedBut(m, s, last, hole)
  /\ {m[i] : i \in (1..last) \ {hole}} = {q[i] : i \in 2..last}

\* The free place of pop_heap gets to one that nothing hangs from.
LEMMA LeafExists ==
  ASSUME NEW q, NEW s, NEW last \in Nat \ {0}
  PROVE  LET l == Leaf(q, s, last)
         IN  l \in 1..last /\ 2 * l > last /\ SinksTo(q, s, last, l)
<1> DEFINE Way == {i \in 1..last : SinksTo(q, s, last, i)}
<1>1. 1 \in Way
  BY AboveFacts DEF SinksTo
<1>2. PICK l \in Way : \A i \in Way : i <= l
  <2>1. Way \subseteq 0..last /\ Way # {}
    BY <1>1
  <2> HIDE DEF Way
  <2> QED  BY <2>1, Greatest
<1>3. 2 * l > last
  <2> SUFFICES ASSUME ~(2 * l > last) PROVE FALSE
    OBVIOUS
  <2> DEFINE c == SmallerChild(q, s, last, l)
  <2>1. l \in Nat /\ l > 0 /\ 2 * l <= last
    OBVIOUS
  <2>2. c \in 1..last /\ c > l /\ Parent(c) = l
    BY <2>1 DEF SmallerChild, Parent
  <2> HIDE DEF c
  <2>3. Above(c) \subseteq Above(l) \cup {c}
    <3> DEFINE S == Above(l) \cup {c}
    <3>1. S \in SUBSET (1..c) /\ c \in S /\ l \in S
      BY <2>1, <2>2, AboveFacts
    <3>2. \A x \in S \ {1} : Parent(x) \in S
      BY <2>1, <2>2, <3>1, AboveFacts
    <3> HIDE DEF S
    <3>3. Above(c) \subseteq S
      BY <3>1, <3>2, AboveLeast
    <3> QED  BY <3>3 DEF S
  <2>4. SinksTo(q, s, last, c)
    BY <2>2, <2>3 DEF SinksTo, c
  <2> QED  BY <1>2, <2>1, <2>2, <2>4
<1>4. \E i \in 1..last : 2 * i > last /\ SinksTo(q, s, last, i)
  BY <1>2, <1>3
<1> QED  BY <1>4, Zenon DEF Leaf

LEMMA MovedIsOrdered ==
  ASSUME NEW D, NEW s \in [D -> Nat], NEW last \in Nat \ {0}, NEW q,
         q \in [1..(last + 1) -> D],
         \A i \in 2..(last + 1) : s[q[Parent(i)]] <= s[q[i]],
         NEW hole, hole = Leaf(q, s, last), NEW m, m = Moved(q, s, last, hole)
  PROVE  Freed(D, q, s, last, hole, m)
<1> DEFINE A == Above(hole)
           Child(i) == SmallerChild(q, s, last, i)
<1>1. /\ hole \in 1..last /\ 2 * hole > last /\ hole \in Nat \ {0}
      /\ \A j \in A \ {1} : j = Child(Parent(j))
  BY LeafExists DEF SinksTo
<1>2. /\ A \subseteq 1..hole /\ hole \in A /\ 1 \in A
      /\ \A x \in A \ {1} : Parent(x) \in A
  BY <1>1, AboveFacts
<1>3. \A i \in A \ {hole} : Child(i) \in A \ {1} /\ Parent(Child(i)) = i
  <2>1. \A i \in A \ {hole} : \E c \in A \ {1} : Parent(c) = i
    BY <1>1, AboveHasChild
  <2> QED  BY <1>1, <2>1
<1>4. ASSUME NEW i \in 2..last
      PROVE  /\ Parent(i) \in 1..last /\ Parent(i) < i /\ Parent(i) # hole
             /\ s[q[Child(Parent(i))]] <= s[q[i]]
  <2>1. /\ Parent(i) \in 1..last /\ Parent(i) < i /\ Parent(i) # hole
        /\ i = 2 * Parent(i) \/ i = 2 * Parent(i) + 1
    <3>1. i \in Nat /\ i > 1 /\ i <= last
      OBVIOUS
    <3>2. Parent(i) \in 1..(i - 1) /\ (i = 2 * Parent(i) \/ i = 2 * Parent(i) + 1)
      BY <3>1, ParentIsBefore
    <3>3. Parent(i) # hole
      BY <1>1, <3>1, <3>2
    <3>4. Parent(i) \in 1..last /\ Parent(i) < i
      BY <3>1, <3>2
    <3> QED  BY <3>2, <3>3, <3>4
  <2>2. \A k \in 1..(last + 1) : s[q[k]] \in Nat
    OBVIOUS
  <2> DEFINE u == Parent(i)
  <2> HIDE DEF u
  <2>3. u \in 1..last /\ (i = 2 * u \/ i = 2 * u + 1)
    BY <2>1 DEF u
  <2>4. s[q[Child(u)]] <= s[q[i]]
    <3>1. CASE i = 2 * u
      <4>1. CASE 2 * u < last /\ s[q[2 * u + 1]] <= s[q[2 * u]]
        BY <3>1, <4>1 DEF SmallerChild
      <4>2. CASE ~(2 * u < last /\ s[q[2 * u + 1]] <= s[q[2 * u]])
        BY <2>2, <3>1, <4>2 DEF SmallerChild
      <4> QED  BY <4>1, <4>2
    <3>2. CASE i = 2 * u + 1
      <4>1. 2 * u < last /\ 2 * u \in 1..(last + 1)
        BY <2>3, <3>2
      <4>2. s[q[2 * u]] \in Nat /\ s[q[i]] \in Nat
        BY <2>2, <4>1
      <4>3. CASE s[q[2 * u + 1]] <= s[q[2 * u]]
        BY <3>2, <4>1, <4>2, <4>3 DEF SmallerChild
      <4>4. CASE ~(s[q[2 * u + 1]] <= s[q[2 * u]])
        BY <3>2, <4>1, <4>2, <4>4 DEF SmallerChild
      <4> QED  BY <4>3, <4>4
    <3> QED  BY <2>3, <3>1, <3>2
  <2> QED  BY <2>1, <2>4 DEF u
<1> HIDE DEF A, Child
<1>5. m = [i \in 1..last |-> IF i \in A \ {hole} THEN q[Child(i)] ELSE q[i]]
  BY DEF Moved, A, Child
<1>6. ASSUME NEW i \in 1..last
      PROVE  /\ i \in A \ {hole} => m[i] = q[Child(i)] /\ Child(i) \in 2..last
             /\ i \notin A \/ i = hole => m[i] = q[i]
  <2>1. ASSUME i \in A \ {hole} PROVE m[i] = q[Child(i)] /\ Child(i) \in 2..last
    <3>1. m[i] = q[Child(i)]
      BY <1>5, <2>1
    <3>2. Child(i) \in A \ {1}
      BY <1>3, <2>1
    <3>3. Child(i) \in 1..hole /\ Child(i) # 1
      BY <1>2, <3>2
    <3> QED  BY <1>1, <3>1, <3>3
  <2>2. i \notin A \/ i = hole => m[i] = q[i]
    BY <1>5
  <2> QED  BY <2>1, <2>2
<1>7. m \in [1..last -> D]
  <2>1. \A k \in 1..(last + 1) : q[k] \in D
    OBVIOUS
  <2>2. \A k \in 2..last : k \in 1..(last + 1)
    OBVIOUS
  <2>3. \A i \in 1..last : i \in 1..(last + 1)
    OBVIOUS
  <2>4. \A i \in 1..last : m[i] \in D
    BY <1>6, <2>1, <2>2, <2>3
  <2> QED  BY <1>5, <2>4
<1>8. ASSUME NEW i \in (2..last) \ {hole} PROVE s[m[Parent(i)]] <= s[m[i]]
  <2> DEFINE u == Parent(i)
  <2>0. i \in 2..last /\ i \in 1..last /\ i # 1 /\ i \in 2..(last + 1)
    OBVIOUS
  <2>1. /\ u \in 1..last /\ u # hole /\ i \in 1..last /\ i # 1
        /\ i \in A => u \in A /\ i = Child(u)
        /\ s[q[Child(u)]] <= s[q[i]] /\ s[q[u]] <= s[q[i]]
    <3>1. u \in 1..last /\ u # hole /\ s[q[Child(u)]] <= s[q[i]]
      BY <1>4, <2>0
    <3>2. i \in A => u \in A /\ i = Child(u)
      BY <1>1, <1>2, <2>0
    <3>3. s[q[u]] <= s[q[i]]
      BY <2>0
    <3> QED  BY <2>0, <3>1, <3>2, <3>3
  <2>2. CASE i \in A
    <3>1. m[u] = q[i] /\ m[i] = q[Child(i)] /\ Child(i) \in 2..last /\ Parent(Child(i)) = i
      BY <1>3, <1>6, <2>1, <2>2
    <3>2. Child(i) \in 2..(last + 1)
      BY <3>1
    <3>3. s[q[i]] <= s[q[Child(i)]]
      BY <3>1, <3>2
    <3> QED  BY <3>1, <3>3
  <2>3. CASE i \notin A /\ u \in A
    BY <1>6, <2>1, <2>3
  <2>4. CASE i \notin A /\ u \notin A
    BY <1>6, <2>1, <2>4
  <2> QED  BY <2>2, <2>3, <2>4
<1>9. OrderedBut(m, s, last, hole)
  <2>1. \A i \in 1..last : s[m[i]] \in Nat
    BY <1>7
  <2> QED  BY <1>1, <1>8, <2>1 DEF OrderedBut
<1>10. \A i \in (1..last) \ {hole} : \E k \in 2..last : m[i] = q[k]
  <2> SUFFICES ASSUME NEW i \in (1..last) \ {hole} PROVE \E k \in 2..last : m[i] = q[k]
    OBVIOUS
  <2>1. CASE i \in A
    BY <1>6, <2>1
  <2>2. CASE i \notin A
    <3>1. i \in 2..last
      BY <1>2, <2>2
    <3> QED  BY <1>6, <2>2, <3>1
  <2> QED  BY <2>1, <2>2
<1>11. ASSUME NEW k \in 2..last PROVE \E i \in (1..last) \ {hole} : m[i] = q[k]
  <2>1. CASE k \in A
    <3>1. k \in A \ {1}
      BY <2>1
    <3>2. Parent(k) \in A /\ k = Child(Parent(k)) /\ Parent(k) \in (1..last) \ {hole}
      BY <1>1, <1>2, <1>4, <3>1
    <3> QED  BY <1>6, <3>2
  <2>2. CASE k \notin A
    BY <1>2, <1>6, <2>2
  <2> QED  BY <2>1, <2>2
<1>12. {m[i] : i \in (1..last) \ {hole}} = {q[k] : k \in 2..last}
  <2>1. {m[i] : i \in (1..last) \ {hole}} \subseteq {q[k] : k \in 2..last}
    BY <1>10
  <2>2. {q[k] : k \in 2..last} \subseteq {m[i] : i \in (1..last) \ {hole}}
    BY <1>11
  <2> QED  BY <2>1, <2>2
<1> QED  BY <1>7, <1>9, <1>12 DEF Freed

LEMMA RestIsHeap ==
  ASSUME NEW D, NEW s \in [D -> Nat], NEW q \in Seq(D), q # << >>, Once(q), IsHeap(q, s)
  PROVE  LET r == WithoutTop(q, s)
         IN  r \in Seq(D) /\ Len(r) = Len(q) - 1 /\ Entries(r) = Entries(q) \ {q[1]}
             /\ IsHeap(r, s)
<1>1. CASE Len(q) = 1
  <2>1. WithoutTop(q, s) = << >> /\ DOMAIN q = {1}
    BY <1>1 DEF WithoutTop
  <2> QED  BY <1>1, <2>1 DEF Entries, IsHeap
<1>2. CASE Len(q) # 1
  <2> DEFINE last == Len(q) - 1
             hole == Leaf(q, s, last)
             m == Moved(q, s, last, hole)
             d == q[last + 1]
             r == Risen(m, s, hole, d)
  <2>1. last \in Nat \ {0} /\ Len(q) = last + 1 /\ q \in [1..(last + 1) -> D] /\ d \in D
    BY <1>2
  <2>2. WithoutTop(q, s) = r
    BY <1>2 DEF WithoutTop, Sunk
  <2>3. \A i \in 2..(last + 1) : s[q[Parent(i)]] <= s[q[i]]
    BY <2>1 DEF IsHeap
  <2> HIDE DEF last
  <2> HIDE DEF r
  <2>r. r = Risen(m, s, hole, d)
    BY DEF r
  <2> HIDE DEF m
  <2>m. m = Moved(q, s, last, hole)
    BY DEF m
  <2> HIDE DEF hole
  <2>h. hole = Leaf(q, s, last)
    BY DEF hole
  <2>4. /\ m \in [1..last -> D]
        /\ OrderedBut(m, s, last, hole)
        /\ {m[i] : i \in (1..last) \ {hole}} = {q[i] : i \in 2..last}
    <3>1. Freed(D, q, s, last, hole, m)
      BY <2>1, <2>3, <2>h, <2>m, MovedIsOrdered
    <3> QED  BY <3>1 DEF Freed
  <2> HIDE DEF d
  <2>5. DOMAIN m \cup {hole} = 1..last /\ \A i \in (1..last) \ {hole} : m[i] \in D
    BY <2>4 DEF OrderedBut
  <2>6. /\ r \in [1..last -> D]
        /\ Entries(r) = {m[i] : i \in (1..last) \ {hole}} \cup {d}
        /\ \A i \in 2..last : s[r[Parent(i)]] <= s[r[i]]
    <3>1. Filled(D, m, s, last, hole, d, r)
      BY <2>1, <2>4, <2>5, <2>r, RisenIsHeap
    <3> QED  BY <3>1 DEF Filled
  <2>7. r \in Seq(D) /\ Len(r) = last
    BY <2>1, <2>6
  <2>8. {q[i] : i \in 2..last} \cup {d} = Entries(q) \ {q[1]}
    <3>1. DOMAIN q = {1} \cup (2..last) \cup {last + 1} /\ 1 \notin 2..last /\ last + 1 # 1
      BY <2>1
    <3>2. \A i \in DOMAIN q : q[i] = q[1] => i = 1
      BY <3>1 DEF Once
    <3> QED  BY <3>1, <3>2 DEF Entries, d
  <2>9. Len(r) = Len(q) - 1 /\ Entries(r) = Entries(q) \ {q[1]}
    <3>1. Len(r) = Len(q) - 1
      BY <2>1, <2>7
    <3>2. Entries(r) = {q[i] : i \in 2..last} \cup {d}
      BY <2>4, <2>6
    <3> QED  BY <2>8, <3>1, <3>2
  <2>10. IsHeap(r, s)
    BY <2>6, <2>7 DEF IsHeap
  <2> QED  BY <2>2, <2>7, <2>9, <2>10
<1> QED  BY <1>1, <1>2

\* The first entry of a heap is a smallest one.
LEMMA TopIsSmallest ==
  ASSUME NEW D, NEW s \in [D -> Nat], NEW q \in Seq(D), IsHeap(q, s)
  PROVE  \A i \in DOMAIN q : s[q[1]] <= s[q[i]]
<1> DEFINE Smaller == {i \in DOMAIN q : ~(s[q[1]] <= s[q[i]])}
<1> SUFFICES ASSUME Smaller # {} PROVE FALSE
  OBVIOUS
<1>1. PICK i \in Smaller : \A j \in Smaller : i <= j
  <2>1. Smaller \subseteq Nat
    OBVIOUS
  <2> HIDE DEF Smaller
  <2> QED  BY <2>1, Smallest
<1>2. \A j \in DOMAIN q : s[q[j]] \in Nat
  OBVIOUS
<1>3. i \in DOMAIN q /\ 1 \in DOMAIN q /\ i \in Nat /\ i # 1
  BY <1>2
<1>4. Parent(i) \in DOMAIN q /\ Parent(i) < i /\ Parent(i) \in Nat /\ i \in 2..Len(q)
  <2>1. i \in Nat /\ i > 1 /\ i <= Len(q) /\ DOMAIN q = 1..Len(q) /\ Len(q) \in Nat
    BY <1>3
  <2>2. Parent(i) \in Nat /\ Parent(i) < i /\ Parent(i) > 0
    BY <2>1, ParentFacts
  <2> QED  BY <2>1, <2>2
<1>5. s[q[1]] <= s[q[Parent(i)]]
  BY <1>1, <1>3, <1>4
<1>6. s[q[Parent(i)]] <= s[q[i]]
  BY <1>4 DEF IsHeap
<1> QED  BY <1>2, <1>3, <1>4, <1>5, <1>6

-----------------------------------------------------------------------------
(* QueryEngineHeap: every step is one of QueryEngine.                      *)

LEMMA OnceIsAsMany ==
  ASSUME NEW S, NEW q \in Seq(S)
  PROVE  /\ IsFiniteSet(Entries(q))
         /\ Cardinality(Entries(q)) = Len(q) <=> Once(q)
<1> DEFINE f == [i \in 1..Len(q) |-> q[i]]
<1>1. Len(q) \in Nat /\ DOMAIN q = 1..Len(q)
  OBVIOUS
<1>2. f \in Surjection(1..Len(q), Entries(q))
  BY <1>1 DEF Surjection, Entries
<1>3. IsFiniteSet(1..Len(q)) /\ Cardinality(1..Len(q)) = Len(q)
  BY <1>1, FS_Interval
<1>4. f \in Injection(1..Len(q), Entries(q)) <=> Once(q)
  BY <1>1, <1>2 DEF Injection, IsInjective, Surjection, Once
<1> QED  BY <1>2, <1>3, <1>4, FS_Surjection

\* The array is a heap of the documents that QueryEngine has in its set.
ArrayIsHeap ==
  /\ queue \in Seq(Docs) /\ heap = Entries(queue)
  /\ Once(queue) /\ IsHeap(queue, score)

LEMMA ScoresAreNumbers == TypeOK => score \in [Docs -> Nat]
  BY EngineAssumption DEF TypeOK

LEMMA EmptyIsHeap ==
  /\ << >> \in Seq(Docs) /\ Entries(<< >>) = {} /\ Once(<< >>)
  /\ \A s : IsHeap(<< >>, s)
  BY DEF Entries, Once, IsHeap

\* The front of the array is a top of the set, and without it the array is a heap.
LEMMA FrontIsTop ==
  ASSUME TypeOK, NEW q \in Seq(Docs), q # << >>, Once(q), IsHeap(q, score)
  PROVE  /\ q[1] \in TopOf(Entries(q))
         /\ WithoutTop(q, score) \in Seq(Docs)
         /\ Entries(WithoutTop(q, score)) = Entries(q) \ {q[1]}
         /\ Once(WithoutTop(q, score)) /\ IsHeap(WithoutTop(q, score), score)
<1>1. score \in [Docs -> Nat]
  BY ScoresAreNumbers
<1>2. 1 \in DOMAIN q /\ Len(q) \in Nat
  OBVIOUS
<1>3. q[1] \in TopOf(Entries(q))
  BY <1>1, <1>2, TopIsSmallest DEF TopOf, Entries
<1> DEFINE r == WithoutTop(q, score)
<1> HIDE DEF r
<1>4. /\ r \in Seq(Docs) /\ Len(r) = Len(q) - 1 /\ Entries(r) = Entries(q) \ {q[1]}
      /\ IsHeap(r, score)
  BY <1>1, RestIsHeap DEF r
<1>5. Cardinality(Entries(q)) = Len(q) /\ IsFiniteSet(Entries(q))
  BY OnceIsAsMany
<1>6. Cardinality(Entries(r)) = Len(r)
  BY <1>2, <1>3, <1>4, <1>5, FS_RemoveElement DEF TopOf
<1>7. Once(r)
  BY <1>4, <1>6, OnceIsAsMany
<1> QED  BY <1>3, <1>4, <1>7 DEF r

LEMMA PushImplements ==
  ASSUME TypeOK, ArrayIsHeap, HeapPush
  PROVE  Push /\ ArrayIsHeap'
<1> DEFINE x == order[seen + 1]
           all == WithPushed(queue, score, x)
<1>1. x \in Docs /\ x \notin heap /\ heap \subseteq Docs /\ IsFiniteSet(heap)
  <2>1. order \in Seq(Docs) /\ Once(order) /\ seen + 1 \in DOMAIN order /\ seen \in Nat
    BY OrderFacts DEF TypeOK, HeapPush
  <2>2. x \in Docs /\ x \notin Pushed
    BY <2>1 DEF Pushed, Once
  <2> QED  BY <2>2, MatchingFinite DEF TypeOK
<1>2. score \in [Docs -> Nat]
  BY ScoresAreNumbers
<1>3. queue \in Seq(Docs) /\ Once(queue) /\ IsHeap(queue, score) /\ heap = Entries(queue)
  BY DEF ArrayIsHeap
<1>4. /\ queue' = IF TooMany(all) THEN WithoutTop(all, score) ELSE all
      /\ heap' = Entries(queue') /\ score' = score
  BY DEF HeapPush
<1> HIDE DEF x, all
<1>a. all = WithPushed(queue, score, x)
  BY DEF all
<1>5. /\ all \in Seq(Docs) /\ Len(all) = Len(queue) + 1
      /\ Entries(all) = heap \cup {x} /\ IsHeap(all, score)
  <2>1. /\ WithPushed(queue, score, x) \in Seq(Docs)
        /\ Len(WithPushed(queue, score, x)) = Len(queue) + 1
        /\ Entries(WithPushed(queue, score, x)) = Entries(queue) \cup {x}
        /\ IsHeap(WithPushed(queue, score, x), score)
    <3>1. x \in Docs /\ queue \in Seq(Docs) /\ IsHeap(queue, score)
      BY <1>1, <1>3
    <3> QED  BY <1>2, <3>1, PushedIsHeap
  <2> QED  BY <1>3, <1>a, <2>1
<1>6. Cardinality(heap) = Len(queue) /\ Len(queue) \in Nat
  BY <1>3, OnceIsAsMany
<1>7. Cardinality(heap \cup {x}) = Len(all)
  BY <1>1, <1>5, <1>6, FS_AddElement
<1>8. Once(all) /\ all # << >>
  <2>1. Once(all)
    BY <1>5, <1>7, OnceIsAsMany
  <2> QED  BY <1>5, <1>6, <2>1
<1>9. TooMany(all) <=> Cardinality(heap \cup {x}) > Keep
  BY <1>7 DEF TooMany
<1>10. CASE TooMany(all)
  <2>1. all[1] \in TopOf(heap \cup {x}) /\ heap' = (heap \cup {x}) \ {all[1]}
    BY <1>4, <1>5, <1>8, <1>10, FrontIsTop
  <2>2. ArrayIsHeap'
    BY <1>4, <1>5, <1>8, <1>10, FrontIsTop DEF ArrayIsHeap
  <2> QED  BY <1>9, <1>10, <2>1, <2>2 DEF HeapPush, Push, x
<1>11. CASE ~TooMany(all)
  <2>1. heap' = heap \cup {x} /\ ArrayIsHeap'
    BY <1>4, <1>5, <1>8, <1>11 DEF ArrayIsHeap
  <2> QED  BY <1>9, <1>11, <2>1 DEF HeapPush, Push, x
<1> QED  BY <1>10, <1>11

LEMMA DrainImplements ==
  ASSUME TypeOK, ArrayIsHeap, HeapDrain
  PROVE  Drain /\ ArrayIsHeap'
<1>1. /\ queue \in Seq(Docs) /\ Once(queue) /\ IsHeap(queue, score) /\ heap = Entries(queue)
      /\ queue # << >> /\ queue' = WithoutTop(queue, score) /\ heap' = Entries(queue')
      /\ score' = score /\ results' = <<queue[1]>> \o results
  BY DEF ArrayIsHeap, HeapDrain
<1>2. queue[1] \in TopOf(heap) /\ heap' = heap \ {queue[1]} /\ ArrayIsHeap'
  BY <1>1, FrontIsTop DEF ArrayIsHeap
<1> QED  BY <1>1, <1>2 DEF HeapDrain, Drain

LEMMA HeapStepImplements ==
  TypeOK /\ ArrayIsHeap /\ [HeapNext]_heap_vars => [Next]_vars /\ ArrayIsHeap'
<1> SUFFICES ASSUME TypeOK, ArrayIsHeap, [HeapNext]_heap_vars
             PROVE  [Next]_vars /\ ArrayIsHeap'
  OBVIOUS
<1>1. CASE HeapPush
  BY <1>1, PushImplements DEF Next
<1>2. CASE HeapDrain
  BY <1>2, DrainImplements DEF Next
<1>3. CASE (AllPushed \/ Paginate \/ Done) /\ UNCHANGED queue
  BY <1>3 DEF Next, AllPushed, Paginate, Done, vars, ArrayIsHeap
<1>4. CASE AskNextPage /\ queue' = << >>
  BY <1>4, EmptyIsHeap DEF Next, AskNextPage, ArrayIsHeap
<1>5. CASE UNCHANGED heap_vars
  BY <1>5 DEF heap_vars, vars, ArrayIsHeap
<1> QED  BY <1>1, <1>2, <1>3, <1>4, <1>5 DEF HeapNext

\* The search with the heap of the library is a search of QueryEngine: what was
\* proved above of any choice among ties holds of the one that heap makes.
THEOREM LibraryHeapImplements == HeapSpec => Spec
<1>1. HeapInit => Init /\ TypeOK /\ ArrayIsHeap
  BY OrderFacts, EmptyIsHeap DEF HeapInit, Init, TypeOK, Pushed, ArrayIsHeap
<1>2. TypeOK /\ ArrayIsHeap /\ [HeapNext]_heap_vars => [Next]_vars /\ TypeOK' /\ ArrayIsHeap'
  BY HeapStepImplements, TypeStep
<1> QED  BY <1>1, <1>2, PTL DEF HeapSpec, Spec
=============================================================================
