------------------------------ MODULE PageRank ------------------------------
(***************************************************************************)
(* PageRank::compute (backend/src/pageranker.cpp) in exact arithmetic.     *)
(*                                                                         *)
(* After n rounds a rank is a multiple of 1 / Whole(n), and only the       *)
(* multiple is kept.  The 30 rounds of applyPageRankScores are Rounds.     *)
(* The loops are recursive functions, which a proof can unfold.            *)
(***************************************************************************)
EXTENDS Naturals, FiniteSets, SequencesExt

CONSTANTS
  OutDegrees,     \* a common multiple of the lengths of the adjacency lists
  Rounds          \* iterations_

ASSUME PageRankAssumption == {OutDegrees, Rounds} \subseteq Nat \ {0}

Scale == 20 * OutDegrees

\* What stands for one after n rounds, Scale to the power of n.
Unit[n \in 0..Rounds] == IF n = 0 THEN 1 ELSE Scale * Unit[n - 1]

Whole(docs, n) == docs * Unit[n]

\* damping_ is 17/20: what a page has from no link, and what one of its links gives.
Base(n) == 3 * OutDegrees * Unit[n - 1]

Share(rank, degree) == 17 * rank * (OutDegrees \div degree)

Assigned(rank, id, share) == [rank EXCEPT ![id] = share]                \* mutant

Added(rank, id, share) == [rank EXCEPT ![id] = @ + share]

\* One link after the other, each gives its target a share of the rank before.
Spread(new_rank, links, share) ==
  LET given[k \in 0..Len(links)] ==
        IF k = 0 THEN new_rank ELSE Added(given[k - 1], links[k], share)
  IN  given[Len(links)]

Round(graph, rank, n) ==
  LET after[i \in 0..Cardinality(DOMAIN graph)] ==
        IF i = 0 THEN [id \in DOMAIN graph |-> Base(n)]
        ELSE IF graph[i - 1] = << >> THEN after[i - 1]
        ELSE Spread(after[i - 1], graph[i - 1], Share(rank[i - 1], Len(graph[i - 1])))
  IN  after[Cardinality(DOMAIN graph)]

Compute(graph) ==
  LET rank[n \in 0..Rounds] ==
        IF n = 0 THEN [id \in DOMAIN graph |-> 1] ELSE Round(graph, rank[n - 1], n)
  IN  rank[Rounds]

\* The ranks of the documents 0 to docs - 1 together.
Total(rank, docs) ==
  LET sum[n \in 0..docs] == IF n = 0 THEN 0 ELSE sum[n - 1] + rank[n - 1]
  IN  sum[docs]
=============================================================================
