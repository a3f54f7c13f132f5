-------------------------- MODULE QueryEngineHeap --------------------------
(***************************************************************************)
(* QueryEngine with the heap it really has: a std::priority_queue, which   *)
(* decides between documents of one score by where they stand in its       *)
(* array.  QueryEngine, which may take any of them for the top, has what   *)
(* any library may do; this is what the program does with one.             *)
(***************************************************************************)
EXTENDS QueryEngine, PriorityQueue

VARIABLE queue     \* the array of the heap

heap_vars == <<vars, queue>>

Entries(q) == {q[i] : i \in DOMAIN q}

HeapInit == Init /\ queue = << >>

TooMany(q) == Len(q) > Keep

HeapPush ==
  /\ step = "push"
  /\ seen < Len(order)
  /\ seen' = seen + 1
  /\ LET all == WithPushed(queue, score, order[seen + 1])
     IN  queue' = IF TooMany(all) THEN WithoutTop(all, score) ELSE all
  /\ heap' = Entries(queue')
  /\ UNCHANGED <<order, score, limit, offset, step, results, pages>>

HeapDrain ==
  /\ step = "drain"
  /\ queue # << >>
  /\ results' = <<queue[1]>> \o results
  /\ queue' = WithoutTop(queue, score)
  /\ heap' = Entries(queue')
  /\ UNCHANGED <<order, score, limit, offset, step, seen, pages>>

\* Every request has a queue of its own.
HeapNext ==
  \/ HeapPush \/ HeapDrain
  \/ (AllPushed \/ Paginate \/ Done) /\ UNCHANGED queue
  \/ AskNextPage /\ queue' = << >>

HeapSpec == HeapInit /\ [][HeapNext]_heap_vars

-----------------------------------------------------------------------------
\* query_engine.cpp:65, "Apply pagination", and frontend/README.md:9, "load-more
\* pagination": the pages of a search are parts of one list.
PagesArePartsOfOneList == ShownOnce
=============================================================================
