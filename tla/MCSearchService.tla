-------------------------- MODULE MCSearchService --------------------------
(***************************************************************************)
(* Small instances of SearchService for TLC.  Two spellings of one query   *)
(* and a second query; limits and offsets that collide in nothing but the  *)
(* words; a cache with room for one entry or for two, so that it is full   *)
(* and evicts; one request of each kind the handler refuses.               *)
(***************************************************************************)
EXTENDS SearchService, TLC

MCTexts == {"cat", " Cat", "dog", "  ", "long"}

MCNormalize == [x \in MCTexts |-> IF x = " Cat" THEN "cat" ELSE x]

MCSearchKeys == [query : MCTexts, limit : 1..2, offset : 0..2]

\* The engine tells every two keys apart that differ in more than spelling.
MCSearch == [k \in MCSearchKeys |-> [k EXCEPT !.query = MCNormalize[@]]]

MCAnswers == {MCSearch[k] : k \in MCSearchKeys} \cup {NoResults}

Ask(q, limit, offset) == [q |-> q, limit |-> limit, offset |-> offset]

\* Every check of the handler, alone and before a later one that fails too.
Refusable == {Ask(Absent, 0, Absent), Ask("  ", Absent, Absent),
              Ask("long", Absent, Junk), Ask("cat", 0, Junk),
              Ask("cat", 3, Absent), Ask("dog", 1, 3)}

EveryKindOfRequest ==
  Refusable \cup {Ask("cat", Absent, Absent), Ask(" Cat", 2, Absent), Ask("dog", 1, 1)}

\* Four requests for three keys: one more than the cache of the races has room for, so
\* that a put evicts what another thread has just put, or looked up.  Refusals share
\* nothing with the other threads.
RacingRequests ==
  {Ask("cat", Absent, Absent), Ask(" Cat", 2, Absent), Ask("cat", 1, 1), Ask("dog", 1, 1)}

ThreadSymmetry == Permutations(Threads)
=============================================================================
