----------------------------- MODULE Benchmark -----------------------------
(***************************************************************************)
(* wikilens --benchmark (runBenchmark in backend/src/main.cpp): the same   *)
(* list of queries is run three times, past the cache, to warm a cache,    *)
(* and again to time the warm cache.  One thread, no mutex.                *)
(*                                                                         *)
(* It begins with the command line (RuntimeConfig).  The queries are the   *)
(* lines of a file, which is read here character by character: QueryReader *)
(* compares what the cache key and the tokenizer make of each line while   *)
(* it comes in.                                                            *)
(***************************************************************************)
EXTENDS LRUCache, QueryReader, RuntimeConfig, FiniteSets

CONSTANTS
  DefaultQueries, \* defaultBenchmarkQueries, for a run without a file
  MaxChars        \* bound: the length of a query file

ASSUME BenchmarkAssumption ==
  /\ "#" \in Chars \ Space
  /\ DefaultQueries \in Seq(Seq(Chars)) /\ DefaultQueries # << >>
  /\ \A i \in DOMAIN DefaultQueries : HasNonWhitespace(DefaultQueries[i])
  /\ MaxChars \in Nat

VARIABLES
  read,         \* how many characters of the file have been read
  queries,      \* the queries, in the order of the file
  pass, next,   \* "starting", "reading", or the loop that runs and its position
  cache, hits, misses,
  timed         \* how many searches each of the two timed loops has run

bench_vars == <<read, queries, pass, next, cache, hits, misses, timed>>

vars == <<config_vars, reader_vars, bench_vars>>

Init ==
  /\ ConfigInit
  /\ ReaderInit /\ read = 0
  /\ pass = "starting" /\ queries = << >> /\ next = 1
  /\ cache = Empty /\ hits = 0 /\ misses = 0
  /\ timed = [uncached |-> 0, cached |-> 0]

Configure == pass = "starting" /\ ConfigNext /\ UNCHANGED <<reader_vars, bench_vars>>

\* The index is there, and runBenchmark is called.  Nothing of the configuration is
\* read again.
Start ==
  /\ pass = "starting" /\ status = "indexed" /\ config.benchmark_only
  /\ IF config.benchmark_queries_path = ""
     THEN pass' = "uncached" /\ queries' = DefaultQueries
     ELSE pass' = "reading" /\ UNCHANGED queries
  /\ config' = DefaultConfig /\ environment' = NoEnvironment /\ status' = "running"
  /\ argv' = << >> /\ hinted' = FALSE /\ indexed' = NothingIndexed
  /\ UNCHANGED <<reader_vars, read, next, cache, hits, misses, timed>>

-----------------------------------------------------------------------------
(* loadBenchmarkQueries, by getline.                                       *)

IsQueryIfAny(line) == line # << >> /\ line[1] # "#"                     \* mutant

IsQuery(line) == line # << >> /\ line[1] # "#" /\ HasNonWhitespace(line)

WithLine == IF IsQuery(text) THEN Append(queries, text) ELSE queries

ReadChar ==
  /\ pass = "reading" /\ read < MaxChars
  /\ \E ch \in Chars : Read(ch)
  /\ read' = read + 1
  /\ UNCHANGED <<config_vars, queries, pass, next, cache, hits, misses, timed>>

EndOfLine ==
  /\ pass = "reading" /\ read < MaxChars
  /\ queries' = WithLine
  /\ NextText
  /\ read' = read + 1
  /\ UNCHANGED <<config_vars, pass, next, cache, hits, misses, timed>>

\* A line that ends with the file counts; a file that cannot be read has none.
EndOfFile ==
  /\ pass = "reading"
  /\ queries' = WithLine
  /\ pass' = IF queries' = << >> THEN "done" ELSE "uncached"
  /\ NextText /\ read' = 0
  /\ UNCHANGED <<config_vars, next, cache, hits, misses, timed>>

-----------------------------------------------------------------------------
(* The three loops.                                                        *)

KeyAsTyped == queries[next]                                           \* mutant

Key == NormalizeCacheQuery(queries[next])

\* The answer to a key does not matter here, only whether the cache has one.
AnAnswer == "answer"

AdvanceSkippingLast(following) ==                                     \* mutant
  IF next + 1 >= Len(queries) THEN pass' = following /\ next' = 1
  ELSE next' = next + 1 /\ UNCHANGED pass

Advance(following) ==
  IF next = Len(queries) THEN pass' = following /\ next' = 1
  ELSE next' = next + 1 /\ UNCHANGED pass

\* executeCachedSearch
ExecuteCachedSearch ==
  IF Has(cache, Key)
  THEN /\ cache' = Touch(cache, Key)
       /\ hits' = hits + 1
       /\ UNCHANGED misses
  ELSE /\ cache' = Put(cache, Key, AnAnswer)
       /\ misses' = misses + 1
       /\ UNCHANGED hits

UncachedPass ==
  /\ pass = "uncached"
  /\ timed' = [timed EXCEPT !.uncached = @ + 1]
  /\ Advance("warmup")
  /\ UNCHANGED <<config_vars, reader_vars, read, queries, cache, hits, misses>>

WarmupPass ==
  /\ pass = "warmup"
  /\ ExecuteCachedSearch
  /\ Advance("cached")
  /\ UNCHANGED <<config_vars, reader_vars, read, queries, timed>>

CachedPass ==
  /\ pass = "cached"
  /\ ExecuteCachedSearch
  /\ timed' = [timed EXCEPT !.cached = @ + 1]
  /\ Advance("done")
  /\ UNCHANGED <<config_vars, reader_vars, read, queries>>

\* The end, also of a call that runs no benchmark: the server's, or a refused one.
Done == (pass = "done" \/ status \in {"refused", "configured", "indexed"}) /\ UNCHANGED vars

Next ==
  \/ Configure \/ Start
  \/ ReadChar \/ EndOfLine \/ EndOfFile
  \/ UncachedPass \/ WarmupPass \/ CachedPass \/ Done

Spec == Init /\ [][Next]_vars

-----------------------------------------------------------------------------
Distinct == {NormalizeCacheQuery(queries[i]) : i \in DOMAIN queries}

\* Both timed loops time every query, and the printed hits and misses are the
\* lookups of the two cached loops.
Reported ==
  pass = "done" =>
    /\ timed = [uncached |-> Len(queries), cached |-> Len(queries)]
    /\ hits + misses = 2 * Len(queries)

\* If the cache has room for the distinct queries, warming misses each of them
\* once and the timed loop never: "Warm-cache search latency" is that of hits.
WarmWhenItFits ==
  Cardinality(Distinct) <= Capacity =>
    /\ misses <= Cardinality(Distinct)
    /\ pass = "done" => misses = Cardinality(Distinct)

\* What is searched is the cache key of a query, not the query: no query of a file
\* is lost or changes its words by that, whatever blanks, capitals, punctuation and
\* bytes beyond ASCII it has.
SearchedForItsWords ==
  pass \notin {"starting", "reading"} =>
    \A i \in DOMAIN queries :
      /\ NormalizeCacheQuery(queries[i]) # << >>
      /\ Tokenize(NormalizeCacheQuery(queries[i])) = Tokenize(queries[i])
=============================================================================
