---------------------------- MODULE MCBenchmark ----------------------------
(***************************************************************************)
(* Command lines of up to two options, in eighteen environments.             *)
(* Query files over six characters for Benchmark: a comment, capitals,     *)
(* blank lines, words that are stemmed or left out, and a byte beyond      *)
(* ASCII that the library takes for a letter.                              *)
(***************************************************************************)
EXTENDS Benchmark, PorterStemmer, TLC

MCChars == {"a", "s", "S", " ", "#", "0xc3"}

MCLower == [ch \in MCChars |-> IF ch = "S" THEN "s" ELSE ch]

MCStopwords == {<<"a">>, <<"a", "s">>}

MCDefaultQueries ==
  <<<<"s", "a", "s">>, <<"S", " ", "a">>, <<"s", "s">>, <<"s", " ", " ", "a">>>>

MCOptions ==
  {<<"--dump", "a">>, <<"--dump", "./a">>, <<"--dump">>, <<"--max-docs", "0">>,
   <<"--max-docs", "2">>, <<"--max-docs", "all">>, <<"--compute-pagerank">>,
   <<"--recompute-pagerank">>, <<"--benchmark">>, <<"--benchmark-queries", "f">>,
   <<"--profile-indexing">>, <<"--help">>, <<"-v">>}

MCCommandLines ==
  {<< >>} \cup MCOptions \cup {first \o second : first, second \in MCOptions}

MCEnvironments ==
  {[NoEnvironment EXCEPT !.dump_path = dump, !.max_docs = limit, !.compute_pagerank = ranks] :
     dump \in {Unset, "", "d"}, limit \in {Unset, "2", "x"}, ranks \in {Unset, "1"}}

MCNumerals == ("0" :> 0) @@ ("2" :> 2)

\* Any word may come to be a path.
MCCanonical ==
  [path \in {"d"} \cup UNION {Range(option) : option \in MCOptions} |->
     IF path = "./a" THEN "a" ELSE path]
=============================================================================
