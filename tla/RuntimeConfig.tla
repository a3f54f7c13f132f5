--------------------------- MODULE RuntimeConfig ---------------------------
(***************************************************************************)
(* How wikilens is called (backend/src/main.cpp): the environment and the  *)
(* words of the command line, which of the artifact files that makes the   *)
(* program use, and the command it prints when it has indexed without      *)
(* ranks, which an operator may then give in the same environment.         *)
(***************************************************************************)
EXTENDS Naturals, Sequences, Functions

CONSTANTS
  CommandLines,   \* sequences of words
  Environments,   \* records of the values of the three variables
  Numerals,       \* parseSizeT: the words it takes, with their values
  DefaultDump,    \* kDefaultDumpPath
  Canonical       \* weakly_canonical: the file of each path

\* Words are strings, and "--help" is neither a path nor a number.
ASSUME ConfigAssumption ==
  /\ CommandLines \subseteq Seq(STRING)
  /\ Environments \subseteq [dump_path : STRING \ {"--help"}, max_docs : STRING,
                             compute_pagerank : STRING]
  /\ DefaultDump \in STRING \ {"--help"}
  /\ Numerals \in [DOMAIN Numerals -> Nat] /\ DOMAIN Numerals \subseteq STRING \ {"--help"}

Unset == "unset"

DefaultConfig ==
  [dump_path |-> DefaultDump, dump_path_overridden |-> FALSE, max_docs |-> 0,
   compute_pagerank_during_index |-> FALSE, recompute_pagerank_only |-> FALSE,
   benchmark_only |-> FALSE, profile_indexing |-> FALSE, benchmark_queries_path |-> ""]

NoEnvironment == [dump_path |-> Unset, max_docs |-> Unset, compute_pagerank |-> Unset]

NothingIndexed == [suffix |-> <<"none">>, dump |-> "", max_docs |-> 0]

VARIABLES
  environment,
  argv,           \* the words not read yet
  config,
  status,         \* "called", "parsing", "refused" (also by --help), "configured",
                  \* "indexed" or "running"
  hinted,         \* is the command line the one the program printed?
  indexed         \* what an earlier call has indexed, and the suffix of its files

config_vars == <<environment, argv, config, status, hinted, indexed>>

ConfigInit ==
  /\ environment \in Environments /\ argv \in CommandLines
  /\ config = DefaultConfig /\ status = "called"
  /\ hinted = FALSE /\ indexed = NothingIndexed

-----------------------------------------------------------------------------
(* parseRuntimeConfig.                                                     *)

Truths == {"1", "true", "TRUE", "yes"}

KnownLimit == environment.max_docs \in {Unset} \cup DOMAIN Numerals

\* --help is looked for first, wherever it stands.
ReadEnvironment ==
  /\ status = "called"
  /\ status' = IF "--help" \in Range(argv) \/ ~KnownLimit THEN "refused" ELSE "parsing"
  /\ config' =
       [DefaultConfig EXCEPT
          !.compute_pagerank_during_index = environment.compute_pagerank \in Truths,
          !.dump_path = IF environment.dump_path \in {Unset, ""} THEN @ ELSE environment.dump_path,
          !.dump_path_overridden = environment.dump_path \notin {Unset, ""},
          !.max_docs = IF environment.max_docs \in DOMAIN Numerals
                       THEN Numerals[environment.max_docs] ELSE @]
  /\ UNCHANGED <<environment, argv, hinted, indexed>>

Switches ==
  [option \in {"--compute-pagerank", "--recompute-pagerank", "--benchmark",
               "--profile-indexing"} |->
     CASE option = "--compute-pagerank" -> "compute_pagerank_during_index"
       [] option = "--recompute-pagerank" -> "recompute_pagerank_only"
       [] option = "--benchmark" -> "benchmark_only"
       [] option = "--profile-indexing" -> "profile_indexing"]

\* Is the next word this option, followed by a value?
Given(option) == argv[1] = option /\ Len(argv) > 1

\* The next option is read, words many.
Takes(words, new_config) ==
  /\ argv' = SubSeq(argv, words + 1, Len(argv))
  /\ config' = new_config
  /\ UNCHANGED status

ReadArgument ==
  /\ status = "parsing" /\ argv # << >>
  /\ IF argv[1] \in DOMAIN Switches
     THEN Takes(1, [config EXCEPT ![Switches[argv[1]]] = TRUE])
     ELSE IF Given("--dump")
     THEN Takes(2, [config EXCEPT !.dump_path = argv[2], !.dump_path_overridden = TRUE])
     ELSE IF Given("--max-docs") /\ argv[2] \in DOMAIN Numerals
     THEN Takes(2, [config EXCEPT !.max_docs = Numerals[argv[2]]])
     ELSE IF Given("--benchmark-queries")
     THEN Takes(2, [config EXCEPT !.benchmark_queries_path = argv[2]])
     ELSE status' = "refused" /\ UNCHANGED <<argv, config>>
  /\ UNCHANGED <<environment, hinted, indexed>>

Configured ==
  /\ status = "parsing" /\ argv = << >>
  /\ status' = "configured"
  /\ UNCHANGED <<environment, argv, config, hinted, indexed>>

-----------------------------------------------------------------------------
(* What main does then, as far as it depends on the configuration.         *)

SuffixOfDump == IF ~config.dump_path_overridden THEN << >>             \* mutant
                ELSE <<Canonical[config.dump_path], config.max_docs>>

\* artifactSuffix: what the names of all three files end with, apart from the hash
\* it is hidden in: no two inputs have one hash.
ArtifactSuffix ==
  IF ~config.dump_path_overridden /\ config.max_docs = 0 THEN << >>
  ELSE <<Canonical[config.dump_path], config.max_docs>>

\* The command printed.  A number is printed as a numeral of the same value.
Hint ==
  <<"--recompute-pagerank">>
    \o (IF config.dump_path_overridden THEN <<"--dump", config.dump_path>> ELSE << >>)
    \o (IF config.max_docs > 0
        THEN <<"--max-docs", CHOOSE word \in DOMAIN Numerals : Numerals[word] = config.max_docs>>
        ELSE << >>)

\* The dump is indexed, or what an earlier call has made of it is loaded.
IndexDump ==
  /\ status = "configured" /\ ~config.recompute_pagerank_only
  /\ status' = "indexed"
  /\ indexed' = [suffix |-> ArtifactSuffix, dump |-> Canonical[config.dump_path],
                 max_docs |-> config.max_docs]
  /\ UNCHANGED <<environment, argv, config, hinted>>

\* The operator calls the program again, in the same environment.
CallAgain ==
  /\ status = "indexed" /\ ~hinted
  /\ \/ ~config.compute_pagerank_during_index /\ argv' = Hint /\ hinted' = TRUE
     \/ argv' \in CommandLines /\ UNCHANGED hinted
  /\ config' = DefaultConfig /\ status' = "called"
  /\ UNCHANGED <<environment, indexed>>

ConfigNext == ReadEnvironment \/ ReadArgument \/ Configured \/ IndexDump \/ CallAgain

-----------------------------------------------------------------------------
\* The environment limits the documents and the command line lifts the limit: the
\* command printed says nothing of a limit then, and the environment's holds again.
LimitLifted ==
  /\ indexed.max_docs = 0
  /\ environment.max_docs \in DOMAIN Numerals /\ Numerals[environment.max_docs] > 0

\* Two calls use the same files only if they name the same dump, however they spell
\* its path, and the same limit; and the command printed after indexing is one the
\* program takes, and one that finds the files just written, unless the command line
\* had lifted the limit of the environment.
FilesOfOneInput ==
  /\ status = "configured" /\ ArtifactSuffix = indexed.suffix =>
       Canonical[config.dump_path] = indexed.dump /\ config.max_docs = indexed.max_docs
  /\ hinted => status # "refused"
  /\ hinted /\ status = "configured" /\ ~LimitLifted => ArtifactSuffix = indexed.suffix
=============================================================================
