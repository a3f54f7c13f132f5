# WikiLens in TLA+

WikiLens is a search engine for one Wikipedia dump: a C++ backend
(`backend/`) that indexes the dump, saves what it made of it, and answers
searches over HTTP on several threads, and a React page (`frontend/`) that asks
it. This directory holds models of the parts of it where the order of things
matters, the instances TLC checks, and proofs that TLAPS checks.

All paths below are relative to the repository; line numbers are those of the
commit the models were written from. `PROJECT.json` lists, for every definition
that stands for code, the lines it stands for.

## The system

### Its parts

| Part | State | Operations | Modules |
|---|---|---|---|
| Query cache, `lru_cache.h` | a list of nodes, a map from keys to list iterators, a capacity | `get`, `put`, `size` | `LRUCache`, `LRUPolicy`, `LRUCacheUse`, `LRUCacheProofs`, `LRUCacheUseProofs` |
| HTTP service, `main.cpp:1014-1148` | the cache, hit and miss counters, two mutexes, the locals of each handler | `/search`, `/stats` | `RequestParams`, `SearchApi`, `SearchService`, `SearchServiceProofs` |
| Artifact lifecycle, `main.cpp:586-616`, `841-1001` | three files, the index and the store in memory of two programs, the dump | boot, load, index, save, `--recompute-pagerank` | `ArtifactLifecycle`, `ArtifactLifecycleProofs` |
| Query engine, `query_engine.cpp` | the score map, a bounded heap | `search` with limit and offset | `QueryEngine`, `QueryEngineProofs`, `QueryEngineHeap`, `PriorityQueue` |
| Runtime configuration, `main.cpp:258-355`, `410-440` | the words not read yet, the configuration | options, environment, artifact names, the command printed | `RuntimeConfig`, `BenchmarkProofs` |
| Benchmark, `main.cpp:618-807` | a list of queries, a cache, counters | a query file, three loops over the list | `Benchmark`, `BenchmarkProofs` |
| Search page, `App.tsx` | text box, results, paging and loading flags, a timer, a menu, calls under way | search, load more, suggestions, pick one | `SearchPage`, `SuggestBox`, `SearchPageProofs` |
| Indexing, `main.cpp:901-985` | ids, titles, raw links | the parse callback, `--max-docs`, ranks | `Ingestion`, `IngestionProofs` |
| Dump parser, `wiki_parser.cpp` | current element, title, text, flags | `startElement`, `endElement`, `charData` | `WikiParser`, `IngestionProofs` |
| Wikitext stripper, `wikitext_stripper.cpp` | none | `clean`: text to words and links | `WikitextStripper` |
| Tokenizer and stemmer, `tokenizer.cpp`, `porter_stemmer.cpp` | none | `tokenize`, `stem` | `QueryText`, `QueryReader`, `PorterStemmer`, `BenchmarkProofs` |
| Inverted index, `inverted_index.cpp` | postings, document lengths, totals | `addDocument`, `lookup`, `suggestPrefix`, save, load | `InvertedIndex`, `IngestionProofs`; its files in `ArtifactLifecycle` |
| Document store, `document_store.cpp` | documents by id | `addDocument`, `setPageRank`, save, load | titles, snippets and ranks in `Ingestion`, ids in `ArtifactLifecycle` |
| Link graph, `main.cpp:477-552` | an edge list in a file, an adjacency list in memory | save, load, build | `LinkGraph`, `IngestionProofs`; as a file in `ArtifactLifecycle` |
| PageRank, `pageranker.cpp` | a rank for each document | `compute` | `PageRank`, `IngestionProofs` |
| Suggestions, `main.cpp:1050-1093` | none on the server | a prefix and the terms that begin with it | `QueryText`, `InvertedIndex`, `SuggestBox` |
| BM25, `bm25.cpp` | none | floating-point arithmetic | not modelled: an input |
| Deployment, `docker-compose.yml`, `nginx.conf` | - | restart policy, proxy | as fairness and as the network |
| Crow, third-party | worker threads | runs handlers at once | an assumption |

### How they interact

At boot `main` looks for the index and the store in the cache directory. If both
are there it loads them; if not, or if either does not load, it parses the dump
and adds every page to both, saves the link graph, computes ranks if asked to,
and saves index and store. From then on both are only read. The HTTP handlers
run on Crow's threads and share the query cache, its counters and two mutexes:
`search_cache_mutex` guards the cache and the counters and is taken twice in a
request that misses, `engine_mutex` guards the engine in between. The
offline recomputation is another process that reads and rewrites the store's
file in the same directory. The page talks to the server by calls that may be
answered in any order.

### What is hard about them

- Two critical sections per miss: what one thread looked up may have been stored,
  refreshed or evicted by others before it stores its own answer.
- The cache is searched by a normalized key and its answer is sent for the text as
  typed.
- `put` changes a list and a map in up to four steps.
- Three files without a transaction: written in place, one after the other, by two
  programs that can be killed at any byte, on a disk that can be full; one of them
  read and written by both programs, also at once.
- A load that fails after another has succeeded, and a rebuild on top of it.
- A parser whose text comes in pieces and whose state outlives the page, links to pages
  that come later, and a graph that goes through a text file.
- A heap bounded by the sum of two client numbers in a `size_t`, ties that no
  comparison decides, and pages that are each computed anew.
- A page with one loading flag and one offset for calls that overlap, fail or come
  back in another order, and a text box that changes under them; a timer that an edit
  cancels and calls that it does not.
- Markup nested in other markup, cut out by one pass after another, and markup that is
  never closed.
- Two readings of one text, the key's and the tokenizer's, with different ideas of what a
  character is.
- Artifact names that depend on some of the options, and a printed command that repeats
  some of them.

`PROJECT.json` lists each of these as a hazard at its line, with the properties
that would catch it going wrong, or why none does yet.

### What makes each part correct

- *Cache*: list and map in step, never over capacity, the entries used last and no
  others.
- *Service*: a client gets the engine's answer to what it sent; entries are paid
  for by misses; the three numbers of `/stats` belong to one instant; every
  request is answered.
- *Lifecycle*: what loads is complete; every document a query finds is known; ids
  are dense; a good pair of files is reused; the server comes back, or it is known
  which state of the files keeps it from that. Where two programs have had the store
  open at once, it is said what of this is left.
- *Indexing*: what is indexed is what a reader of the dump sees, page by page; the index
  adds up; broken markup takes along nothing that stands before it; the graph in the file
  is the graph in memory; the ranks share out one whole.
- *Texts*: a text and its cache key have the same words.
- *Configuration*: files are shared by equal inputs only, and found again.
- *Engine*: each page is the right part of a ranking by score.
- *Benchmark*: what it reports is what it did, and the warm loop is warm if the
  queries fit.
- *Page*: loading ends; "Load more" is there for full pages; undisturbed results are
  the pages of one search; a menu at rest fits the box.

## The modules

Definitions marked `mutant` in the modules are plausible bugs, kept beside the
definition they replace: for each property there is one that violates it, which
shows that the property depends on the code and not on the shape of the model.

### LRUCache, LRUPolicy, LRUCacheUse

`LRUCache` is `lru_cache.h` as operators on a record of the list (`order`) and the map
(`items`). An iterator is the key of the node it points to. `Put` is put together
from `Refresh`, `Evict` and `Insert`, the mutations of `put` in their order, so
that `SearchService` can do them one at a time. `LRUCacheUse` calls `get` and
`put` in any order and remembers the order of use in a history variable;
`LRUPolicy` says what "least recently used" means with no list and no map: the
first `Capacity` of everything ever put. `LRUCacheUse` implements it. Both histories move an
entry to the front by taking it out of its place (`RemoveAt`), as the code's `splice` does.

### RequestParams, SearchApi, SearchService

`RequestParams` is what the handler of `/search` makes of its query string: the
checks, in their order, and the cache key. Texts are opaque: constants say which
are blank or too long, and `Normalize` is `normalizeCacheQuery`.

`SearchService` has an action for every step of a handler that touches shared
state, also inside a critical section: the mutexes of the model keep the
threads apart, as those of the program do. The labels of `pc` follow the three
scoped locks of `executeSharedCachedSearch` and the one of `/stats`.

| Action | Code |
|---|---|
| `SearchRefused`, `SearchAccepted`, `StatsArrives` | the handlers up to their first lock |
| `LockCache`, `GetHit`, `GetMiss`, `CountHit`, `CountMiss` | `main.cpp:703-710` |
| `LockEngine`, `ExecuteSearch` | `main.cpp:712-716` |
| `PutRefresh`, `PutEvict`, `PutInsert` | `main.cpp:718-721` and `LRUCache::put` |
| `Respond` | `buildSearchResponse` |
| `ReadSize`, `ReadCounters` | `main.cpp:1032-1048` |

`SearchApi` is what a client may rely on, with no lock and no cache: a search is
refused for its first bad parameter or answered by the engine, is counted once
before it is answered, and `/stats` is a snapshot. `SearchService` implements it;
an entry between the eviction and the insertion of one `put` counts as stored.

The result lists, `total_docs` and the other fields of `/stats` that never change
while serving are left out.

### ArtifactLifecycle

The server's boot as the steps of `main`, one per file operation; the recomputation
as the steps of `recomputePageRankFromArtifacts`; the operator, who clears the
directory or replaces the dump. A file is opened with `std::ios::trunc`, which empties
it, and becomes loadable with its last byte, since `loadFromFile` reads as many
records as the file says it has. A file that cannot be opened is left as it is
(`OpenFails`, `ToolOpenFails`), and a removed file that is still open is no longer at
its path.

The store is the file both programs read and write. `writers` and `readers` say who has
it open. What one program writes alone is torn, or whole. Two streams each keep their own
offset, so what they leave may also have a hole of zeros, which reads as records of id 0,
or older bytes, where a length may be anything: such a file is any of `Mixtures`, one that
does not load, one on which the loader throws (`value.resize(len)`,
`document_store.cpp:30`), or any store of the constant `Garbled`, for which the runs
have stores with documents missing and with ids from nowhere, and the proofs any at all.
A load is two steps, from the opening to the return: who has read the store while it was
emptied or written by two gets a view that is `Changing`, and what it returns is again any
of these. `overlapped` remembers whether a program has ever opened the store for writing
while the other had it open; the properties that this breaks say so.

Contents are abstract: an index is the sequence of dumps added to it, a store maps
ids to the dump of their page and the kind of their rank (none, from the full
graph, from part of it). `Ingest` is the parse with its callback in one step: it
reads nothing another program writes.

### QueryText, QueryReader, PorterStemmer

`QueryText` is what the program makes of a text character by character: the cache key, the
words, the prefix of suggestions, the token that a picked suggestion replaces. Each loop of
the code is a fold of an operator for one character. `Space`, `Alnum` and `Lower` are the
library's functions of an unsigned char; `CharAlnum`, which the tokenizer asks of a `char`,
is any superset of `Alnum`. `QueryReader` reads a text with the normalizer and the
tokenizer at once, and what the normalizer puts out with a second tokenizer, so that a
relation between the two can be stated after every character, and proved step by step.
`PorterStemmer` is the stemmer as far
as the code goes: the three parts of Porter's first step.

### WikiParser, WikitextStripper, InvertedIndex, LinkGraph, PageRank, Ingestion

`WikiParser` has the three handlers expat calls as actions, over the events of a dump
in the MediaWiki export format: elements, the blanks between them, and text cut into
pieces anywhere. `WikitextStripper` is `clean`, pass by pass: `Without` is the loop that
the four cutting passes share, `At` what `processLinks` does at one position.
`InvertedIndex` is `addDocument` as a fold over the tokens, `suggestPrefix`, and
`IndexOf`, which says of a list of documents what their index is, without adding
anything to anything. `LinkGraph` has `saveLinkGraph`, `buildAdjacencyList` and
`loadAdjacencyListFromEdgeFile`, with the file as a text. `PageRank` is `compute` with
numerators over a common denominator in place of doubles.

`Ingestion` is the callback of `main` around them: `Parse` is one call of expat, with
the page stripped, tokenized and added when it is the end of a page that has a title and a
text; then the edge list is saved and the ranks are computed. Pages carry what a
reader makes of them (`words`, `links`, and `whole` if all markup is closed), put
together in `MCIngestion` with the markup, node by node, and never by the stripper. They
are `nested` if a link stands inside of another, as in the caption of a picture: the
stripper ends a link at the next `]]` and keeps what follows its last `|`, so of such a
page a reader sees more than is indexed (`ingestion_captions`), and the properties
are about the others, the `Readable`.

### QueryEngine, PriorityQueue, QueryEngineHeap

`search` from the scores on. The score map is an input, with its iteration order;
the heap is a set whose top is any document of the smallest score, since
`std::priority_queue` promises no more; `limit + offset` wraps around as
`size_t` does. One page is computed after the other, as "Load more" asks for
them, each with a new heap.

What holds of this holds of any library. The library the backend is built with always
makes the same choice for the same pushes, so not every behaviour of `QueryEngine` is one
of the program. `PriorityQueue` is that library's: `push_heap` and `pop_heap` of the GNU
library over an array. `QueryEngineHeap` is the search with it, and the disagreement about ties is
found there, so that its trace is one of the program. Its heap implements the set heap, which
is proved (`LibraryHeapImplements`) and not a run.

### RuntimeConfig, Benchmark

`RuntimeConfig` reads the environment and the options one by one, into the record of the
code. What of it decides the names of the three files is `ArtifactSuffix`, the pair that is
hashed; collisions of the 64-bit hash are left out. `Hint` is the command `main` prints
after indexing without ranks, and `CallAgain` gives it, or any other command, in the
same environment.

`Benchmark` goes on from there: the query file is read character by character (through
`QueryReader`), and the three loops of `runBenchmark` run over `LRUCache`.

### SuggestBox, SearchPage

`App.tsx` with one action per event handler up to its `await` and one per answer.
`calls` and `suggest_calls` hold the calls under way, and any of them may be answered or
fail next. `SuggestBox` is the box with its timer, its calls and its menu; `SearchPage`
composes it with the results: picking a suggestion edits and searches, and a search
hides the menu. History variables (`last`, `disturbed`, `overtaken`) say what was last
searched for, whether calls have overlapped and whether answers have overtaken each other,
for the properties only. `BoxTexts` is every text the box may come to hold: what is typed, and
what picking a suggestion makes of it, and so on; both assumptions speak of it.

## What is checked

Times are those of two workers on a small machine.

| Run | Instance | States | What it shows |
|---|---|---|---|
| `search_races` | 3 threads, 3 keys, capacity 2, 4 requests | 265 k | `LocksHeld`, `CacheIntact`, `CachedAnswersRight`, `AnswersAsAsked`, `EntriesPaidByMisses` |
| `search_api` | 2 threads, 9 query strings of every kind, capacity 1, 4 requests | 153 k | `TypeOK`, `ImplementsApi`, `EveryRequestAnswered` |
| `cache_policy` | 4 keys, 2 values, capacity 2 | 1.9 k | `TypeOK`, `HoldsTheLastUsed`, `ImplementsPolicy` |
| `artifacts` | dumps of 2 and 1 pages, 1 replacement, ranks at indexing; 2 crashes, 1 full disk, 1 file not opened, 1 bad dump, 1 recomputation, 1 clear; 2 garbled stores | 1.0 M | `TypeOK`, `StoresDense`, `ServedIndexIsSaved`, `ServedDocumentsKnown`, `LoadableMeansComplete`, `WholePairIsReused`, `ServesInTheEnd` |
| `benchmark` | 183 command lines of up to 2 options in 18 environments, called twice; query files of up to 6 of 6 characters, capacity 2 | 546 k | `FilesOfOneInput`, `Reported`, `WarmWhenItFits`, `SameWords`, `SearchedForItsWords` |
| `ingestion` | dumps of up to 3 pages of 7 kinds or of 3 vocabularies, and of articles with markup nested up to three deep, inside of links and in captions, or broken; limits 0, 1, 2; 3 rounds | 253 k | `TypeOK`, `PagesAsWritten`, `IndexDescribesPages`, `LosesOnlyBehind`, `SnippetsHaveWholeWords`, `SuggestionsStay`, `GraphSurvivesFile`, `RanksAddUp` |
| `query_engine` | 3 documents, 3 scores, limit up to 2, offset up to 5, 3 pages | 131 k | `TypeOK`, `KeepsTheBest`, `PagesOfRanking`, `ShownOnceWithoutTies` |
| `search_page` | 4 texts, queries of 3, 2 and 0 results, pages of 2, 3 calls for results and 2 for suggestions | 897 k | `TypeOK`, `LoadingMeansWaiting`, `MoreFollowsFullPage`, `PagesInSequence`, `MenuFitsBox` |

Why the bounds are enough:

- `search_races`: three threads are one more than a race between a lookup and a
  store needs, so a third can evict between them; four requests let a thread
  come back for an entry others have replaced; three keys are one more than the
  capacity, so a cache that is full evicts. Threads are symmetric: no step compares them.
- `search_api`: every refusal, alone and before a later one; a hit, a miss, an
  eviction and `/stats` among them. Two threads are enough for every pair of
  critical sections to meet.
- `artifacts`: two crashes tear two files, or one file twice; the dumps differ in size so
  that what is left of one shows in the other. The recomputation overlaps a boot, a save or a
  rebuild. One garbled store has lost its documents to zeros, the other has kept one
  and has an id from nowhere. `ServedDocumentsKnown` and `LoadableMeansComplete` speak of the
  time before the dump is replaced.
- `benchmark`: two options are one and a later one that overrides it or uses it up; six
  characters are two lines with two words each, or three keys for a cache of two. The
  alphabet has a blank, a comment sign, a capital, two letters that make stopwords and
  stems, and a byte beyond ASCII that counts as a letter.
- `ingestion`: three pages are a page before and after another; the kinds have a title in
  two pieces, none, and the same one twice, a text of none and of several pieces, a
  word twice in a page and in several, links forward, backward, piped, anchored, to a
  category and to nothing. Nesting is every kind of markup in every other, also
  inside of a link, and three deep around a link; each opening and each closing token stands
  alone once, before a link, before a template and inside of a link. Articles with links in
  captions are among them. Three rounds carry a rank along a path of three pages and around a
  loop of two; thirty would do the same to the same graph.
- `query_engine`: three documents with limit 1 or 2 give a heap that fills,
  overflows and ties; a `size_t` of at most 5 wraps for small offsets. The
  document count stays below `SizeMax - MaxLimit` (`EngineAssumption`), as 32-bit
  ids do below a 64-bit `size_t`.
- `search_page`: calls for results are a search and a "Load more", or two searches, in
  flight together; calls for suggestions are an answer that comes before an older one.
  Totals make a page that is full and not the last, one that is full and the last, and an
  empty one; the texts make a token that grows, one that has ended, and none.

Deadlock is checked in every run but `search_api`, where a handler that is stuck
violates `EveryRequestAnswered`, which says more. `Waiting`, `Serving` and `Done`
are the places where a program has nothing to do.

### Fairness

- `SearchService`, `WF_vars(Handler(t))` for each thread: the operating system runs
  every thread that can run. Weak fairness would not be enough for a mutex that
  others take for ever, for `std::mutex` promises no waiter its turn; a run of the
  model serves `MaxArrivals` requests, so the others stop. `EveryRequestAnswered`
  therefore says that no request is stuck, and not that none is overtaken.
- `ArtifactLifecycle`, `WF_vars(Server)` and `WF_vars(Tool)`: a running process makes
  progress, and `restart: unless-stopped` in `docker-compose.yml` starts the server
  again. Crashes, full disks and operators are not fair and are bounded by
  `Limits`; `ServesInTheEnd` says what happens when they stop. It has one exception, a
  store at its path on which the loader throws: then the server is started, and ends, again
  and again.

### Where the code disagrees with what is said of it

Each of these runs checks one sentence of the repository and ends with a
counterexample.

| Run | Sentence | What happens |
|---|---|---|
| `artifact_rebuild` | "Cache load failed. Rebuilding from dump..." (`main.cpp:897`) | The index loads, the store does not: the rebuild adds every page to the loaded index a second time, and saves that. |
| `ingestion_graph` | "PageRank can be computed during indexing or later" (`deployment.md:60`) | A link target with a line break is two lines of the file, and the first may be a title: the ranks are those of another graph. |
| `ingestion_captions` | "we also extract every internal link" (`plan.md:122`) | A link ends at the next `]]`: one in the caption of a picture is taken for part of the picture, and not recorded; if it has a text of its own, the words of the caption before it are lost. |
| `query_engine_ties` | "Apply pagination" (`query_engine.cpp:65`), "Supports load-more pagination" (`frontend/README.md:9`) | Which of several equal documents the heap gives up depends on the page: of four asked for one at a time, one is shown twice, another never. With two or three equal documents the pages are disjoint, it takes four. |

`GraphSurvivesFile`, `PagesAsWritten` and `ShownOnceWithoutTies` say under which conditions
the promises of the last three do hold: if no link is broken over two lines, for pages
without a link inside of another, and without ties.

Others are plain from the code, and no run is spent on them. A crash while a cache
file is saved leaves a file that exists and does not load, so the next restart
indexes again although nothing is missing (`deployment.md:319`). If the store is read while
a recomputation beside the server writes it, or has been written by both at once, a length may
be garbage, on which `value.resize(len)` throws (`document_store.cpp:30`): the server ends
instead of rebuilding (`main.cpp:897`), and with such a file at the path every boot does
(`ServesInTheEnd` has the exception). With more distinct
queries than the cache holds, the "Warm-cache" loop of the benchmark misses
(`WarmWhenItFits` has the condition). Of two searches under way the first to end
clears the loading flag of both (`App.tsx:190`). After an edit "Load more" appends a
page of the edited query (`App.tsx:211`; `PagesInSequence` has the condition), and "No
documents found matching" (`App.tsx:531`) names the text now in the box. An answer with
suggestions that comes after a search opens the menu over the results (`App.tsx:137`), and
one that comes after an edit shows suggestions for the text before it, until the next
answer (`MenuFitsBox` has the condition). Suggestions are stems: typing past the end of a
stem finds none, and a stem is not always its own stem (focused, focus, focu), so that a
search for a picked suggestion may find nothing. With `WIKILENS_MAX_DOCS` set and
`--max-docs 0` given, the command printed after indexing uses other files than those just
written (`main.cpp:981`; `LimitLifted`). `--compute-pagerank` on top of files that load computes
nothing, for it is not part of their names. A `{{` that is never closed drops the rest of
its article (`wikitext_stripper.cpp:152`). Only the first stream of a multistream bz2 dump
is read (`wiki_parser.cpp:118`).

## What is proved

`tlapm` checks these for every value of the constants that satisfies the named
assumptions.

| Module | Theorems |
|---|---|
| `LRUCacheProofs` | `PutKeepsWellFormed`: `put` keeps list and map in step and within the capacity, for any keys, values and capacity |
| `LRUCacheUseProofs` | `TypeCorrect`, `HoldsTheLast`: `[]` of `TypeOK`, `HoldsTheLastUsed`; `CacheImplementsPolicy`: the refinement `ImplementsPolicy` |
| `SearchServiceProofs` | `TypeCorrect`, `MutualExclusion`, `CacheStaysIntact`, `CachedAnswersStayRight`, `ClientsGetTheirAnswers`, `MissesPayForEntries`: `[]` of `TypeOK`, `LocksHeld`, `CacheIntact`, `CachedAnswersRight`, `AnswersAsAsked`, `EntriesPaidByMisses`; `ServiceImplementsApi`: the refinement `ImplementsApi` |
| `ArtifactLifecycleProofs` | `TypeCorrect`, `StoresStayDense`, `ServedIndexStaysSaved`, `ServedDocumentsStayKnown`, `LoadableStaysComplete`: `[]` of `TypeOK`, `StoresDense`, `ServedIndexIsSaved`, `ServedDocumentsKnown`, `LoadableMeansComplete`; `PairsAreReused`: the action property `WholePairIsReused` |
| `BenchmarkProofs` | `KeysHaveTheSameWords`, `LinesKeepTheirWords`: `[]SameWords`, for a reader alone and for the lines of a query file; `QueriesKeepTheirWords`, `EveryQueryIsTimed`, `WarmingMissesOnce`, `FilesMatchTheirInput`: `[]` of `SearchedForItsWords`, `Reported`, `WarmWhenItFits`, `FilesOfOneInput` |
| `IngestionProofs` | `TypesOfIndexing`: `[]` of `Ingestion`'s `TypeOK`; `ParserFollowsDump`, `PagesFollowDump`: the parser is where the dump says, and what the callback gets and keeps is the dump's, page by page; `CleanMakesTexts`, `PorterStemMakesWords`: stripper and stemmer make texts and words of any text and any word; `IndexFollowsDump`: the index is that of the tokens of the pages added; `PagesComeAsWritten`: `[]PagesAsWritten`, given that the stripper finds the links of readable pages; `SnippetsAlwaysHaveWholeWords`: `[]SnippetsHaveWholeWords`, given that stripper and tokenizer find the words of readable pages; `RanksFollowGraph`, `RanksAlwaysAddUp`: the ranks are those of the graph of the links kept, and `[]RanksAddUp`; `LinksStayKept`, `GraphAlwaysSurvivesFile`: the file is the text of the titles and links in memory, and `[]GraphSurvivesFile`; `SuggestionsKeepTheirPlace`: `[]SuggestionsStay` |
| `QueryEngineProofs` | `TypeCorrect`, `HeapKeepsTheBest`, `PagesAreRanked`, `ShownOnceIfNoTies`: `[]` of `TypeOK`, `KeepsTheBest`, `PagesOfRanking`, `ShownOnceWithoutTies`; `LibraryHeapImplements`: the search with the heap of the library (`QueryEngineHeap`) implements `QueryEngine` |
| `SearchPageProofs` | `TypeCorrect`, `NeverLoadsForNothing`, `MoreIsOfferedBelowFullPage`, `PagesFollowEachOther`, `MenuFits`: `[]` of `TypeOK`, `LoadingMeansWaiting`, `MoreFollowsFullPage`, `PagesInSequence`, `MenuFitsBox` |

*The cache.* One lemma per mutation: `RefreshPreserves`, `EvictPreserves`,
`InsertPreserves`, each from what moving, cutting and prepending do to the set of
keys of the list. None of the three alone needs the others, which is what lets the
service interleave them. That the list holds the entries used last, in that order, is
inductive by itself once it is said place by place (`InvParts`): an entry that is used
moves to the front of the list and of the history alike (`UsedAgain`, `UsedNew`). The policy
then maps to the first `Capacity` places of the history, and each `get` and `put` is one step
of it.

*The service*, in three layers. `Control` says where each thread may be and which
mutex it then holds; it is inductive alone, and mutual exclusion is part of it.
`Data` builds on it: the cache is whole, every entry is the engine's answer to its
key, every answer in a handler's hands is the answer to its own key, and a thread
about to insert finds room. The last part is why `Control` is needed: between the
eviction and the insertion of one `put` no other thread can fill the gap.
`EntriesPaidByMisses` is inductive given both: a counted miss adds a search under
way, and storing an answer ends one. That the client gets the answer to its own
text and not just to its key uses `SameWordsAssumption`. The refinement of `SearchApi`
(`ApiStep`) maps each action to one of a client's steps or to a stutter; what needs the
invariants is `/stats`, whose three numbers are read one after the other and must be those of
one instant (`SizesStayRead`), and `put`, whose three mutations must not show.

*The artifacts.* `Types` first, of files as well as of memory: a file that is whole holds what
its reader expects, whoever wrote it, for the garbled stores are stores. `Unspoiled` is what
`overlapped` is for: as long as it is false, the store is not mixed, no loader throws on it and
nobody reads what is changing; so what is read is what was there, and what is whole is what its
last writer has saved (`UnspoiledStore`). On these rest four inductive invariants. `InitialIds`: the
ids of every unspoiled store are an initial segment. `IndexSaved`: from the moment an index is
loaded, or saved with every file opened, it is the one in its file, if that loads.
`ServerWrites`: the server has files open for writing only where it says so, so a boot
that loads a pair leaves it alone. `OfOneDump`: as long as the dump has not been replaced,
everything loaded, saved or in memory is of that dump, complete once it has been parsed;
of stores again if they are unspoiled, except that the one a server has built is complete
whatever it has loaded before.

*The words of a key*, twice. `InStep` relates the two tokenizers of `QueryReader`: they are in
the same state, except that a blank the normalizer holds back has ended a word for the one
that reads the text and not yet for the one that reads the key. A lowered letter does the same
as the letter (`LowerCaseSameStep`), a word ends once (`FlushedTwice`), and so does every
run of blanks; at the end of a text both have the same words. For the queries of the benchmark
the same is needed of `NormalizeCacheQuery` and `Tokenize` as they are called, on a whole text
(`WordsOfKey`): by induction over the places of the text, with the same relation.

*The benchmark.* `Counted` has what the counters are at each place of each loop, and `Warm`
what the cache holds there: before the second loop nothing, in it the keys of the places
behind, and in the third all keys, if they fit. `Lookup` sums up what a lookup does to a cache
with room, from the lemmas of `LRUCacheProofs`.

*The command line.* `Input` says what has been read of it so far, `IndexRight` that what is on
disk was indexed by a call with some path and limit, under the suffix of these, and
`HintedFor` how far the printed command has been read: the switch, the dump, the limit, each
in its turn. Two suffixes are equal only for equal files and limits (`FilesApart`); when the
printed command has been read, path and limit are again those it was printed for.

*Indexing.* What lies ahead of the parser is, at every place of a page, a sequence of events
that the place determines (`FromPage`, `FromTitle`, ... to `FromPageEnd`): that the events of
a dump unfold into these is `PageUnfolds` and `EventsOfPages`, from nothing but the
associativity of concatenation. The invariant `Inv` says that the parser is at one of those
places, behind events that are ignored or behind some of the pieces of a title or a text, with
the flags and the gathered text that belong there, and that the pages added are those before
it that have both a title and a text. There is one lemma per place (`InTitleStep`,
`BeforePageEndStep`, ...); at the end of a page the title and the text gathered are the
page's, put together, however they were cut. The stripper is left as it is: documents and links
are those it makes of the whole text. Only `PagesComeAsWritten` needs to know which,
`LinksAreRead`, which TLC finds true of every dump of the run `ingestion`; it speaks of pages
without broken markup that have no link inside of another, and of the others it would be
false.

*The index.* `addDocument` makes it token by token, `IndexOf` says at once what it
is. What is between them is `ListOf`, the postings of a term in a list of documents, one for
each document that has the term, in the order of their numbers. One more token changes only the
list of its own term, at its last posting or by a new one (`ListMore`, `NewPostings`,
`TokenMore`); `DocumentMore` is an induction over the tokens of a document, and `IndexMore` adds
the lengths and their total (`LengthMore`). Of the stemmer it needs that it makes words of
words, `StemsMakeWords`, which `PorterStemMakesWords` proves of this one: all it ever writes are
the letters e and i. What is proved is therefore `IndexAsStripped`: the index is that of what stripper and tokenizer
make of the pages. That these are the words a reader sees is `IndexDescribesPages`, which is left
to TLC.

*The stripper.* Whatever is nested in whatever or broken, `clean` ends with texts
(`CleanMakesTexts`). Its loops go on at a place behind the one they are at, so they are defined
from the last place of a text backwards (`Backwards`), and what holds of a place if it holds of
all behind it holds of all (`Downward`). What the code owes is therefore that each way on leads
onwards and not beyond the end: the matching close of a template or a table, with any depth, is
not before its opening (`MatchingClose`), nor is the end of a comment or of a reference
(`CommentsEnd`, `ReferencesEnd`), and a link, whole or not, ends at a later place (`PieceAt`).
`CutOut` and `LinksProcessed` put the loops together. The last pass leaves single blanks and
none at an end (`Collapsed`): no two blanks are kept in a row, by induction over what is kept
(`SpacesKeptApart`).

*Snippets.* A snippet is cut from the text and not from the words. Tokenizing is one character
after the other (`TokenizingOneByOne`) and never takes back a word (`TokensStay`); a text that is
cut at a blank has therefore the first words of the whole (`CutBetweenWords`), and taking off the
blanks before the cut ends no word early (`BlanksTakenOff`). Where the cut is not at a blank
there was none to cut at, so none is taken off, and the snippet is as long as can be.

*The ranks.* By induction over the links of a page, the pages of a round and the rounds. One
addition raises the total by what is added, however many links lead to one page (`TotalAdded`);
the links of a page share out 17/20 of its rank without remainder (`SharesGiven`), which is what
`OutDegrees` is for; so a round in which every page has a link passes on all (`RoundPasses`), and
pages without links only lose what they do not pass on. `GraphHasShares` brings this
to the graph that `main` builds, of the links to titles that are known (`NeighborsOneByOne`).

*The file of links.* `ReadsOn` says of a piece of the file what reading it does: from a graph it
makes another, and stands again at the start of a line. A line without breaks in it is read as one
edge (`LineRead`, `EdgeRead`), if its source has no tab; what pieces do one after the other is what
they do put together, so there follow the lines of a page (`PageRead`) and the whole file
(`FileRead`), with a graph in which a page has the links written so far. The reader finds the ids of
titles in the store, in an order that nobody promises, which does not matter if no two pages have
one title (`TitlesLeadBack`). `LinksAreKept` is the invariant this needs besides `Inv`: every
title added leads to an id, and the file is the text of the titles and links in memory.

*Suggestions.* The terms that match what is typed are listed in an order (`LeadingIsOrder`), each
at the place its rank gives it (`ListedByRank`: ranks are numbered without gaps, for an injection
of a finite set into one of the same size is onto). Typing on leaves a subset of them
(`LongerMatchesLess`), and what stays has the place left by those before it that stay
(`PlaceLeft`), which is no later than it was, so the limit does not cut it off. The hypothesis
`TermsAreOrdered` is that `operator<` of strings is an order.

*The engine.* `KeepsTheBest` is inductive given the types: a push that overflows
gives up a document no better than any that stays, and none can have been given up
before the heap was full. `Sorted` carries it through the drain: the results are in
descending order, no document in the heap beats one of them, and heap and results
together are what `KeepsTheBest` says of the heap. When the heap is empty, the result at
place `k` therefore has rank `k`, counted in all matching documents, and the page is cut
out of these (`AllRanked`). Where `limit + offset` wraps around, the page is empty, and so
it should be: `EngineAssumption` puts the number of documents below such an offset. Without
ties a document has one rank only (`OneRank`), and the pages' ranges of ranks do not
overlap (`Apart`), so none is shown twice; with ties it may be, which is what
`query_engine_ties` finds of the library's heap.

*The library's heap.* That heap is an array, and it has to be shown that its first entry is a
smallest one and that it has, after `push` and `pop`, the documents it should. `RisenIsHeap` is
about an array with a free place that nothing hangs from, in order but for that place: with a
document that rises from there it is in order, and the document is the only one that has come in.
For `push` the free place is the one after the last. For `pop` it is at the top and sinks, which
keeps the rest in order (`MovedIsOrdered`). What is on the way from a place to the top is the least
set with that place and its parents, so that each place on it has a child on it and no place of it
is between a place and its parent (`AboveHasChild`, `AboveHasNoGap`). `ArrayIsHeap` is the
invariant, which maps each step of `QueryEngineHeap` to the one of `QueryEngine`
(`HeapStepImplements`): what is proved of every choice among ties holds of this one.

*The page.* `NextPage`: as long as calls have not overlapped, one at most is under way, for the
text last searched for, and if it appends, for the page after those shown; `Gapless`: those
are the first pages of one query. `MenuFollows`: as long as no answer has been overtaken, the
last call for suggestions is for the text in the box once the timer has run out, and the menu
has its answer once the call has ended. That the suggestions then continue the token they
would replace is a fact about two readings of one text, the backend's prefix and the page's
token, from the left and from the right: `PrefixIsActiveToken`, by induction over the text.

*Induction over data.* The library's induction theorems take an operator as a parameter, which
the provers cannot instantiate. `WFMin` and `NatLessThanWellFounded` do not: from them follows
that a set which has 0, and with every number the next, has all numbers (`Induction`, in the
modules that need it; `Smallest` for the heap), and that a function defined by recursion exists
(`Recursion`). A statement
about all places of a text is then one about a set of places.

Assumptions: `CapacityAssumption`, `ParamsAssumption`, `ServiceAssumption`,
`LifecycleAssumption` (constants have their types, the service's capacity is not 0, `Threads`
is finite, a dump has a page), `EngineAssumption`, `TextAssumption` (lowering a
letter twice is lowering it once, and a lowered character is a letter or a blank if and only if
the character is), `BoxAssumption` (a suggestion continues the prefix it is for, and `BoxTexts`
has what picking it leaves), `PageAssumption` (a text of the box is blank or a query when it
is trimmed), `BenchmarkAssumption` (there are built-in queries, and none of them is blank),
`ConfigAssumption` (words are strings, `--help` is neither a path nor a number),
`IngestionAssumption` (dumps are sequences of pages, expat delivers no empty piece of
text, limits are numbers, the mark of a cut snippet is neither a letter nor a blank),
`StripperAssumption` (a line break is white space),
`PageRankAssumption` (`OutDegrees` and `Rounds` are positive), and one that
is about code: `SameWordsAssumption`, that the engine finds the
same for a text and for its normalized form. `KeysHaveTheSameWords` discharges it as far as the
engine reads nothing of a query but its words (`query_engine.cpp:19`).

### What is only model-checked

Liveness (`EveryRequestAnswered`, `ServesInTheEnd`) and everything under fairness: the
proof system does not reason about `ENABLED`. Of `Ingestion`, `IndexDescribesPages` and
`LosesOnlyBehind`: what of a page a reader sees is in the articles of the run, and no
formula says it of every text. That the stripper makes texts of texts is proved, and that the
index is that of what it makes. Of the other properties of `Ingestion`, what the
dumps and the constants must be like: the theorems take this as hypotheses, each a formula
over the dumps and the constants alone, and TLC finds each true in the run `ingestion`:

| Hypothesis | What it says | Used for |
|---|---|---|
| `LinksAreRead` | of a page without broken markup and without links inside of links, the links found are those written | `PagesAsWritten` |
| `WordsAreRead` | of such a page, the words found are those written | `SnippetsHaveWholeWords` |
| `LinksHaveShares` | `OutDegrees` is a multiple of the numbers of links | `RanksAddUp` |
| `TitlesFitLines` | titles have no tab and no line break | `GraphSurvivesFile` |
| `TermsAreOrdered` | `operator<` of strings is an order | `SuggestionsStay` |

The one hypothesis about infinitely many words, `StemsMakeWords`, is proved of the stemmer of the
code (`PorterStemMakesWords`), which the run uses.

## What is not modelled

- BM25: floating-point arithmetic with logarithms; scores are inputs. The logarithmic
  scaling of ranks (`main.cpp:569-579`) and the rounding of doubles.
- URLs, the wording of messages, measured times, memory figures, layout.
- The file formats byte by byte: a file is whole or it is not, and what the bytes of two
  writers are read as is any store of a given set. The index is read and written by the
  server only.
- The libraries: Crow, bzip2, expat.
- A store that another dump's index is paired with: the model reaches it when a dump is
  replaced in place, and nothing in the repository promises otherwise
  (`PROJECT.json`, hazards).

## Plan

Done: every component but BM25 and the third-party libraries; the theorems above.

Next:

1. `Ingestion` on top of a loaded index: what the rebuild that `artifact_rebuild` reaches
   does to postings, `doc_freq` and totals.
2. Larger instances: dumps of four pages, a cache of three in the benchmark.

Theorems worth proving next: of the stripper, that it leaves alone what stands before the
first markup that is not closed, which is most of `LosesOnlyBehind`.
