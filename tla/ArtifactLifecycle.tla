------------------------- MODULE ArtifactLifecycle -------------------------
(***************************************************************************)
(* The life of the three artifacts of backend/data/cache (the inverted     *)
(* index, the document store and the link graph), as the programs that     *)
(* share the directory read and write them:                                *)
(*                                                                         *)
(*  - the server, which loads index and store at boot or else builds them  *)
(*    from the dump and saves all three (main), and is started again by    *)
(*    the container runtime whenever it dies;                              *)
(*  - wikilens --recompute-pagerank, run beside it, which loads store and  *)
(*    link graph and saves the store (recomputePageRankFromArtifacts);     *)
(*  - the operator, who clears the directory or replaces the dump.         *)
(*                                                                         *)
(* A file is written in place: opening it empties it, and only the last    *)
(* byte makes it loadable.  Programs die at any point; a full disk cuts a  *)
(* file short without the program noticing; a file that cannot be opened   *)
(* is skipped.  Nothing keeps two programs from having the store open at   *)
(* once: both write it, each at its own offset, or one reads what the      *)
(* other writes.  What is found in such a file is arbitrary: nothing that  *)
(* loads, a length that no string can have (on which the loader throws),   *)
(* or a store with documents missing.                                      *)
(*                                                                         *)
(* Contents are abstract.  A dump d has the pages 0..Pages[d]-1.  An index *)
(* is the sequence of dumps whose pages were added to it; a store maps a   *)
(* document id to the dump its page came from and the kind of its rank.    *)
(***************************************************************************)
EXTENDS Naturals, Sequences, FiniteSets

CONSTANTS
  Dumps,             \* the dumps that may lie at the dump path
  NoDump,            \* where a record of zeros comes from
  Pages,             \* the pages of each that are indexed
  ComputePageRank,   \* --compute-pagerank
  Garbled,           \* the stores that two programs' bytes may be read as
  Limits             \* bounds: how often each kind of Event happens in a run

Events == {"crash", "disk_full", "no_open", "bad_dump", "recompute", "clear", "replace"}

Docs == [dump : Dumps \cup {NoDump}, rank : {"none", "partial", "full"}]

IsStore(s) == DOMAIN s \subseteq Nat /\ \A id \in DOMAIN s : s[id] \in Docs

ASSUME LifecycleAssumption ==
  /\ Dumps # {}
  /\ Pages \in [Dumps -> Nat \ {0}]
  /\ ComputePageRank \in BOOLEAN
  /\ \A s \in Garbled : IsStore(s)
  /\ Limits \in [Events -> Nat]

VARIABLES
  server,            \* where main stands, "down" when not running
  index, store,      \* its memory
  loaded_from_cache,
  tool,              \* where the recomputation stands, "off" when not running
  tool_store,        \* its memory
  disk,              \* the files
  view,              \* what each program finds in the store it is reading
  overlapped,        \* the store was opened for writing while another had it open
  dump,              \* the dump at the dump path
  left               \* events that may still happen

vars == <<server, index, store, loaded_from_cache, tool, tool_store, disk, view, overlapped,
          dump, left>>

Files == {"index", "store", "links"}

Programs == {"server", "tool"}

\* What is in a file: nothing (there is none), something that does not load, data
\* that loads, or bytes on which the loader throws (value.resize(len) of readString).
Content(state, data) == [state |-> state, data |-> data]

Absent == Content("absent", << >>)

Torn == Content("torn", << >>)

Poison == Content("poison", << >>)

\* What a program finds that reads a file while it is emptied or written by two.
Changing == Content("changing", << >>)

Has(f) == disk[f].content

Exists(f) == Has(f).state # "absent"

Whole(f) == Has(f).state = "whole"

Poisoned(f) == Has(f).state = "poison"

\* A file at its path: its content, who has it open, and whether two write it at
\* once.
NoFile == [content |-> Absent, writers |-> {}, readers |-> {}, mixed |-> FALSE]

Happens(event) ==
  /\ left[event] > 0
  /\ left' = [left EXCEPT ![event] = @ - 1]

NoStore == [id \in {} |-> 0]

IdsFromOne(d) == 1..Pages[d]                                          \* mutant

Ids(d) == 0..(Pages[d] - 1)

Init ==
  /\ server = "down" /\ index = << >> /\ store = NoStore
  /\ loaded_from_cache = FALSE
  /\ tool = "off" /\ tool_store = NoStore
  /\ disk = [f \in Files |-> NoFile]
  /\ view = [p \in Programs |-> Absent] /\ overlapped = FALSE
  /\ dump \in Dumps
  /\ left = Limits

-----------------------------------------------------------------------------
(* Writing a file in place.                                                *)

\* std::ofstream out(path, std::ios::trunc).  Who is reading the store has read all
\* of it, or reads on in what is written from now on.
OpenFile(w, f) ==
  /\ disk' = [disk EXCEPT ![f] =
       [content |-> Torn, writers |-> @.writers \cup {w}, readers |-> @.readers,
        mixed |-> @.writers \ {w} # {}]]
  /\ \E hit \in SUBSET disk[f].readers :
       view' = [p \in Programs |-> IF p \in hit THEN Changing ELSE view[p]]
  /\ overlapped' = (overlapped \/ (disk[f].writers \ {w}) \cup disk[f].readers # {})

\* Each stream keeps its offset: a file that is emptied by one program while the
\* other writes has the beginning of one, the end of the other, and zeros or the
\* older bytes between.
Mixtures == {Torn, Poison} \cup {Content("whole", s) : s \in Garbled}

\* What may be in a file once program w has let go of it, which alone would have
\* left it with content c.  A file removed meanwhile is no longer at the path.
Ends(w, f, c) ==
  IF disk[f].writers # {w} THEN {Has(f)}
  ELSE {c} \cup (IF disk[f].mixed THEN Mixtures ELSE {})

Released(w, f, c) ==
  [content |-> c, writers |-> disk[f].writers \ {w}, readers |-> disk[f].readers \ {w},
   mixed |-> disk[f].mixed /\ disk[f].writers # {w}]

LeaveFile(w, f, alone) ==
  /\ \E c \in Ends(w, f, alone) : disk' = [disk EXCEPT ![f] = Released(w, f, c)]
  /\ UNCHANGED <<view, overlapped>>

\* saveToFile writes all of its data; or the disk is full, and the buffered tail is
\* lost when the stream is destroyed, after saveToFile has looked at its state.
SaveFile(w, f, data) ==
  \/ LeaveFile(w, f, Content("whole", data)) /\ UNCHANGED left
  \/ LeaveFile(w, f, Torn) /\ Happens("disk_full")

\* A process dies: the files it was writing stay as they are, torn or mixed.
Abandon(w) ==
  /\ \E c \in Ends(w, "store", Torn) :
       disk' = [f \in Files |-> Released(w, f, IF f = "store" THEN c ELSE Has(f))]
  /\ view' = [view EXCEPT ![w] = Absent]
  /\ UNCHANGED overlapped

-----------------------------------------------------------------------------
(* Reading the store, record by record (DocumentStore::loadFromFile).      *)

\* A file that one program is writing is read to where it ends, and does not load;
\* what two are writing may be found as anything.
StartReading(p) ==
  /\ view' = [view EXCEPT ![p] = IF disk["store"].mixed THEN Changing ELSE Has("store")]
  /\ disk' = [disk EXCEPT !["store"].readers = IF Exists("store") THEN @ \cup {p} ELSE @]
  /\ UNCHANGED overlapped

StopReading(p) ==
  /\ view' = [view EXCEPT ![p] = Absent]
  /\ disk' = [disk EXCEPT !["store"].readers = @ \ {p}]
  /\ UNCHANGED overlapped

Loaded(s) == [ok |-> TRUE, store |-> s]

NotLoaded == [ok |-> FALSE, store |-> NoStore]

\* What loadFromFile may return, with what is then in a store that was empty; and
\* whether it may throw.
Results(p) ==
  CASE view[p].state = "whole"    -> {Loaded(view[p].data)}
    [] view[p].state = "poison"   -> {}
    [] view[p].state = "changing" -> {NotLoaded} \cup {Loaded(s) : s \in Garbled}
         \cup (IF Whole("store") THEN {Loaded(Has("store").data)} ELSE {})
    [] OTHER                      -> {NotLoaded}

Throws(p) == view[p].state \in {"poison", "changing"}

-----------------------------------------------------------------------------
(* The server.                                                             *)

ServerGoes(from, to) == server = from /\ server' = to

ToolIdle == UNCHANGED <<tool, tool_store, dump>>

FilesIdle == UNCHANGED <<disk, view, overlapped>>

\* main returns or is killed, and its memory is gone.
ServerEnds ==
  /\ server' = "down"
  /\ index' = << >> /\ store' = NoStore /\ loaded_from_cache' = FALSE

Boot ==
  /\ ServerGoes("down", "probe")
  /\ ToolIdle /\ FilesIdle /\ UNCHANGED <<index, store, loaded_from_cache, left>>

ProbeLinksToo ==                                                      \* mutant
  /\ ServerGoes("probe", IF \A f \in Files : Exists(f) THEN "load_index" ELSE "ingest")
  /\ ToolIdle /\ FilesIdle /\ UNCHANGED <<index, store, loaded_from_cache, left>>

Probe ==
  /\ ServerGoes("probe",
                IF Exists("index") /\ Exists("store") THEN "load_index" ELSE "ingest")
  /\ ToolIdle /\ FilesIdle /\ UNCHANGED <<index, store, loaded_from_cache, left>>

\* loadFromFile replaces the contents only when the whole file could be read.
LoadIndex ==
  /\ ServerGoes("load_index", "load_store")
  /\ index' = IF Whole("index") THEN Has("index").data ELSE index
  /\ ToolIdle /\ FilesIdle /\ UNCHANGED <<store, loaded_from_cache, left>>

\* The store is loaded whether or not the index was.
OpenStoreCache ==
  /\ ServerGoes("load_store", "read_store")
  /\ StartReading("server")
  /\ ToolIdle /\ UNCHANGED <<index, store, loaded_from_cache, left>>

\* index_ok && store_ok: a saved index is never << >>, so that value stands for
\* index_ok = false.
IndexLoaded(store_ok) == index # << >>                                \* mutant

CacheLoaded(store_ok) == index # << >> /\ store_ok

GiveUp == "down"                                                      \* mutant

Rebuild == "ingest"

LoadStore ==
  /\ \E result \in Results("server") :
       /\ ServerGoes("read_store", IF CacheLoaded(result.ok) THEN "ready" ELSE Rebuild)
       /\ store' = result.store
       /\ loaded_from_cache' = CacheLoaded(result.ok)
  /\ StopReading("server")
  /\ ToolIdle /\ UNCHANGED <<index, left>>

\* Nothing catches what the loader throws: main ends with it.
LoadThrows ==
  /\ server = "read_store" /\ Throws("server")
  /\ ServerEnds
  /\ StopReading("server")
  /\ ToolIdle /\ UNCHANGED left

\* store.addDocument for every page: an id that is there already is overwritten,
\* with no rank.
WithPages(s, d) ==
  [id \in DOMAIN s \cup Ids(d) |-> IF id \in Ids(d) THEN [dump |-> d, rank |-> "none"]
                                   ELSE s[id]]

\* The parse callback adds every page to the index and the store in memory.
Ingest ==
  /\ ServerGoes("ingest", "open_links")
  /\ index' = Append(index, dump)
  /\ store' = WithPages(store, dump)
  /\ ToolIdle /\ FilesIdle /\ UNCHANGED <<loaded_from_cache, left>>

IngestFailsUnseen ==                                                  \* mutant
  /\ Happens("bad_dump")
  /\ ServerGoes("ingest", "open_links")
  /\ ToolIdle /\ FilesIdle /\ UNCHANGED <<index, store, loaded_from_cache>>

\* parse fails, main returns 1.
IngestFails ==
  /\ Happens("bad_dump")
  /\ server = "ingest" /\ ServerEnds
  /\ ToolIdle /\ FilesIdle

Ingested == index[Len(index)]     \* the dump this process has parsed

\* applyPageRankScores sets the rank of every id the graph has.
WithRanks(s, ids, kind) ==
  [id \in DOMAIN s |-> IF id \in ids THEN [s[id] EXCEPT !.rank = kind] ELSE s[id]]

OpenToSave(f) ==
  /\ OpenFile("server", f)
  /\ ToolIdle /\ UNCHANGED <<index, store, loaded_from_cache, left>>

OpenLinks == ServerGoes("open_links", "save_links") /\ OpenToSave("links")

OpenIndex == ServerGoes("open_index", "save_index") /\ OpenToSave("index")

OpenStore == ServerGoes("open_store", "save_store") /\ OpenToSave("store")

\* if (!out) return false: main warns and goes on, and what was at the path stays.
OpenFails ==
  /\ Happens("no_open")
  /\ \/ ServerGoes("open_links", "rank")
     \/ ServerGoes("open_index", "open_store")
     \/ ServerGoes("open_store", "ready")
  /\ ToolIdle /\ FilesIdle /\ UNCHANGED <<index, store, loaded_from_cache>>

SaveLinks ==
  /\ ServerGoes("save_links", "rank")
  /\ SaveFile("server", "links", <<Ingested>>)
  /\ ToolIdle /\ UNCHANGED <<index, store, loaded_from_cache>>

\* buildAdjacencyList and applyPageRankScores, if asked for.
Rank ==
  /\ ServerGoes("rank", "open_index")
  /\ store' = IF ComputePageRank THEN WithRanks(store, Ids(Ingested), "full") ELSE store
  /\ ToolIdle /\ FilesIdle /\ UNCHANGED <<index, loaded_from_cache, left>>

SaveNewPages ==                                                       \* mutant
  /\ ServerGoes("save_index", "open_store")
  /\ SaveFile("server", "index", <<Ingested>>)
  /\ ToolIdle /\ UNCHANGED <<index, store, loaded_from_cache>>

SaveIndex ==
  /\ ServerGoes("save_index", "open_store")
  /\ SaveFile("server", "index", index)
  /\ ToolIdle /\ UNCHANGED <<index, store, loaded_from_cache>>

SaveStore ==
  /\ ServerGoes("save_store", "ready")
  /\ SaveFile("server", "store", store)
  /\ ToolIdle /\ UNCHANGED <<index, store, loaded_from_cache>>

\* Killed, out of memory, or restarted by the operator.
ServerDies ==
  /\ server # "down"
  /\ Happens("crash")
  /\ ServerEnds
  /\ Abandon("server")
  /\ ToolIdle

-----------------------------------------------------------------------------
(* wikilens --recompute-pagerank.                                          *)

ToolGoes(from, to) == tool = from /\ tool' = to

ServerIdle == UNCHANGED <<server, index, store, loaded_from_cache, dump>>

ToolEnds == tool' = "off" /\ tool_store' = NoStore

ToolStarts ==
  /\ Happens("recompute")
  /\ ToolGoes("off", "load_store")
  /\ ServerIdle /\ FilesIdle /\ UNCHANGED tool_store

ToolOpensCache ==
  /\ ToolGoes("load_store", "read_store")
  /\ StartReading("tool")
  /\ ServerIdle /\ UNCHANGED <<tool_store, left>>

ToolIgnoresBadStore ==                                                \* mutant
  /\ \E result \in Results("tool") :
       ToolGoes("read_store", "load_links") /\ tool_store' = result.store
  /\ StopReading("tool")
  /\ ServerIdle /\ UNCHANGED left

ToolLoadsStore ==
  /\ \E result \in Results("tool") :
       /\ ToolGoes("read_store", IF result.ok THEN "load_links" ELSE "off")
       /\ tool_store' = result.store
  /\ StopReading("tool")
  /\ ServerIdle /\ UNCHANGED left

ToolLoadThrows ==
  /\ tool = "read_store" /\ Throws("tool")
  /\ ToolEnds
  /\ StopReading("tool")
  /\ ServerIdle /\ UNCHANGED left

\* A store holds the ids 0 .. totalDocs()-1 and no others.
Dense(s) == DOMAIN s = 0..(Cardinality(DOMAIN s) - 1)

\* The edge list is text: any part of it loads.  An edge counts only if the store
\* knows both of its titles.  There are as many scores as documents, and score i
\* goes to document i if there is one.
ToolRanks ==
  /\ ToolGoes("load_links", IF Exists("links") THEN "open_store" ELSE "off")
  /\ LET all == /\ Whole("links")
                /\ \A id \in DOMAIN tool_store : Has("links").data = <<tool_store[id].dump>>
         scored == 0..(Cardinality(DOMAIN tool_store) - 1)
     IN  tool_store' = IF Exists("links")
                       THEN WithRanks(tool_store, scored, IF all THEN "full" ELSE "partial")
                       ELSE NoStore
  /\ ServerIdle /\ FilesIdle /\ UNCHANGED left

\* adjacency_list[id] for an id that is too large is out of bounds: the process dies
\* of it, or goes on (ToolRanks).
ToolOutOfBounds ==
  /\ tool = "load_links" /\ Exists("links") /\ ~Dense(tool_store)
  /\ ToolEnds
  /\ ServerIdle /\ FilesIdle /\ UNCHANGED left

ToolOpensStore ==
  /\ ToolGoes("open_store", "save_store")
  /\ OpenFile("tool", "store")
  /\ ServerIdle /\ UNCHANGED <<tool_store, left>>

ToolOpenFails ==
  /\ Happens("no_open")
  /\ tool = "open_store" /\ ToolEnds
  /\ ServerIdle /\ FilesIdle

ToolSavesStore ==
  /\ tool = "save_store" /\ ToolEnds
  /\ SaveFile("tool", "store", tool_store)
  /\ ServerIdle

ToolDies ==
  /\ tool # "off"
  /\ Happens("crash")
  /\ ToolEnds
  /\ Abandon("tool")
  /\ ServerIdle

-----------------------------------------------------------------------------
(* The operator.                                                           *)

\* rm -f /srv/wikilens/cache/*: a program that has a file open keeps it, but it is no
\* longer at the path.
Clear ==
  /\ Happens("clear")
  /\ disk' = [f \in Files |-> NoFile]
  /\ UNCHANGED <<server, index, store, loaded_from_cache, tool, tool_store, view,
                 overlapped, dump>>

ReplaceDump ==
  /\ Happens("replace")
  /\ dump' \in Dumps \ {dump}
  /\ FilesIdle
  /\ UNCHANGED <<server, index, store, loaded_from_cache, tool, tool_store>>

-----------------------------------------------------------------------------
Server ==
  \/ Boot \/ Probe \/ LoadIndex \/ OpenStoreCache \/ LoadStore \/ LoadThrows \/ Ingest
  \/ OpenLinks \/ SaveLinks \/ Rank \/ OpenIndex \/ SaveIndex \/ OpenStore \/ SaveStore

Tool ==
  \/ ToolOpensCache \/ ToolLoadsStore \/ ToolLoadThrows
  \/ ToolRanks \/ ToolOutOfBounds \/ ToolOpensStore \/ ToolSavesStore

\* Requests are served from memory; nothing happens to the artifacts.
Serving == server = "ready" /\ tool = "off" /\ UNCHANGED vars

Next ==
  \/ Server \/ OpenFails \/ IngestFails \/ ServerDies \/ Serving
  \/ Tool \/ ToolStarts \/ ToolOpenFails \/ ToolDies
  \/ Clear \/ ReplaceDump

Spec == Init /\ [][Next]_vars

\* A process that runs makes progress, and the container runtime starts the
\* server again (docker-compose.yml, restart: unless-stopped).
FairSpec == Spec /\ WF_vars(Server) /\ WF_vars(Tool)

-----------------------------------------------------------------------------
ServerLabels == {"down", "probe", "load_index", "load_store", "read_store", "ingest",
                 "open_links", "save_links", "rank", "open_index", "save_index",
                 "open_store", "save_store", "ready"}

ToolLabels == {"off", "load_store", "read_store", "load_links", "open_store", "save_store"}

IsIndex(ix) == ix \in Seq(Dumps) /\ ix # << >>

HasItsType(f) ==
  Whole(f) => CASE f = "index" -> IsIndex(Has(f).data)
                [] f = "store" -> IsStore(Has(f).data)
                [] f = "links" -> \E d \in Dumps : Has(f).data = <<d>>

\* The type of the state.  Past the parse the server has an index in memory,
\* and a whole index file is never an empty one.
TypeOK ==
  /\ server \in ServerLabels /\ tool \in ToolLabels
  /\ index \in Seq(Dumps)
  /\ server \notin {"down", "probe", "load_index", "load_store", "read_store", "ingest"}
       => index # << >>
  /\ IsStore(store) /\ IsStore(tool_store)
  /\ loaded_from_cache \in BOOLEAN
  /\ dump \in Dumps
  /\ left \in [Events -> Nat]
  /\ overlapped \in BOOLEAN
  /\ DOMAIN disk = Files /\ DOMAIN view = Programs
  /\ \A f \in Files :
       /\ Has(f).state \in {"absent", "torn", "poison", "whole"} /\ HasItsType(f)
       /\ disk[f].writers \subseteq Programs /\ disk[f].readers \subseteq Programs
       /\ disk[f].mixed \in BOOLEAN
  /\ \A p \in Programs :
       /\ view[p].state \in {"absent", "torn", "poison", "whole", "changing"}
       /\ view[p].state = "whole" => IsStore(view[p].data)

\* As long as no program opened the store for writing while another had it open, no
\* store has a gap, in memory or in its file: the recomputation, which sizes the
\* adjacency list by totalDocs() and indexes it by id (loadAdjacencyListFromEdgeFile),
\* stays within its bounds.
StoresDense ==
  ~overlapped =>
    /\ Dense(store) /\ Dense(tool_store)
    /\ Whole("store") => Dense(Has("store").data)

IndexIds(ix) == UNION {Ids(ix[i]) : i \in DOMAIN ix}

\* So far the dump has not been replaced.
OneDumpOnly == left["replace"] = Limits["replace"]

\* Every document a query can find is in the store the server answers from, so
\* no result is left out of a response (buildSearchResponse, "if (!doc)").  Of
\* one dump, through crashes, full disks and recomputations; also if two programs
\* have spoiled the store file, once the server has built its store itself.
ServedDocumentsKnown ==
  OneDumpOnly /\ server = "ready" /\ (overlapped => ~loaded_from_cache)
    => IndexIds(index) \subseteq DOMAIN store

\* Whatever was interrupted, an index that loads is complete; and so is a store, if no
\* program opened it for writing while another had it open, and then no loader throws
\* on it.  Of one dump.
LoadableMeansComplete ==
  OneDumpOnly =>
    /\ Whole("index") => IndexIds(Has("index").data) = Ids(dump)
    /\ ~overlapped => /\ Whole("store") => DOMAIN Has("store").data = Ids(dump)
                      /\ ~Poisoned("store")

\* When crashes and full disks stop, the server comes to serve requests and stays,
\* whatever state the artifacts are in; unless what two programs left in the store is
\* such that the loader throws on it, and it stays at the path.
ServesInTheEnd == <>[](server = "ready") \/ <>[]Poisoned("store")

\* Every file could be opened for writing so far.
EveryOpenWorked == left["no_open"] = Limits["no_open"]

\* The index on the disk, if it loads, is the one being served: the next boot
\* answers the same queries.  If every file could be opened.
ServedIndexIsSaved ==
  EveryOpenWorked /\ server = "ready" /\ Whole("index") => Has("index").data = index

PairWhole == Whole("index") /\ Whole("store")

\* The server has not come to read the store, or what it reads is what is there.
ReadsWhatIsThere ==
  \/ server \in {"probe", "load_index", "load_store", "ready"}
  \/ server = "read_store" /\ view["server"] = Has("store")

\* A boot that finds a pair of files that load uses them: it does not parse the
\* dump again, and the files stay as they are, also if it is interrupted.
WholePairIsReused ==
  [][ReadsWhatIsThere /\ PairWhole /\ (Server \/ ServerDies)
     => PairWhole' /\ server' # "ingest"]_vars

-----------------------------------------------------------------------------
\* main.cpp:897, "Rebuilding from dump...": what is served after a rebuild is
\* the dump, each page once, not the dump on top of what was loaded before.
RebuildStartsAfresh == server = "ready" => Len(index) = 1
=============================================================================
