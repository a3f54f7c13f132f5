----------------------------- MODULE LinkGraph -----------------------------
(***************************************************************************)
(* The graph of links between pages, which backend/src/main.cpp builds in  *)
(* two ways: from the links in memory while it indexes, and from the edge  *)
(* list it has saved to link_graph.txt when the ranks are computed later.  *)
(*                                                                         *)
(* The file is a text, of which only tabs and line breaks have a meaning.  *)
(* Adjacency lists are functions from document ids, which count from 0.    *)
(***************************************************************************)
EXTENDS WikitextStripper

Tab == "\t"

EdgeLine(source, target) == source \o <<Tab>> \o target \o <<NewLine>>

\* saveLinkGraph: the text of the file.
SaveLinkGraph(titles_by_id, raw_links) ==
  FlattenSeq([i \in DOMAIN raw_links |->
    FlattenSeq([j \in DOMAIN raw_links[i] |-> EdgeLine(titles_by_id[i], raw_links[i][j])])])

\* A link to a title that is known is an edge.
WithLink(title_to_id, neighbors, target) ==
  IF target \in DOMAIN title_to_id THEN Append(neighbors, title_to_id[target]) ELSE neighbors

Neighbors(title_to_id, links) ==
  Reading(LAMBDA neighbors, target : WithLink(title_to_id, neighbors, target), << >>, links)

BuildBackwardsOnly(title_to_id, raw_links, doc_count) ==               \* mutant
  LET earlier(id) == {title \in DOMAIN title_to_id : title_to_id[title] <= id}
  IN  [id \in 0..(doc_count - 1) |->
         Neighbors([title \in earlier(id) |-> title_to_id[title]], raw_links[id + 1])]

\* buildAdjacencyList, once all titles are known: links lead forward too.
BuildAdjacencyList(title_to_id, raw_links, doc_count) ==
  [id \in 0..(doc_count - 1) |-> Neighbors(title_to_id, raw_links[id + 1])]

\* title_to_id as loadAdjacencyListFromEdgeFile makes it from the store, in the
\* order in which the store's map gives the documents.
TitleIds(titles_of, ids) ==
  [title \in {titles_of[id] : id \in DOMAIN titles_of} |->
     ids[SelectLastInSeq(ids, LAMBDA id : titles_of[id] = title)]]

\* A line is an edge if it has a tab: what is before the first is the source,
\* all the rest the target.
Source(line) == SubSeq(line, 1, Find(line, <<Tab>>, 1) - 1)

Target(line) == SubSeq(line, Find(line, <<Tab>>, 1) + 1, Len(line))

IsEdge(title_to_id, line) ==
  /\ Find(line, <<Tab>>, 1) # NPos
  /\ {Source(line), Target(line)} \subseteq DOMAIN title_to_id

WithEdge(title_to_id, graph, line) ==
  IF IsEdge(title_to_id, line)
  THEN [graph EXCEPT ![title_to_id[Source(line)]] = Append(@, title_to_id[Target(line)])]
  ELSE graph

\* getline reads up to the end of a line, which then is or is not an edge.
ReadEdges(title_to_id, read, c) ==
  IF c = NewLine
  THEN [graph |-> WithEdge(title_to_id, read.graph, read.line), line |-> << >>]
  ELSE [read EXCEPT !.line = Append(@, c)]

\* loadAdjacencyListFromEdgeFile; the last line need not be ended.
LoadAdjacencyList(file, title_to_id, doc_count) ==
  LET nothing == [graph |-> [id \in 0..(doc_count - 1) |-> << >>], line |-> << >>]
      read    == Reading(LAMBDA r, c : ReadEdges(title_to_id, r, c), nothing, file)
  IN  WithEdge(title_to_id, read.graph, read.line)
=============================================================================
