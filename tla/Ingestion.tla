----------------------------- MODULE Ingestion -----------------------------
(***************************************************************************)
(* Indexing a dump (main in backend/src/main.cpp, from the parse to the    *)
(* ranks): the parser's callback strips each page, gives it the next id    *)
(* and adds it to the index, the store and the raw links.                  *)
(*                                                                         *)
(* Each page of a dump comes with what a reader makes of it: its words,    *)
(* as terms, and the titles it links to.  If its markup is broken, the     *)
(* reader stops before the first broken piece, and it is not whole.  It is *)
(* nested if a link stands inside of another, as in the caption of a       *)
(* picture: the stripper takes such a link to end where the inner one ends *)
(* (processLinks), and what a reader has of it is not what it makes.       *)
(***************************************************************************)
EXTENDS WikiParser, InvertedIndex, LinkGraph, PageRank

CONSTANTS
  Limits,         \* the values of --max-docs in a run, 0 for none
  MaxSnippet,     \* max_chars of snippetFrom
  Ellipsis,       \* the character it ends a snippet with
  SuggestLimits   \* the values of limit in calls to /suggest

\* Expat delivers no empty pieces of text.
Pieces == Seq(Seq(Chars) \ {<< >>})

Pages == [title : Pieces, text : Pieces, words : Seq(Seq(Chars)), links : Seq(Seq(Chars)),
          whole : BOOLEAN, nested : BOOLEAN]

ASSUME IngestionAssumption ==
  /\ Dumps \subseteq Seq(Pages) /\ Blank \in Seq(Chars)
  /\ Limits \subseteq Nat /\ SuggestLimits \subseteq Nat
  /\ MaxSnippet \in Nat /\ Ellipsis \notin CharAlnum \cup {" "}

VARIABLES
  max_docs,
  status,         \* "parsing", "failed", "parsed", "saved" or "done"
  doc_id,
  index,
  store,          \* a function from ids to documents
  title_to_id, titles_by_id, raw_links,
  link_graph      \* the text of link_graph.txt

vars == <<parser_vars, max_docs, status, doc_id, index, store,
          title_to_id, titles_by_id, raw_links, link_graph>>

NoMap == [x \in {} |-> 0]

Init ==
  /\ ParserInit
  /\ max_docs \in Limits
  /\ status = "parsing" /\ doc_id = 0
  /\ index = EmptyIndex /\ store = NoMap
  /\ title_to_id = NoMap /\ titles_by_id = << >> /\ raw_links = << >>
  /\ link_graph = << >>

With(map, x, y) == [z \in DOMAIN map \cup {x} |-> IF z = x THEN y ELSE map[z]]

SnippetCutAnywhere(cleaned) ==                                        \* mutant
  IF Len(cleaned) <= MaxSnippet THEN cleaned
  ELSE Append(SubSeq(cleaned, 1, MaxSnippet), Ellipsis)

WithoutLastBlanks(out) == SubSeq(out, 1, SelectLastInSeq(out, LAMBDA c : c # " "))

\* The text up to the last blank that leaves it short enough, if it has one.
SnippetFrom(cleaned) ==
  LET space == SelectLastInSubSeq(cleaned, 1, MaxSnippet + 1, LAMBDA c : c = " ")
      cut   == IF space = 0 THEN MaxSnippet ELSE space - 1
  IN  IF Len(cleaned) <= MaxSnippet THEN cleaned
      ELSE Append(WithoutLastBlanks(SubSeq(cleaned, 1, cut)), Ellipsis)

\* The callback.
AddPage ==
  LET result == Clean(text)
  IN  /\ index' = AddDocument(index, doc_id, Tokenize(result.cleaned_text))
      /\ store' = With(store, doc_id, [title |-> title, pagerank |-> 0,
                                       snippet |-> SnippetFrom(result.cleaned_text)])
      /\ title_to_id' = With(title_to_id, title, doc_id)
      /\ titles_by_id' = Append(titles_by_id, title)
      /\ raw_links' = Append(raw_links, result.internal_links)
      /\ doc_id' = doc_id + 1

BelowLimitBefore == max_docs = 0 \/ doc_id < max_docs                 \* mutant

\* What the callback answers: whether to go on.
BelowLimit == max_docs = 0 \/ doc_id + 1 < max_docs

NoPage == UNCHANGED <<doc_id, index, store, title_to_id, titles_by_id, raw_links>>

Parse ==
  /\ status = "parsing"
  /\ \/ StartElement /\ NoPage
     \/ CharData /\ NoPage
     \/ EndElement(BelowLimit) /\ IF PageIsComplete THEN AddPage ELSE NoPage
  /\ UNCHANGED <<max_docs, status, link_graph>>

\* The dump is cut off or is no XML: main returns.
ParseFails ==
  /\ status = "parsing" /\ ~Finished
  /\ status' = "failed"
  /\ UNCHANGED <<parser_vars, max_docs, link_graph>> /\ NoPage

ParseEnds ==
  /\ status = "parsing" /\ Finished
  /\ status' = "parsed"
  /\ UNCHANGED <<parser_vars, max_docs, link_graph>> /\ NoPage

SaveGraph ==
  /\ status = "parsed"
  /\ status' = "saved"
  /\ link_graph' = SaveLinkGraph(titles_by_id, raw_links)
  /\ UNCHANGED <<parser_vars, max_docs>> /\ NoPage

GraphIndexed == BuildAdjacencyList(title_to_id, raw_links, Len(titles_by_id))

\* applyPageRankScores: the ranks themselves, which it scales for the store.
RankPages ==
  /\ status = "saved"
  /\ status' = "done"
  /\ LET rank == Compute(GraphIndexed)
     IN  store' = [id \in DOMAIN store |-> [store[id] EXCEPT !.pagerank = rank[id]]]
  /\ UNCHANGED <<parser_vars, max_docs, doc_id, index, title_to_id, titles_by_id,
                 raw_links, link_graph>>

\* The end, also without --compute-pagerank.
Done == status \in {"failed", "saved", "done"} /\ UNCHANGED vars

Next == Parse \/ ParseFails \/ ParseEnds \/ SaveGraph \/ RankPages \/ Done

Spec == Init /\ [][Next]_vars

-----------------------------------------------------------------------------
\* The types.  Ids are dense and each has a title, a list of links and a document;
\* a title leads to a document of that title; --max-docs is not exceeded.
TypeOK ==
  /\ at \in 1..(Len(events) + 1)
  /\ {in_page, in_revision, stop_requested} \subseteq BOOLEAN
  /\ status \in {"parsing", "failed", "parsed", "saved", "done"}
  /\ max_docs \in Limits /\ doc_id \in Nat /\ (max_docs = 0 \/ doc_id <= max_docs)
  /\ DOMAIN store = 0..(doc_id - 1)
  /\ Len(titles_by_id) = doc_id /\ Len(raw_links) = doc_id
  /\ \A t \in DOMAIN title_to_id :
       title_to_id[t] \in DOMAIN store /\ store[title_to_id[t]].title = t

\* The pages of the dump that are indexed, with no handler in sight.
Indexable ==
  LET first[n \in 0..Len(dump)] ==
        IF n = 0 THEN << >>
        ELSE IF dump[n].title # << >> /\ dump[n].text # << >> THEN Append(first[n - 1], dump[n])
        ELSE first[n - 1]
  IN  first[Len(dump)]

\* The pages whose markup the stripper is made for.
Readable(page) == page.whole /\ ~page.nested

Expected == IF max_docs = 0 \/ Len(Indexable) < max_docs THEN Len(Indexable) ELSE max_docs

\* However expat cuts the text, and whatever stands between the elements, the
\* pages added so far are the first of the dump that have a title and a text, each
\* with its own title; at the end they are all of them, or --max-docs.  Each has its
\* own links, if its markup is closed and no link of it stands inside of another (of
\* a page that is nested it is false: EveryLinkRecorded).
PagesAsWritten ==
  /\ doc_id <= Expected
  /\ titles_by_id = [i \in 1..doc_id |-> FlattenSeq(Indexable[i].title)]
  /\ \A i \in 1..doc_id :
       /\ Readable(Indexable[i]) => raw_links[i] = Indexable[i].links
       /\ store[i - 1].title = titles_by_id[i]
  /\ status = "parsed" => doc_id = Expected

\* If the markup of the pages added is closed and none of them has a link inside of
\* another, whatever else is nested in whatever, also in a link, the index is that of
\* what a reader sees of them: one posting for each document that has a term, in the
\* order of the ids, with every place of the term in it; and the lengths and totals
\* add up.
IndexDescribesPages ==
  (\A i \in 1..doc_id : Readable(Indexable[i])) =>
    index = IndexOf([i \in 1..doc_id |-> Indexable[i].words])

\* Broken markup, also if it is broken inside of a link, may take along what comes
\* after it, never what stands before it.
LosesOnlyBehind ==
  \A i \in 1..doc_id :
    ~Indexable[i].nested =>
      /\ IsPrefix(Indexable[i].links, raw_links[i])
      /\ \A n \in DOMAIN Indexable[i].words :
           \E posting \in Range(PostingListOf(index.index, Indexable[i].words[n]).postings) :
             posting.doc_id = i - 1 /\ n - 1 \in Range(posting.positions)

\* A snippet is the beginning of the page and ends with one of its words, unless
\* it has no blank and is as long as can be: the first word may have been cut then.
SnippetsHaveWholeWords ==
  \A i \in 1..doc_id :
    Readable(Indexable[i]) =>
      LET snippet == store[i - 1].snippet
      IN  /\ Len(snippet) <= MaxSnippet + 1
          /\ " " \in Range(snippet) \/ Len(snippet) <= MaxSnippet
               => IsPrefix(Tokenize(snippet), Indexable[i].words)

\* Typing on: a suggestion stays in the menu as long as what is typed does not
\* contradict it, at the place left to it by those before it that stay, however few
\* the menu shows.
SuggestionsStay ==
  \A limit \in SuggestLimits, term \in DOMAIN index.index : \A n \in 1..(Len(term) - 1) :
    LET typed   == SubSeq(term, 1, n + 1)
        shorter == SuggestPrefix(index, SubSeq(term, 1, n), limit)
        longer  == SuggestPrefix(index, typed, limit)
    IN  \A k \in DOMAIN shorter :
          IsPrefix(typed, shorter[k]) =>
            LET place == Cardinality({j \in 1..k : IsPrefix(typed, shorter[j])})
            IN  place \in DOMAIN longer /\ longer[place] = shorter[k]

TitlesDistinct == \A i, j \in DOMAIN titles_by_id : titles_by_id[i] = titles_by_id[j] => i = j

OneLine(target) == NewLine \notin Range(target)

\* The graphs that --recompute-pagerank may make of the file: of two documents
\* with one title the store's map, in any order, decides.
GraphsOffline ==
  {LoadAdjacencyList(link_graph, TitleIds([id \in DOMAIN store |-> store[id].title], ids),
                     Cardinality(DOMAIN store)) : ids \in SetToSeqs(DOMAIN store)}

\* If no two pages have one title and no link is broken over two lines, the
\* graph comes back from its file edge by edge.
GraphSurvivesFile ==
  status = "saved" /\ TitlesDistinct
    /\ (\A i \in DOMAIN raw_links : \A j \in DOMAIN raw_links[i] : OneLine(raw_links[i][j]))
    => GraphsOffline = {GraphIndexed}

\* The ranks share out one whole: some of it is lost exactly if a page has no link
\* to a page of the index, each link of a page passes on as much as the others, and
\* no page has less than the base, which is what a page without links to it has.
RanksAddUp ==
  status = "done" =>
    LET ids   == DOMAIN store
        total == Total([id \in ids |-> store[id].pagerank], doc_id)
        whole == Whole(doc_id, Rounds)
        linked(id) == \E from \in ids : id \in Range(GraphIndexed[from])
    IN  /\ total <= whole
        /\ ids # {} => (total = whole <=> \A id \in ids : GraphIndexed[id] # << >>)
        /\ \A id \in ids : IF linked(id) THEN store[id].pagerank > Base(Rounds)
                           ELSE store[id].pagerank = Base(Rounds)

-----------------------------------------------------------------------------
\* deployment.md:60, "PageRank can be computed during indexing or later with
\* `--recompute-pagerank`": from the same graph.
RanksFromOneGraph == status = "saved" /\ TitlesDistinct => GraphsOffline = {GraphIndexed}

\* plan.md:122, "While stripping Wikitext, we also extract every internal link
\* (`[[Target Article]]`) and record the edge".
EveryLinkRecorded ==
  \A i \in 1..doc_id : Indexable[i].whole => raw_links[i] = Indexable[i].links
=============================================================================
