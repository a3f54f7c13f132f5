----------------------------- MODULE SearchPage -----------------------------
(***************************************************************************)
(* The search page of frontend/src/App.tsx: the text box with its menu     *)
(* (SuggestBox), the list of results and the "Load more" button, over a    *)
(* network that answers the page's calls in any order, or lets them fail.  *)
(*                                                                         *)
(* A handler runs up to its await in one step; what follows the await is   *)
(* the step that answers the call, for no other event comes between the    *)
(* continuations of one promise.  Results are abstract: a page of them is  *)
(* the query and the offset it was asked for and its length.               *)
(***************************************************************************)
EXTENDS SuggestBox

CONSTANTS
  Texts,         \* what a user types
  Total,         \* how many results the backend has for a query
  PageSize,      \* PAGE_SIZE
  MaxCalls       \* bound: calls to /search in a run

Queries == DOMAIN Total

Blank == << >>

ASSUME PageAssumption ==
  /\ Texts \subseteq BoxTexts
  /\ \A text \in BoxTexts : Trim(text) \in Queries \cup {Blank}
  /\ Blank \notin Queries /\ Total \in [Queries -> Nat]
  /\ PageSize \in Nat \ {0} /\ MaxCalls \in Nat

VARIABLES
  results,       \* the answers shown, one after the other
  loading, searched, offset, hasMore, errorMessage,
  calls,         \* the calls under way
  asked,         \* how many calls so far, for MaxCalls
  last,          \* history: the query last searched for
  disturbed      \* history: calls have overlapped, or a page was loaded for
                 \* another text than the one searched for

search_vars == <<results, loading, searched, offset, hasMore, errorMessage,
                 calls, asked, last, disturbed>>

vars == <<query, menu_vars, search_vars>>

Init ==
  /\ MenuInit
  /\ last = Blank
  /\ results = << >> /\ calls = << >>
  /\ loading = FALSE /\ searched = FALSE /\ hasMore = FALSE
  /\ offset = 0
  /\ errorMessage = FALSE
  /\ asked = 0 /\ disturbed = FALSE

\* results.length > 0
SomethingShown == \E i \in DOMAIN results : results[i].size > 0

\* fetchResults up to its await.
Fetch(q, off, append) ==
  /\ asked < MaxCalls
  /\ asked' = asked + 1
  /\ calls' = Append(calls, [query |-> q, offset |-> off, append |-> append])
  /\ loading' = TRUE
  /\ errorMessage' = FALSE
  /\ showSuggestions' = FALSE
  /\ disturbed' = (disturbed \/ calls # << >> \/ (append /\ q # last))
  /\ UNCHANGED <<results, offset, hasMore>>

RunBlankSearch(text) ==                                               \* mutant
  /\ searched' = TRUE
  /\ last' = Trim(text)
  /\ Fetch(Trim(text), 0, FALSE)

RunSearch(text) ==
  /\ Trim(text) # Blank
  /\ searched' = TRUE
  /\ last' = Trim(text)
  /\ Fetch(Trim(text), 0, FALSE)

-----------------------------------------------------------------------------
(* The user.                                                               *)

Edit(text) == EditBox(text) /\ UNCHANGED search_vars

BoxStays == UNCHANGED <<query, focused, timer, suggest_calls, suggest_asked,
                        suggestions, loadingSuggestions, overtaken>>

\* Nothing keeps the Enter key from searching while loading; the Search button
\* is disabled then.
PressEnter == focused /\ RunSearch(query) /\ BoxStays

ClickSearch == ~loading /\ RunSearch(query) /\ BoxStays

\* applySuggestion, from the menu; the press of the button takes no focus.
PickSuggestion ==
  /\ showSuggestions
  /\ \E i \in DOMAIN suggestions :
       LET nextQuery == ReplaceActiveToken(query, suggestions[i])
       IN  SetQuery(nextQuery) /\ RunSearch(nextQuery)
  /\ suggestions' = << >>
  /\ UNCHANGED <<focused, suggest_calls, suggest_asked, loadingSuggestions, overtaken>>

LoadMoreSameOffset == offset                                          \* mutant

NextOffset == offset + PageSize

\* The button is there if hasMore && !showLoadMoreLoading.
LoadMore ==
  /\ hasMore
  /\ ~(loading /\ SomethingShown)
  /\ Fetch(Trim(query), NextOffset, TRUE)
  /\ BoxStays /\ UNCHANGED <<searched, last>>

-----------------------------------------------------------------------------
(* The network.                                                            *)

Least(m, n) == IF m <= n THEN m ELSE n

\* What the backend sends: results off+1 .. off+PageSize, as far as there are.
Size(q, off) == IF off >= Total[q] THEN 0 ELSE Least(PageSize, Total[q] - off)

MoreIfAny(page) == page.size > 0                                      \* mutant

More(page) == page.size = PageSize

Ends(i) ==
  /\ calls' = RemoveAt(calls, i)
  /\ loading' = FALSE
  /\ UNCHANGED <<query, menu_vars, searched, asked, last, disturbed>>

\* The rest of fetchResults and of its caller when the call succeeds.
Answered(i) ==
  LET call == calls[i]
      page == [query |-> call.query, offset |-> call.offset,
               size |-> Size(call.query, call.offset)]
  IN  /\ call.query # Blank
      /\ results' = IF call.append THEN Append(results, page) ELSE <<page>>
      /\ hasMore' = More(page)
      /\ offset' = call.offset
      /\ Ends(i)
      /\ UNCHANGED errorMessage

FailsLoading(i) ==                                                    \* mutant
  /\ calls' = RemoveAt(calls, i)
  /\ hasMore' = FALSE
  /\ results' = IF calls[i].append THEN results ELSE << >>
  /\ errorMessage' = TRUE
  /\ UNCHANGED <<loading, offset, query, menu_vars, searched, asked, last,
                 disturbed>>

\* It fails: no connection, or a refusal (of a blank query, always).
Fails(i) ==
  /\ hasMore' = FALSE
  /\ results' = IF calls[i].append THEN results ELSE << >>
  /\ errorMessage' = TRUE
  /\ Ends(i)
  /\ UNCHANGED offset

Next ==
  \/ \E text \in Texts : Edit(text)
  \/ PressEnter \/ ClickSearch \/ PickSuggestion \/ LoadMore
  \/ \E i \in DOMAIN calls : Answered(i) \/ Fails(i)
  \/ MenuNext /\ UNCHANGED search_vars

Spec == Init /\ [][Next]_vars

-----------------------------------------------------------------------------
\* The types; a search is never for a blank text.
TypeOK ==
  /\ MenuTypeOK
  /\ last \in Queries \cup {Blank}
  /\ results \in Seq([query : Queries, offset : Nat, size : 0..PageSize])
  /\ {loading, searched, hasMore, errorMessage, disturbed} \subseteq BOOLEAN
  /\ offset \in Nat /\ asked \in Nat
  /\ calls \in Seq([query : Queries \cup {Blank}, offset : Nat, append : BOOLEAN])
  /\ \A i \in DOMAIN calls : calls[i].query = Blank => calls[i].append

\* The page never shows that it is loading, results or suggestions, when no such
\* call is under way: every way out of a call, of however many that overlap, ends
\* the loading.
LoadingMeansWaiting ==
  /\ loading => calls # << >>
  /\ loadingSuggestions => suggest_calls # << >>

\* "Load more" is offered only below a full page.
MoreFollowsFullPage == hasMore => results # << >> /\ Last(results).size = PageSize

\* If the calls of a run never overlap and pages are loaded for the text that
\* was searched for, the results are the pages of one query from its first on,
\* none missing and none twice, whatever failed or was edited in between.
PagesInSequence ==
  ~disturbed =>
    \A i \in DOMAIN results :
      /\ results[i].offset = (i - 1) * PageSize
      /\ results[i].query = results[1].query
      /\ i < Len(results) => results[i].size = PageSize
      /\ offset = (Len(results) - 1) * PageSize

=============================================================================
