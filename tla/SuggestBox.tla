----------------------------- MODULE SuggestBox -----------------------------
(***************************************************************************)
(* The menu of suggestions under the text box (frontend/src/App.tsx).  An  *)
(* edit starts a timer and cancels the one before; the timer calls the     *)
(* backend, and a call is never cancelled: its answer is shown whenever it *)
(* comes.                                                                  *)
(*                                                                         *)
(* The box belongs to SearchPage, which composes these steps with its own. *)
(* The effect of an edit runs before any other event.                      *)
(***************************************************************************)
EXTENDS QueryText

CONSTANTS
  BoxTexts,       \* what typing and picking may leave in the box
  Suggested,      \* the backend's suggestions for each prefix
  MaxSuggestCalls \* bound: calls to /suggest in a run

\* A suggestion continues its prefix, and BoxTexts has what picking it leaves.
ASSUME BoxAssumption ==
  /\ << >> \in BoxTexts /\ MaxSuggestCalls \in Nat
  /\ \A prefix \in DOMAIN Suggested :
       /\ prefix \in Seq(Alnum) /\ prefix # << >>
       /\ Suggested[prefix] \in Seq(Seq(Chars))
       /\ \A i \in DOMAIN Suggested[prefix] : IsPrefix(prefix, Suggested[prefix][i])
  /\ \A text \in BoxTexts :
       /\ text \in Seq(Chars)
       /\ NormalizeSuggestionPrefix(text) \in DOMAIN Suggested \cup {<< >>}
       /\ \A prefix \in DOMAIN Suggested : \A i \in DOMAIN Suggested[prefix] :
            ReplaceActiveToken(text, Suggested[prefix][i]) \in BoxTexts

VARIABLES
  query,          \* the text in the box
  focused,        \* is the box document.activeElement?
  timer,          \* is a timer running?  It is for the text in the box
  suggest_calls,  \* the texts of the calls to /suggest under way, oldest first
  suggest_asked,  \* how many so far, for MaxSuggestCalls
  suggestions, loadingSuggestions, showSuggestions,
  overtaken       \* history: an answer has come before that of an older call,
                  \* or the box was left without a token during a call

menu_vars == <<focused, timer, suggest_calls, suggest_asked, suggestions,
               loadingSuggestions, showSuggestions, overtaken>>

MenuInit ==
  /\ query = << >>
  /\ focused = FALSE /\ timer = FALSE
  /\ suggest_calls = << >> /\ suggest_asked = 0
  /\ suggestions = << >>
  /\ loadingSuggestions = FALSE /\ showSuggestions = FALSE
  /\ overtaken = FALSE

NothingToComplete(text) == Trim(text) = << >> \/ ActiveToken(text).token = << >>

\* setQuery, with the effect that depends on the query.
SetQuery(text) ==
  /\ query' = text
  /\ timer' = IF text = query THEN timer ELSE ~NothingToComplete(text)

EditKeepingMenu(text) ==                                              \* mutant
  /\ focused
  /\ text # query /\ SetQuery(text)
  /\ loadingSuggestions' = (loadingSuggestions /\ ~NothingToComplete(text))
  /\ overtaken' = (overtaken \/ (NothingToComplete(text) /\ suggest_calls # << >>))
  /\ UNCHANGED <<focused, suggest_calls, suggest_asked, suggestions, showSuggestions>>

EditBox(text) ==
  /\ focused
  /\ text # query /\ SetQuery(text)
  /\ IF NothingToComplete(text)
     THEN suggestions' = << >> /\ loadingSuggestions' = FALSE
     ELSE UNCHANGED <<suggestions, loadingSuggestions>>
  /\ overtaken' = (overtaken \/ (NothingToComplete(text) /\ suggest_calls # << >>))
  /\ UNCHANGED <<focused, suggest_calls, suggest_asked, showSuggestions>>

TimerFires ==
  /\ timer /\ suggest_asked < MaxSuggestCalls
  /\ timer' = FALSE
  /\ suggest_asked' = suggest_asked + 1
  /\ suggest_calls' = Append(suggest_calls, query)
  /\ loadingSuggestions' = TRUE
  /\ UNCHANGED <<query, focused, suggestions, showSuggestions, overtaken>>

SuggestCallEnds(i) ==
  /\ suggest_calls' = RemoveAt(suggest_calls, i)
  /\ loadingSuggestions' = FALSE
  /\ overtaken' = (overtaken \/ i > 1)
  /\ UNCHANGED <<query, focused, timer, suggest_asked>>

\* The handler of /suggest: nothing is offered after a word that has ended.
AnswerFor(text) ==
  LET prefix == NormalizeSuggestionPrefix(text)
  IN  IF prefix = << >> THEN << >> ELSE Suggested[prefix]

SuggestAnswered(i) ==
  /\ suggestions' = AnswerFor(suggest_calls[i])
  /\ showSuggestions' = (focused /\ suggestions' # << >>)
  /\ SuggestCallEnds(i)

SuggestFails(i) ==
  /\ suggestions' = << >>
  /\ SuggestCallEnds(i)
  /\ UNCHANGED showSuggestions

Focus ==
  /\ ~focused /\ focused' = TRUE
  /\ showSuggestions' = (showSuggestions \/ suggestions # << >>)
  /\ UNCHANGED <<query, timer, suggest_calls, suggest_asked, suggestions,
                 loadingSuggestions, overtaken>>

\* With the Tab key, or to a button beside the box.
Leave == focused /\ focused' = FALSE /\ UNCHANGED showSuggestions

ClickOutside ==
  /\ focused \/ showSuggestions
  /\ focused' = FALSE /\ showSuggestions' = FALSE

Escape == focused /\ showSuggestions /\ showSuggestions' = FALSE /\ UNCHANGED focused

HideMenu ==
  /\ Leave \/ ClickOutside \/ Escape
  /\ UNCHANGED <<query, timer, suggest_calls, suggest_asked, suggestions,
                 loadingSuggestions, overtaken>>

MenuNext ==
  \/ TimerFires \/ Focus \/ HideMenu
  \/ \E i \in DOMAIN suggest_calls : SuggestAnswered(i) \/ SuggestFails(i)

-----------------------------------------------------------------------------
MenuTypeOK ==
  /\ {focused, timer, loadingSuggestions, showSuggestions, overtaken} \subseteq BOOLEAN
  /\ suggest_asked \in Nat /\ Len(suggest_calls) <= suggest_asked
  /\ query \in BoxTexts /\ suggest_calls \in Seq(BoxTexts)
  /\ suggestions \in {Suggested[prefix] : prefix \in DOMAIN Suggested} \cup {<< >>}
  /\ timer => ~NothingToComplete(query)

LowerCase(text) == [i \in DOMAIN text |-> Lower[text[i]]]

\* Every suggestion continues the token it would replace.
FitsBox(list) ==
  \A i \in DOMAIN list : IsPrefix(LowerCase(ActiveToken(query).token), list[i])

\* Once the timer has run out and its call has ended, the menu has the suggestions
\* for the text in the box or none, and each continues the token it would replace:
\* unless answers have overtaken each other, or one has come to a box that no
\* longer has a token.
MenuFitsBox ==
  ~timer /\ suggest_calls = << >> /\ ~overtaken =>
    /\ suggestions \in {<< >>, AnswerFor(query)}
    /\ FitsBox(suggestions)
=============================================================================
