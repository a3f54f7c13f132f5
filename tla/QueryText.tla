----------------------------- MODULE QueryText -----------------------------
(***************************************************************************)
(* What the program makes of a text, character by character: the cache key *)
(* and the prefix of suggestions (backend/src/main.cpp), the words of the  *)
(* index (backend/src/tokenizer.cpp), and the token the page replaces when *)
(* a suggestion is picked (frontend/src/App.tsx).                          *)
(*                                                                         *)
(* A text is a sequence of characters.  Each loop over a text is a fold of *)
(* the step it makes for one character (FoldLeft is too slow for texts).   *)
(***************************************************************************)
EXTENDS Naturals, SequencesExt

CONSTANTS
  Chars,
  Space,          \* isspace
  Alnum,          \* isalnum of an unsigned char, and [A-Za-z0-9] in the page
  CharAlnum,      \* isalnum of a char, which is negative beyond ASCII: what
                  \* the library answers is its own choice
  Lower,          \* tolower
  Stopwords,
  Stem(_)         \* PorterStemmer::stem

ASSUME TextAssumption ==
  /\ Space \subseteq Chars /\ " " \in Space
  /\ Alnum \subseteq CharAlnum /\ CharAlnum \subseteq Chars \ Space
  /\ Lower \in [Chars -> Chars]
  /\ \A c \in Chars :
       /\ Lower[Lower[c]] = Lower[c]
       /\ Lower[c] \in CharAlnum <=> c \in CharAlnum
       /\ Lower[c] \in Alnum <=> c \in Alnum
       /\ Lower[c] \in Space <=> c \in Space

Reading(step(_, _), start, text) ==
  LET after[i \in 0..Len(text)] == IF i = 0 THEN start ELSE step(after[i - 1], text[i])
  IN  after[Len(text)]

-----------------------------------------------------------------------------
(* The cache key.                                                          *)

HasNonWhitespace(text) == \E i \in DOMAIN text : text[i] \notin Space

NothingRead == [text |-> << >>, previous_was_space |-> TRUE]

NormalizeDroppingSpace(n, ch) ==                                      \* mutant
  IF ch \in Space THEN n
  ELSE [text |-> Append(n.text, Lower[ch]), previous_was_space |-> FALSE]

\* The body of normalizeCacheQuery's loop.
NormalizeChar(n, ch) ==
  IF ch \in Space
  THEN [text |-> IF n.previous_was_space THEN n.text ELSE Append(n.text, " "),
        previous_was_space |-> TRUE]
  ELSE [text |-> Append(n.text, Lower[ch]), previous_was_space |-> FALSE]

WithoutLastSpace(text) == IF text # << >> /\ Last(text) = " " THEN Front(text) ELSE text

NormalizeCacheQuery(text) ==
  WithoutLastSpace(Reading(NormalizeChar, NothingRead, text).text)

-----------------------------------------------------------------------------
(* The words.                                                              *)

NoTokens == [tokens |-> << >>, current |-> << >>]

\* The end of a word, if there is one.
Flushed(t) ==
  [tokens  |-> IF t.current # << >> /\ t.current \notin Stopwords
               THEN Append(t.tokens, Stem(t.current)) ELSE t.tokens,
   current |-> << >>]

\* The body of tokenize's loop.
TokenizeChar(t, c) ==
  IF c \in CharAlnum THEN [t EXCEPT !.current = Append(@, Lower[c])] ELSE Flushed(t)

Tokenize(text) == Flushed(Reading(TokenizeChar, NoTokens, text)).tokens

-----------------------------------------------------------------------------
(* Suggestions.                                                            *)

PrefixChar(current_token, ch) ==
  IF ch \in Alnum THEN Append(current_token, Lower[ch]) ELSE << >>

NormalizeSuggestionPrefix(text) == Reading(PrefixChar, << >>, text)

\* extractActiveToken: the last run of letters and digits, wherever it ends.
ActiveToken(query) ==
  LET end   == SelectLastInSeq(query, LAMBDA c : c \in Alnum)
      start == SelectLastInSubSeq(query, 1, end, LAMBDA c : c \notin Alnum)
  IN  [start |-> start, end |-> end, token |-> SubSeq(query, start + 1, end)]

ReplaceActiveToken(query, suggestion) ==
  LET active == ActiveToken(query)
  IN  SubSeq(query, 1, active.start) \o suggestion
        \o SubSeq(query, active.end + 1, Len(query))

Trim(text) ==
  IF ~HasNonWhitespace(text) THEN << >>
  ELSE SubSeq(text, SelectInSeq(text, LAMBDA c : c \notin Space),
                    SelectLastInSeq(text, LAMBDA c : c \notin Space))
=============================================================================
