-------------------------- MODULE WikitextStripper --------------------------
(***************************************************************************)
(* WikitextStripper (backend/src/wikitext_stripper.cpp): what is read of   *)
(* the text of an article, and the titles it links to.  The passes run one *)
(* after the other over the whole text, so the order in which they cut     *)
(* decides what markup inside other markup becomes.                        *)
(*                                                                         *)
(* Positions count from 1; NPos is no position.                            *)
(***************************************************************************)
EXTENDS QueryText, Integers, FiniteSetsExt

NPos == 0
NewLine == "\n"

ASSUME StripperAssumption == NewLine \in Space

\* The characters of a literal.
Spell(string) == [i \in 1..Len(string) |-> SubSeq(string, i, i)]

StartsWithAt(text, pos, token) ==
  /\ pos + Len(token) - 1 <= Len(text)
  /\ \A i \in DOMAIN token : text[pos + i - 1] = token[i]

Find(text, token, from) ==
  LET found == {pos \in from..Len(text) : StartsWithAt(text, pos, token)}
  IN  IF found = {} THEN NPos ELSE Min(found)

-----------------------------------------------------------------------------
(* Comments, references, templates and tables are cut out.                 *)

FirstClose(text, open, open_token, close_token) ==                     \* mutant
  Find(text, close_token, open)

\* findMatchingDoubleClose: what is opened in between is closed in between.
FindMatchingDoubleClose(text, open, open_token, close_token) ==
  LET match[pos \in 1..(Len(text) + 1)] ==
        [depth \in Int |->
           IF pos > Len(text) THEN NPos
           ELSE IF StartsWithAt(text, pos, open_token) THEN match[pos + 2][depth + 1]
           ELSE IF ~StartsWithAt(text, pos, close_token) THEN match[pos + 1][depth]
           ELSE IF depth = 1 THEN pos
           ELSE match[pos + 2][depth - 1]]
  IN  match[open][0]

\* Behind a token that is not there is nothing: the rest of the text is cut.
Behind(pos, token) == IF pos = NPos THEN NPos ELSE pos + Len(token)

BehindComment(text, open) == Behind(Find(text, <<"-", "-", ">">>, open + 4), <<"-", "-", ">">>)

BehindRef(text, open) ==
  LET tag_end == Find(text, <<">">>, open + 4)
      close   == Find(text, <<"<", "/", "r", "e", "f", ">">>, tag_end + 1)
  IN  IF tag_end = NPos THEN NPos
      ELSE IF text[tag_end - 1] = "/" \/ close = NPos THEN tag_end + 1
      ELSE close + 6

BehindTemplate(text, open) ==
  Behind(FindMatchingDoubleClose(text, open, <<"{", "{">>, <<"}", "}">>), <<"}", "}">>)

BehindTable(text, open) ==
  Behind(FindMatchingDoubleClose(text, open, <<"{", "|">>, <<"|", "}">>), <<"|", "}">>)

KeptBeforeLess(text, pos, open) == SubSeq(text, pos + 1, open - 1)     \* mutant

KeptBefore(text, pos, open) == SubSeq(text, pos, open - 1)

\* The text without what reaches from each opening token to what is behind it.
Without(text, open_token, behind) ==
  LET kept[pos \in 1..(Len(text) + 1)] ==
        LET open == Find(text, open_token, pos)
            next == behind[open]
        IN  IF open = NPos THEN SubSeq(text, pos, Len(text))
            ELSE KeptBefore(text, pos, open) \o (IF next = NPos THEN << >> ELSE kept[next])
  IN  kept[1]

StripComments(text) ==
  Without(text, <<"<", "!", "-", "-">>, [open \in DOMAIN text |-> BehindComment(text, open)])

StripRefTags(text) ==
  Without(text, <<"<", "r", "e", "f">>, [open \in DOMAIN text |-> BehindRef(text, open)])

StripTemplates(text) ==
  Without(text, <<"{", "{">>, [open \in DOMAIN text |-> BehindTemplate(text, open)])

StripTables(text) ==
  Without(text, <<"{", "|">>, [open \in DOMAIN text |-> BehindTable(text, open)])

-----------------------------------------------------------------------------
(* Links.                                                                  *)

NoUnderscores(text) == [i \in DOMAIN text |-> IF text[i] = "_" THEN " " ELSE text[i]]

CleanLinkDisplay(raw_display) ==
  Trim(NoUnderscores(IF raw_display # << >> /\ raw_display[1] = "#" THEN Tail(raw_display)
                     ELSE raw_display))

\* A leading colon goes, and all from an anchor on.
NormalizeLinkTarget(raw_target) ==
  LET target == NoUnderscores(Trim(raw_target))
      named  == IF target # << >> /\ target[1] = ":" THEN Trim(Tail(target)) ELSE target
      anchor == Find(named, <<"#">>, 1)
  IN  IF anchor = NPos THEN named ELSE Trim(SubSeq(named, 1, anchor - 1))

IgnoredNamespaces ==
  {Spell(name) : name \in {"category", "file", "image", "help", "portal", "special",
     "template", "wikipedia", "user", "draft", "module", "media"}}

InLowerCase(text) == [i \in DOMAIN text |-> Lower[text[i]]]

ShouldRecordInternalLink(target) ==
  /\ target # << >>
  /\ InLowerCase(SubSeq(target, 1, Find(target, <<":">>, 1) - 1)) \notin IgnoredNamespaces

\* What the text has at a position: what is shown of it, the links in it, and where
\* the loop goes on.
Piece(shown, links, next) == [shown |-> shown, links |-> links, next |-> next]

DisplayOr(display, target) == IF display = << >> THEN CleanLinkDisplay(target) ELSE display

Recorded(target) == IF ShouldRecordInternalLink(target) THEN <<target>> ELSE << >>

\* The target ends at the first bar, what is shown begins behind the last one.
InternalLink(inner, next) ==
  LET pipe   == SelectInSeq(inner, LAMBDA c : c = "|")
      target == IF pipe = 0 THEN inner ELSE SubSeq(inner, 1, pipe - 1)
      behind == SelectLastInSeq(inner, LAMBDA c : c = "|") + 1
  IN  Piece(DisplayOr(CleanLinkDisplay(SubSeq(inner, behind, Len(inner))), target),
            Recorded(NormalizeLinkTarget(target)), next)

Schemes == {Spell(scheme) : scheme \in {"http://", "https://", "ftp://", "mailto:"}}

IsExternalLink(text, pos, close) ==
  /\ text[pos] = "[" /\ ~StartsWithAt(text, pos, <<"[", "[">>)
  /\ close # NPos
  /\ \E scheme \in Schemes : IsPrefix(scheme, Trim(SubSeq(text, pos + 1, close - 1)))

\* What follows the first blank is shown.
ExternalLink(inner, next) ==
  LET split == SelectInSeq(inner, LAMBDA c : c \in {" ", "\t", NewLine})
  IN  Piece(IF split = 0 THEN << >>
            ELSE CleanLinkDisplay(Trim(SubSeq(inner, split + 1, Len(inner)))),
            << >>, next)

At(text, pos) ==
  LET close  == Find(text, <<"]", "]">>, pos + 2)
      single == Find(text, <<"]">>, pos + 1)
  IN  IF StartsWithAt(text, pos, <<"[", "[">>) /\ close # NPos
      THEN InternalLink(SubSeq(text, pos + 2, close - 1), close + 2)
      ELSE IF IsExternalLink(text, pos, single)
      THEN ExternalLink(Trim(SubSeq(text, pos + 1, single - 1)), single + 1)
      ELSE Piece(<<text[pos]>>, << >>, pos + 1)

Joined(piece, result) ==
  [cleaned_text   |-> piece.shown \o result.cleaned_text,
   internal_links |-> piece.links \o result.internal_links]

\* The piece and all that comes behind it, of which from[i] is the result from i on.
FromPiece(piece, from) == Joined(piece, from[piece.next])

ProcessLinks(text) ==
  LET from[pos \in 1..(Len(text) + 1)] ==
        IF pos > Len(text) THEN [cleaned_text |-> << >>, internal_links |-> << >>]
        ELSE FromPiece(At(text, pos), from)
  IN  from[1]

-----------------------------------------------------------------------------
(* Quotes, headings and blanks.                                            *)

Picked(text, at, kept, i) == IF i \in at THEN Append(kept, text[i]) ELSE kept

\* The characters at some of the positions.
Selected(text, at) ==
  Reading(LAMBDA kept, i : Picked(text, at, kept, i), << >>, [i \in DOMAIN text |-> i])

\* Two and more quotes in a row go.
WithoutQuotes(text) ==
  LET quotes == {i \in DOMAIN text : text[i] = "'"}
  IN  Selected(text, {i \in DOMAIN text : i \notin quotes \/ {i - 1, i + 1} \cap quotes = {}})

Lines(text) ==
  LET from[pos \in 1..(Len(text) + 1)] ==
        LET end == Find(text, <<NewLine>>, pos)
        IN  IF end = NPos THEN <<SubSeq(text, pos, Len(text))>>
            ELSE <<SubSeq(text, pos, end - 1)>> \o from[end + 1]
  IN  from[1]

\* A line between two and more equal signs on both sides loses them.
WithoutHeading(line) ==
  LET first == SelectInSeq(line, LAMBDA c : c # "=")
      last  == SelectLastInSeq(line, LAMBDA c : c # "=")
  IN  IF first > 2 /\ Len(line) - last >= 2 THEN Trim(SubSeq(line, first, last)) ELSE line

StripFormatting(text) ==
  LET lines == Lines(WithoutQuotes(text))
  IN  FlattenSeq([i \in DOMAIN lines |-> Append(WithoutHeading(Trim(lines[i])), NewLine)])

CollapseWhitespace(text) ==
  LET kept == Selected(text, {i \in DOMAIN text : text[i] \notin Space
                                \/ (i > 1 /\ text[i - 1] \notin Space)})
  IN  WithoutLastSpace([i \in DOMAIN kept |-> IF kept[i] \in Space THEN " " ELSE kept[i]])

\* clean
Clean(text) ==
  LET link_result == ProcessLinks(StripTables(StripTemplates(StripRefTags(StripComments(text)))))
  IN  [cleaned_text   |-> CollapseWhitespace(StripFormatting(link_result.cleaned_text)),
       internal_links |-> link_result.internal_links]
=============================================================================
