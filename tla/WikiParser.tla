----------------------------- MODULE WikiParser -----------------------------
(***************************************************************************)
(* WikiParser (backend/src/wiki_parser.cpp): the handlers expat calls for  *)
(* each element and each piece of text of a dump, and what they gather.    *)
(*                                                                         *)
(* A dump is a sequence of pages, and expat's calls for it are Events.     *)
(* Text comes in pieces, cut wherever expat or the read buffer cuts it: in *)
(* a dump, a title or a text is the sequence of its pieces.                *)
(***************************************************************************)
EXTENDS Naturals, SequencesExt

CONSTANTS
  Dumps,          \* the dumps of a run: sequences of [title, text] records
  Blank           \* the line breaks and spaces between elements

VARIABLES
  dump,
  events, at,     \* expat's calls for it, and the position of the next
  current_element, title, text, in_page, in_revision, stop_requested

parser_vars ==
  <<dump, events, at, current_element, title, text, in_page, in_revision, stop_requested>>

Text(pieces) == [i \in DOMAIN pieces |-> [kind |-> "text", data |-> pieces[i]]]

Element(name, content) ==
  <<[kind |-> "start", data |-> name]>> \o content \o <<[kind |-> "end", data |-> name]>>

Between == Text(<<Blank>>)

PageEvents(page) ==
  Element("page",
    Between \o Element("title", Text(page.title)) \o Between
            \o Element("ns", Text(<<<<"0">>>>)) \o Between
            \o Element("revision",
                 Between \o Element("contributor", Element("username", Text(<<<<"X">>>>)))
                         \o Between \o Element("text", Text(page.text)) \o Between)
            \o Between)

Events(pages) ==
  Element("mediawiki",
    Element("siteinfo", Element("sitename", Text(<<<<"W">>>>))) \o Between
      \o FlattenSeq([i \in DOMAIN pages |-> PageEvents(pages[i]) \o Between]))

ParserInit ==
  /\ dump \in Dumps
  /\ events = Events(dump) /\ at = 1
  /\ current_element = "" /\ title = << >> /\ text = << >>
  /\ in_page = FALSE /\ in_revision = FALSE /\ stop_requested = FALSE

\* XML_Parse goes on until there is no more or a handler has stopped it.
Finished == stop_requested \/ at > Len(events)

Event(kind) ==
  /\ ~Finished
  /\ events[at].kind = kind
  /\ at' = at + 1
  /\ UNCHANGED <<dump, events>>

Name == events[at].data

KeptFrom(gathered) == gathered                                        \* mutant

\* A new page starts with nothing.
ClearedOf(gathered) == << >>

StartElement ==
  /\ Event("start")
  /\ current_element' = Name
  /\ in_page' = (in_page \/ Name = "page")
  /\ in_revision' = (in_revision \/ Name = "revision")
  /\ title' = IF Name = "page" THEN ClearedOf(title) ELSE title
  /\ text' = IF Name = "page" THEN ClearedOf(text) ELSE text
  /\ UNCHANGED stop_requested

\* The end of a page that has both a title and a text calls the callback, which
\* says whether to go on.
PageIsComplete == Name = "page" /\ title # << >> /\ text # << >>

EndElement(should_continue) ==
  /\ Event("end")
  /\ in_page' = (in_page /\ Name # "page")
  /\ in_revision' = (in_revision /\ Name # "revision")
  /\ current_element' = ""
  /\ stop_requested' = (PageIsComplete /\ ~should_continue)
  /\ UNCHANGED <<title, text>>

CharData ==
  /\ Event("text")
  /\ title' = IF in_page /\ current_element = "title" THEN title \o Name ELSE title
  /\ text' = IF in_page /\ current_element = "text" /\ in_revision THEN text \o Name
             ELSE text
  /\ UNCHANGED <<current_element, in_page, in_revision, stop_requested>>
=============================================================================
