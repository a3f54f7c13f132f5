---------------------------- MODULE MCIngestion ----------------------------
(***************************************************************************)
(* Dumps for Ingestion.  Markup is built from nodes, each of which knows   *)
(* how it is written and what a reader has of it: words and links.         *)
(***************************************************************************)
EXTENDS Ingestion, PorterStemmer, TLC

-----------------------------------------------------------------------------
(* Markup.                                                                 *)

Node(written, words, links) ==
  [written |-> Spell(written), words |-> words, links |-> links,
   whole |-> TRUE, nested |-> FALSE]

Cats == Node("Cats", <<Spell("cat")>>, << >>)
Dog == Node("dog", <<Spell("dog")>>, << >>)
Piped == Node("[[b|cats]]", <<Spell("cat")>>, <<Spell("b")>>)
Anchored == Node("[[a#dog]]", <<Spell("dog")>>, <<Spell("a")>>)
Category == Node("[[Category:Cat|a]]", << >>, << >>)
External == Node("[http://a.b dog]", <<Spell("dog")>>, << >>)

\* A node inside of something that shows it or hides it.
Around(open, node, close) ==
  [node EXCEPT !.written = Spell(open) \o node.written \o Spell(close)]

Hidden(open, node, close) ==
  [Around(open, node, close) EXCEPT !.words = << >>, !.links = << >>]

Wrapped(node) ==
  {Hidden("{{t|", node, "|t}}"), Hidden("{| ", node, " | t |}"), Hidden("<ref>", node, "</ref>"),
   Around("\n== ", node, " ==\n"), Around("'''", node, "'''")}

\* Nothing but the end of a comment ends it.
Commented(node) == Hidden("<!-- ", node, " -->")

Then(node, other) ==
  IF ~node.whole THEN [node EXCEPT !.written = @ \o <<" ">> \o other.written]
  ELSE [written |-> node.written \o <<" ">> \o other.written,
        words |-> node.words \o other.words, links |-> node.links \o other.links,
        whole |-> other.whole, nested |-> node.nested \/ other.nested]

\* What is shown of a link, and the caption of a picture.
InLink(node) == [Around("[[b|", node, "]]") EXCEPT !.links = <<Spell("b")>> \o @]

Captioned(node) == Around("[[File:x|t|", node, "]]")

\* Markup inside of a link.
InLinks ==
  UNION {{InLink(Then(node, Cats)), Captioned(Then(Cats, node))} :
           node \in Wrapped(Dog) \cup Wrapped(Hidden("{{", Piped, "}}")) \cup {Commented(Piped)}}

\* Links inside of the caption of a picture.
LinksInLinks ==
  {[Captioned(node) EXCEPT !.nested = TRUE] :
     node \in {Then(Dog, Piped), Then(Anchored, Dog), Then(Dog, External)}}

\* What opens and does not close, or the other way round; also inside of a link.
Broken ==
  {[written |-> w, words |-> << >>, links |-> << >>, whole |-> FALSE, nested |-> FALSE] :
     w \in {Spell(s) : s \in {"{{t|", "{|", "[[", "<!--", "<ref>", "<ref", "}}", "|}", "]]", "-->",
                              "[http://a"}}
           \cup {Spell("[[b|") \o Spell(s) \o Spell(" dog]]") :
                    s \in {"{{t|", "{|", "[[a|", "<!--", "<ref>", "[http://a"}}}

Inner == {Cats, Piped, External} \cup Wrapped(Anchored) \cup {Commented(Piped)}

\* References are not nested in references, and comments not in comments.
Once(node, opening) ==
  Cardinality({i \in DOMAIN node.written :
                 StartsWithAt(node.written, i, Spell(opening))}) <= 1

Nested ==
  LET twice  == UNION {Wrapped(inner) : inner \in Inner}
      thrice == UNION {Wrapped(node) : node \in UNION {Wrapped(inner) : inner \in Wrapped(Piped)}}
  IN  {node \in twice \cup thrice \cup {Commented(node) : node \in twice} :
         Once(node, "<ref") /\ Once(node, "<!--")}

Articles ==
  {Then(node, Dog) : node \in Nested \cup InLinks \cup LinksInLinks}
    \cup {Then(Then(Anchored, Then(broken, node)), Cats) :
            broken \in Broken, node \in {Piped, Hidden("{{", Dog, "}}")}}

-----------------------------------------------------------------------------
(* Dumps.                                                                  *)

\* A text that expat cuts behind its n-th character.
Cut(written, n) ==
  IF n \in 1..(Len(written) - 1)
  THEN <<SubSeq(written, 1, n), SubSeq(written, n + 1, Len(written))>>
  ELSE <<written>>

Page(name, node, n) ==
  [title |-> name, text |-> Cut(node.written, n),
   words |-> node.words, links |-> node.links, whole |-> node.whole, nested |-> node.nested]

A == <<<<"a">>>>
B == <<<<"b">>>>
AB == <<<<"a">>, <<"b">>>>

NoText == [Page(AB, Cats, 0) EXCEPT !.text = << >>]

MCPages ==
  {Page(A, Cats, 2), Page(A, Then(Then(Piped, Dog), Cats), 2), NoText, Page(<< >>, Dog, 0),
   Page(AB, Then(Anchored, Then(Anchored, Piped)), 4), Page(B, Then(Category, Then(Dog, Piped)), 0),
   Page(B, Then(Anchored, Node("[[ab|dogs]]", <<Spell("dog")>>, <<Spell("ab")>>)), 0)}

\* Terms that begin alike, in one document or in more.
Term(word) == Node(word, <<Spell(word)>>, << >>)

Vocabulary ==
  {Page(A, Then(Term("dot"), Term("dog")), 0), Page(B, Then(Term("dog"), Term("do")), 0),
   Page(AB, Then(Term("dob"), Then(Term("dab"), Term("dob"))), 0)}

\* A link that is broken over two lines, the first of which is a title.
TwoLines ==
  Page(B, [Node("[[a\n[[dog]]", << >>, << >>) EXCEPT !.whole = FALSE], 0)

MCDumps ==
  UNION {[1..n -> MCPages] : n \in 0..3}
    \cup [1..3 -> Vocabulary]
    \cup {<<Page(A, article, Len(article.written) \div 2), Page(B, Cats, 0)>> :
            article \in Articles}
    \cup {<<page, TwoLines>> : page \in MCPages}

\* Pictures whose captions have links.
MCCaptions ==
  {<<Page(A, Then(Cats, caption), 0), Page(B, Dog, n)>> : caption \in LinksInLinks, n \in 0..2}

-----------------------------------------------------------------------------
(* Characters.                                                             *)

\* In the order of their bytes.
Alphabet == Spell("\t\n !#'-./01:<=>BCDFHXW[]abcdefghijklmnopqrstuvwxyz{|}")

MCChars == Range(Alphabet)

Capitals == [c \in Range(Spell("BCDFHXW")) |-> Spell("bcdfhxw")[
               CHOOSE i \in 1..7 : Spell("BCDFHXW")[i] = c]]

MCLower == [c \in MCChars |-> IF c \in DOMAIN Capitals THEN Capitals[c] ELSE c]

MCSpace == {" ", "\t", "\n"}

MCAlnum == MCChars \ (MCSpace \cup Range(Spell("!#'-./:<=>[]{|}")))

MCStopwords == {<<"a">>, Spell("the")}

MCBlank == Spell("\n  ")

Byte(c) == CHOOSE i \in DOMAIN Alphabet : Alphabet[i] = c

MCTermBefore(t, u) ==
  LET differ == {i \in DOMAIN t \cap DOMAIN u : t[i] # u[i]}
  IN  IF differ = {} THEN Len(t) < Len(u) ELSE Byte(t[Min(differ)]) < Byte(u[Min(differ)])
=============================================================================
