---------------------------- MODULE MCSearchPage ----------------------------
(***************************************************************************)
(* Texts for SearchPage that have two pages of two results, one full page, *)
(* or none; a word that is a prefix of another, one that has ended, and    *)
(* nothing but a space.                                                    *)
(***************************************************************************)
EXTENDS SearchPage, TLC

MCChars == {"c", "C", "d", " "}

MCLower == [ch \in MCChars |-> IF ch = "C" THEN "c" ELSE ch]

MCStem(word) == word

MCTexts == {<<" ">>, <<"C">>, <<"c", "d">>, <<"d", " ">>}

\* Every text that typing and picking may leave in the box.
MCBoxTexts ==
  MCTexts \cup {<< >>, <<"c">>, <<"c", " ">>, <<"c", "d", " ">>}

\* What is left of them without blanks around it.
MCTotal ==
  (<<"C">> :> 3) @@ (<<"c">> :> 3) @@ (<<"c", "d">> :> 2) @@ (<<"d">> :> 0)

MCSuggested ==
  (<<"c">> :> <<<<"c", "d">>, <<"c">>>>) @@ (<<"c", "d">> :> <<<<"c", "d">>>>)
    @@ (<<"d">> :> << >>)
=============================================================================
