--------------------------- MODULE PorterStemmer ---------------------------
(***************************************************************************)
(* PorterStemmer (backend/src/porter_stemmer.cpp): the first step of       *)
(* Porter's algorithm, in its three parts.  A word is a sequence of lower  *)
(* case letters, digits and other bytes.                                   *)
(***************************************************************************)
EXTENDS Naturals, FiniteSets, SequencesExt

\* isVowel, at every place of a word: y is one behind a consonant.
Vowels(word) ==
  LET vowel[i \in DOMAIN word] ==
        \/ word[i] \in {"a", "e", "i", "o", "u"}
        \/ word[i] = "y" /\ i > 1 /\ ~vowel[i - 1]
  IN  {i \in DOMAIN word : vowel[i]}

\* How often a consonant follows a vowel.
Measure(word) == Cardinality({i \in Vowels(word) : i < Len(word) /\ i + 1 \notin Vowels(word)})

ContainsVowel(word) == Vowels(word) # {}

EndsWith(word, suffix) == IsSuffix(suffix, word)

EndsWithAny(word, suffixes) == \E suffix \in suffixes : EndsWith(word, suffix)

Chopped(word, n) == SubSeq(word, 1, Len(word) - n)

EndsWithDoubleConsonant(word) ==
  LET n == Len(word)
  IN  n >= 2 /\ word[n] = word[n - 1] /\ n \notin Vowels(word)

Cvc(word) ==
  LET n == Len(word)
  IN  /\ n >= 3
      /\ {n - 2, n - 1, n} \cap Vowels(word) = {n - 1}
      /\ word[n] \notin {"w", "x", "y"}

Step1a(word) ==
  IF EndsWithAny(word, {<<"s", "s", "e", "s">>, <<"i", "e", "s">>}) THEN Chopped(word, 2)
  ELSE IF EndsWith(word, <<"s">>) /\ ~EndsWith(word, <<"s", "s">>) THEN Chopped(word, 1)
  ELSE word

\* What is left when ed or ing is off.
Repaired(word) ==
  IF EndsWithAny(word, {<<"a", "t">>, <<"b", "l">>, <<"i", "z">>}) THEN Append(word, "e")
  ELSE IF EndsWithDoubleConsonant(word) /\ Last(word) \notin {"l", "s", "z"} THEN Front(word)
  ELSE IF Measure(word) = 1 /\ Cvc(word) THEN Append(word, "e")
  ELSE word

\* Is it an ending with a vowel before it?
Ending(word, suffix) ==
  EndsWith(word, suffix) /\ ContainsVowel(Chopped(word, Len(suffix)))

Step1b(word) ==
  IF EndsWith(word, <<"e", "e", "d">>)
  THEN IF Measure(Chopped(word, 3)) > 0 THEN Chopped(word, 1) ELSE word
  ELSE IF Ending(word, <<"e", "d">>) THEN Repaired(Chopped(word, 2))
  ELSE IF Ending(word, <<"i", "n", "g">>) THEN Repaired(Chopped(word, 3))
  ELSE word

Step1c(word) == IF Ending(word, <<"y">>) THEN Append(Front(word), "i") ELSE word

PorterStem(word) == IF Len(word) <= 2 THEN word ELSE Step1c(Step1b(Step1a(word)))
=============================================================================
