--------------------------- MODULE BenchmarkProofs ---------------------------
(***************************************************************************)
(* The benchmark, for query files of any length over any characters, any   *)
(* command lines and a cache of any capacity.                              *)
(*                                                                         *)
(* First the texts: a text and its cache key have the same words, proved   *)
(* once of the loops as a whole and once of the reader that runs them side *)
(* by side.  Then the loops of the benchmark, and the command line.        *)
(***************************************************************************)
EXTENDS Benchmark, LRUCacheProofs, FiniteSetTheorems, SequenceTheorems, WellFoundedInduction

-----------------------------------------------------------------------------
(* Loops over a text.                                                      *)

Smaller == {p \in Nat \X Nat : p[1] < p[2]}

\* A set that has 0, and with a number the next one, has all numbers.
LEMMA Induction ==
  ASSUME NEW T, 0 \in T, \A n \in Nat : n \in T => n + 1 \in T
  PROVE  Nat \subseteq T
<1> SUFFICES ASSUME Nat \ T # {} PROVE FALSE
  OBVIOUS
<1>1. IsWellFoundedOn(Smaller, Nat)
  BY NatLessThanWellFounded, Zenon DEF OpToRel, Smaller
<1>2. PICK m \in Nat \ T : \A n \in Nat \ T : <<n, m>> \notin Smaller
  BY <1>1, WFMin
<1>3. m - 1 \in Nat /\ <<m - 1, m>> \in Smaller
  BY <1>2 DEF Smaller
<1>4. m - 1 \in T
  BY <1>2, <1>3
<1> QED  BY <1>2, <1>3, <1>4

\* The states of a loop over a text, one before each place and one at the end.
Loops(f, start, step, s) ==
  f[0] = start /\ \A i \in 1..Len(s) : f[i] = step[f[i - 1]][s[i]]

\* A loop whose body maps a state and a character to a state has a state after each
\* place of the text.
LEMMA StateAfterEachPlace ==
  ASSUME NEW States, NEW start \in States, NEW step \in [States -> [Chars -> States]],
         NEW s \in Seq(Chars)
  PROVE  \E f \in [0..Len(s) -> States] : Loops(f, start, step, s)
<1> DEFINE Upto(m, f) == /\ f \in [0..m -> States] /\ f[0] = start
                         /\ \A i \in 1..m : f[i] = step[f[i - 1]][s[i]]
           T == {m \in Nat : m <= Len(s) => \E f : Upto(m, f)}
<1>0. Len(s) \in Nat /\ \A i \in 1..Len(s) : s[i] \in Chars
  OBVIOUS
<1>1. 0 \in T
  <2>1. Upto(0, [i \in 0..0 |-> start])
    OBVIOUS
  <2> QED  BY <2>1
<1>2. ASSUME NEW m \in Nat, m \in T PROVE m + 1 \in T
  <2> SUFFICES ASSUME m + 1 <= Len(s) PROVE \E g : Upto(m + 1, g)
    <3> HIDE DEF Upto
    <3> QED  OBVIOUS
  <2>1. m <= Len(s) /\ m + 1 \in 1..Len(s)
    BY <1>0
  <2>2. PICK f : Upto(m, f)
    BY <1>2, <2>1
  <2> DEFINE g == [i \in 0..m + 1 |-> IF i <= m THEN f[i] ELSE step[f[m]][s[m + 1]]]
  <2>3. f[m] \in States /\ s[m + 1] \in Chars /\ step[f[m]][s[m + 1]] \in States
    BY <1>0, <2>1, <2>2, SMTT(30)
  <2>4. g \in [0..m + 1 -> States]
    BY <2>2, <2>3
  <2>5. g[0] = start
    BY <2>2
  <2>6. ASSUME NEW i \in 1..m + 1 PROVE g[i] = step[g[i - 1]][s[i]]
    <3>1. CASE i <= m
      <4>1. i \in 1..m /\ i - 1 <= m /\ i \in 0..m + 1 /\ i - 1 \in 0..m + 1
        BY <3>1
      <4>2. g[i] = f[i] /\ g[i - 1] = f[i - 1]
        BY <4>1
      <4> QED  BY <2>2, <4>1, <4>2
    <3>2. CASE i = m + 1
      <4>1. i - 1 = m /\ m \in 0..m + 1 /\ m <= m /\ ~(m + 1 <= m) /\ m + 1 \in 0..m + 1
        BY <3>2
      <4>2. g[m] = f[m] /\ g[m + 1] = step[f[m]][s[m + 1]]
        BY <4>1
      <4> QED  BY <3>2, <4>1, <4>2
    <3> QED  BY <3>1, <3>2
  <2> HIDE DEF g
  <2> QED  BY <2>4, <2>5, <2>6
<1>3. Len(s) \in T
  <2> HIDE DEF T
  <2> QED  BY <1>0, <1>1, <1>2, Induction
<1>4. \E f : Upto(Len(s), f)
  <2> HIDE DEF Upto
  <2> QED  BY <1>0, <1>3
<1> QED  BY <1>4 DEF Loops

-----------------------------------------------------------------------------
(* The tokenizer.                                                          *)

\* What the tokenizer holds after each place of a text.
IsTokenizing(f, s) ==
  /\ f = [i \in 0..Len(s) |-> IF i = 0 THEN NoTokens ELSE TokenizeChar(f[i - 1], s[i])]

\* The tokenizer after a text.
After(s) == Reading(TokenizeChar, NoTokens, s)

LEMMA Tokenizing ==
  ASSUME NEW s \in Seq(Chars)
  PROVE  \E f : IsTokenizing(f, s) /\ After(s) = f[Len(s)]
<1> DEFINE Words == {Stem(w) : w \in Seq(Chars)}
           States == [tokens : Seq(Words), current : Seq(Chars)]
           step == [t \in States |-> [c \in Chars |-> TokenizeChar(t, c)]]
<1>1. ASSUME NEW t \in States, NEW c \in Chars PROVE TokenizeChar(t, c) \in States
  <2>0. Lower[c] \in Chars /\ t.current \in Seq(Chars) /\ t.tokens \in Seq(Words)
    BY TextAssumption
  <2>1. Append(t.current, Lower[c]) \in Seq(Chars)
    BY <2>0
  <2>2. Stem(t.current) \in Words
    OBVIOUS
  <2>3. << >> \in Seq(Chars)
    OBVIOUS
  <2> HIDE DEF Words
  <2>4. Flushed(t) \in States
    BY <2>0, <2>2, <2>3 DEF Flushed
  <2> QED  BY <2>0, <2>1, <2>4 DEF TokenizeChar
<1>2. NoTokens \in States
  BY DEF NoTokens
<1> HIDE DEF States
<1>3. step \in [States -> [Chars -> States]]
  BY <1>1
<1>4. \A t \in States, c \in Chars : step[t][c] = TokenizeChar(t, c)
  OBVIOUS
<1> HIDE DEF step
<1>5. PICK f \in [0..Len(s) -> States] : Loops(f, NoTokens, step, s)
  BY <1>2, <1>3, StateAfterEachPlace
<1>6. \A i \in 0..Len(s) : f[i] = IF i = 0 THEN NoTokens ELSE TokenizeChar(f[i - 1], s[i])
  <2>1. ASSUME NEW i \in 1..Len(s) PROVE f[i] = TokenizeChar(f[i - 1], s[i])
    <3>1. f[i - 1] \in States /\ s[i] \in Chars
      OBVIOUS
    <3> QED  BY <1>4, <1>5, <3>1 DEF Loops
  <2> QED  BY <1>5, <2>1 DEF Loops
<1>7. IsTokenizing(f, s)
  BY <1>6 DEF IsTokenizing
<1>8. After(s) = (CHOOSE g : IsTokenizing(g, s))[Len(s)]
  BY DEF After, Reading, IsTokenizing
<1> QED  BY <1>7, <1>8

\* Texts that begin alike are read alike as far as they do.
LEMMA ReadAlike ==
  ASSUME NEW s \in Seq(Chars), NEW t \in Seq(Chars), NEW f, IsTokenizing(f, s),
         NEW g, IsTokenizing(g, t), Len(s) <= Len(t), \A i \in 1..Len(s) : s[i] = t[i]
  PROVE  \A i \in 0..Len(s) : f[i] = g[i]
<1> DEFINE T == {m \in Nat : m <= Len(s) => f[m] = g[m]}
<1>0. Len(s) \in Nat /\ Len(t) \in Nat
  OBVIOUS
<1>1. 0 \in T
  BY <1>0 DEF IsTokenizing
<1>2. ASSUME NEW m \in Nat, m \in T PROVE m + 1 \in T
  <2> SUFFICES ASSUME m + 1 <= Len(s) PROVE f[m + 1] = g[m + 1]
    OBVIOUS
  <2>1. m + 1 \in 0..Len(s) /\ m + 1 \in 0..Len(t) /\ m + 1 # 0 /\ (m + 1) - 1 = m /\ m <= Len(s)
    BY <1>0
  <2>2. f[m + 1] = TokenizeChar(f[m], s[m + 1]) /\ g[m + 1] = TokenizeChar(g[m], t[m + 1])
    BY <2>1 DEF IsTokenizing
  <2>3. f[m] = g[m] /\ s[m + 1] = t[m + 1]
    BY <1>2, <2>1
  <2> QED  BY <2>2, <2>3
<1>3. Nat \subseteq T
  <2> HIDE DEF T
  <2> QED  BY <1>1, <1>2, Induction
<1> QED  BY <1>0, <1>3

\* One more character is one more step.
LEMMA AfterOneMore ==
  /\ After(<< >>) = NoTokens
  /\ \A s \in Seq(Chars), c \in Chars : After(Append(s, c)) = TokenizeChar(After(s), c)
<1>1. After(<< >>) = NoTokens
  <2>1. << >> \in Seq(Chars) /\ Len(<< >>) = 0
    OBVIOUS
  <2>2. PICK f : IsTokenizing(f, << >>) /\ After(<< >>) = f[Len(<< >>)]
    BY <2>1, Tokenizing
  <2> QED  BY <2>1, <2>2 DEF IsTokenizing
<1>2. ASSUME NEW s \in Seq(Chars), NEW c \in Chars
      PROVE  After(Append(s, c)) = TokenizeChar(After(s), c)
  <2> DEFINE t == Append(s, c)
  <2>1. /\ t \in Seq(Chars) /\ Len(t) = Len(s) + 1 /\ Len(s) \in Nat
        /\ t[Len(s) + 1] = c /\ \A i \in 1..Len(s) : s[i] = t[i]
    OBVIOUS
  <2> HIDE DEF t
  <2>2. PICK f : IsTokenizing(f, s) /\ After(s) = f[Len(s)]
    BY Tokenizing
  <2>3. PICK g : IsTokenizing(g, t) /\ After(t) = g[Len(t)]
    BY <2>1, Tokenizing
  <2>4. Len(s) <= Len(t) /\ Len(s) \in 0..Len(s)
    BY <2>1
  <2>5. f[Len(s)] = g[Len(s)]
    BY <2>1, <2>2, <2>3, <2>4, ReadAlike
  <2>6. g[Len(t)] = TokenizeChar(g[Len(s)], c)
    <3>1. Len(t) \in 0..Len(t) /\ Len(t) # 0 /\ Len(t) - 1 = Len(s) /\ t[Len(t)] = c
      BY <2>1
    <3> QED  BY <2>3, <3>1 DEF IsTokenizing
  <2> QED  BY <2>2, <2>3, <2>5, <2>6 DEF t
<1> QED  BY <1>1, <1>2

\* The end of a word is its end once and for all.
LEMMA FlushedTwice == \A t : Flushed(Flushed(t)) = Flushed(t)
  BY DEF Flushed

\* A character and its lower case do the same to the tokenizer.
LEMMA LowerCaseSameStep ==
  ASSUME NEW t, NEW ch \in Chars
  PROVE  TokenizeChar(t, Lower[ch]) = TokenizeChar(t, ch)
  BY TextAssumption DEF TokenizeChar

\* So does the one space that stands for all.
LEMMA SpaceEndsWord ==
  ASSUME NEW t, NEW ch \in Space
  PROVE  TokenizeChar(t, ch) = Flushed(t)
  BY TextAssumption DEF TokenizeChar

-----------------------------------------------------------------------------
(* The cache key.                                                          *)

\* What is appended is last.
LEMMA LastOfAppend ==
  ASSUME NEW s \in Seq(Chars), NEW ch \in Chars
  PROVE  Append(s, ch) \in Seq(Chars) /\ Append(s, ch) # << >> /\ Last(Append(s, ch)) = ch
<1>1. Append(s, ch) \in Seq(Chars) /\ Len(Append(s, ch)) = Len(s) + 1 /\ Len(s) \in Nat
  OBVIOUS
<1>2. Append(s, ch)[Len(s) + 1] = ch
  OBVIOUS
<1>3. Append(s, ch) # << >>
  BY <1>1
<1> QED BY <1>1, <1>2, <1>3 DEF Last

\* What normalizeCacheQuery holds after each place of a text.
IsNormalizing(f, s) ==
  f = [i \in 0..Len(s) |-> IF i = 0 THEN NothingRead ELSE NormalizeChar(f[i - 1], s[i])]

LEMMA Normalizing ==
  ASSUME NEW s \in Seq(Chars)
  PROVE  \E f : /\ IsNormalizing(f, s)
                /\ NormalizeCacheQuery(s) = WithoutLastSpace(f[Len(s)].text)
<1> DEFINE States == [text : Seq(Chars), previous_was_space : BOOLEAN]
           step == [n \in States |-> [c \in Chars |-> NormalizeChar(n, c)]]
<1>1. ASSUME NEW n \in States, NEW c \in Chars PROVE NormalizeChar(n, c) \in States
  <2>0. Lower[c] \in Chars /\ " " \in Chars /\ n.text \in Seq(Chars)
    BY TextAssumption
  <2>1. Append(n.text, Lower[c]) \in Seq(Chars) /\ Append(n.text, " ") \in Seq(Chars)
    BY <2>0, LastOfAppend
  <2> QED  BY <2>0, <2>1 DEF NormalizeChar
<1>2. NothingRead \in States
  BY DEF NothingRead
<1> HIDE DEF States
<1>3. step \in [States -> [Chars -> States]]
  BY <1>1
<1>4. \A n \in States, c \in Chars : step[n][c] = NormalizeChar(n, c)
  OBVIOUS
<1> HIDE DEF step
<1>5. PICK f \in [0..Len(s) -> States] : Loops(f, NothingRead, step, s)
  BY <1>2, <1>3, StateAfterEachPlace
<1>6. \A i \in 0..Len(s) : f[i] = IF i = 0 THEN NothingRead ELSE NormalizeChar(f[i - 1], s[i])
  <2>1. ASSUME NEW i \in 1..Len(s) PROVE f[i] = NormalizeChar(f[i - 1], s[i])
    <3>1. f[i - 1] \in States /\ s[i] \in Chars
      OBVIOUS
    <3> QED  BY <1>4, <1>5, <3>1 DEF Loops
  <2> QED  BY <1>5, <2>1 DEF Loops
<1>7. IsNormalizing(f, s)
  BY <1>6 DEF IsNormalizing
<1>8. NormalizeCacheQuery(s) = WithoutLastSpace((CHOOSE g : IsNormalizing(g, s))[Len(s)].text)
  BY DEF NormalizeCacheQuery, Reading, IsNormalizing
<1> QED  BY <1>7, <1>8

LEMMA FrontAndLast ==
  ASSUME NEW s \in Seq(Chars), s # << >>
  PROVE  /\ Front(s) \in Seq(Chars) /\ Last(s) \in Chars /\ s = Append(Front(s), Last(s))
         /\ \A i \in DOMAIN s : s[i] # Last(s) => i \in DOMAIN Front(s)
<1>1. Len(s) \in Nat /\ Len(s) # 0 /\ DOMAIN s = 1..Len(s)
  OBVIOUS
<1>2. Len(s) - 1 \in Nat /\ Len(s) \in 1..Len(s)
  BY <1>1
<1>3. /\ Front(s) \in Seq(Chars) /\ Len(Front(s)) = Len(s) - 1
      /\ DOMAIN Front(s) = 1..Len(s) - 1
      /\ \A i \in 1..Len(s) - 1 : Front(s)[i] = s[i]
  BY <1>1, <1>2 DEF Front
<1>4. Last(s) = s[Len(s)] /\ Last(s) \in Chars
  BY <1>2 DEF Last
<1> DEFINE t == Append(Front(s), Last(s))
<1>5. t \in Seq(Chars) /\ Len(t) = Len(s) /\ \A i \in 1..Len(s) : t[i] = s[i]
  <2> DEFINE h == Front(s)
  <2>1. h \in Seq(Chars) /\ Len(h) = Len(s) - 1 /\ \A i \in 1..Len(s) - 1 : h[i] = s[i]
    BY <1>3
  <2>2. t = Append(h, Last(s))
    OBVIOUS
  <2> HIDE DEF h, t
  <2>3. /\ t \in Seq(Chars) /\ Len(t) = Len(h) + 1 /\ t[Len(h) + 1] = Last(s)
        /\ \A i \in 1..Len(h) : t[i] = h[i]
    BY <1>4, <2>1, <2>2
  <2>4. Len(h) + 1 = Len(s)
    BY <1>1, <2>1
  <2>5. ASSUME NEW i \in 1..Len(s) PROVE t[i] = s[i]
    <3>1. CASE i = Len(s)
      BY <1>4, <2>3, <2>4, <3>1
    <3>2. CASE i # Len(s)
      <4>1. i \in 1..Len(s) - 1 /\ Len(h) = Len(s) - 1
        <5>1. Len(s) \in Nat /\ Len(h) = Len(s) - 1
          BY <1>1, <2>1
        <5> QED  BY <3>2, <5>1
      <4>2. i \in 1..Len(h)
        BY <4>1
      <4> QED  BY <2>1, <2>3, <4>1, <4>2
    <3> QED  BY <3>1, <3>2
  <2> QED  BY <2>3, <2>4, <2>5
<1> HIDE DEF t
<1>6. t = s
  BY <1>5
<1> QED  BY <1>1, <1>3, <1>4, <1>6 DEF t

\* Has a text a character that is no space?
Visible(s) == \E i \in DOMAIN s : s[i] \notin Space

LEMMA VisibleAppended ==
  ASSUME NEW s \in Seq(Chars), NEW ch \in Chars, ch \notin Space \/ Visible(s)
  PROVE  Visible(Append(s, ch))
<1>1. DOMAIN Append(s, ch) = 1..Len(s) + 1 /\ Len(s) \in Nat /\ DOMAIN s = 1..Len(s)
  OBVIOUS
<1>2. Append(s, ch)[Len(s) + 1] = ch /\ \A i \in 1..Len(s) : Append(s, ch)[i] = s[i]
  OBVIOUS
<1> QED  BY <1>1, <1>2 DEF Visible

\* A text and its cache key have the same words, and the key is empty only if there is
\* nothing but space in the text.
LEMMA WordsOfKey ==
  ASSUME NEW s \in Seq(Chars)
  PROVE  /\ Tokenize(NormalizeCacheQuery(s)) = Tokenize(s)
         /\ HasNonWhitespace(s) => NormalizeCacheQuery(s) # << >>
<1>1. PICK f : /\ IsNormalizing(f, s)
               /\ NormalizeCacheQuery(s) = WithoutLastSpace(f[Len(s)].text)
  BY Normalizing
<1>2. PICK g : IsTokenizing(g, s) /\ After(s) = g[Len(s)]
  BY Tokenizing
<1> DEFINE InStepAt(m) ==
             /\ f[m].text \in Seq(Chars) /\ f[m].previous_was_space \in BOOLEAN
             /\ After(f[m].text) = g[m]
             /\ f[m].previous_was_space => Flushed(g[m]) = g[m]
             /\ (\E j \in 1..m : s[j] \notin Space) => Visible(f[m].text)
           T == {m \in Nat : m <= Len(s) => InStepAt(m)}
<1>0. Len(s) \in Nat
  OBVIOUS
<1>3. 0 \in T
  <2>1. f[0] = NothingRead /\ g[0] = NoTokens
    BY <1>0, <1>1, <1>2 DEF IsNormalizing, IsTokenizing
  <2>2. InStepAt(0)
    BY <2>1, AfterOneMore DEF NothingRead, NoTokens, Flushed
  <2> QED  BY <2>2
<1>4. ASSUME NEW m \in Nat, m \in T PROVE m + 1 \in T
  <2> DEFINE c == s[m + 1]
             n == f[m]
             n2 == f[m + 1]
  <2> SUFFICES ASSUME m + 1 <= Len(s) PROVE InStepAt(m + 1)
    <3> HIDE DEF InStepAt
    <3> QED  OBVIOUS
  <2>1. m + 1 \in 0..Len(s) /\ m + 1 # 0 /\ (m + 1) - 1 = m /\ m <= Len(s) /\ c \in Chars
    BY <1>0
  <2>2. n2 = NormalizeChar(n, c) /\ g[m + 1] = TokenizeChar(g[m], c)
    BY <1>1, <1>2, <2>1 DEF IsNormalizing, IsTokenizing
  <2>3. InStepAt(m)
    <3> HIDE DEF InStepAt
    <3> QED  BY <1>4, <2>1
  <2>4. n.text \in Seq(Chars) /\ After(n.text) = g[m] /\ Lower[c] \in Chars /\ " " \in Space \cap Chars
    BY <2>1, <2>3, TextAssumption
  <2>5. (\E j \in 1..m + 1 : s[j] \notin Space) => c \notin Space \/ Visible(n.text)
    BY <2>1, <2>3
  <2>6. /\ n.previous_was_space \in BOOLEAN
        /\ n.previous_was_space => Flushed(g[m]) = g[m]
    BY <2>3
  <2> SUFFICES /\ n2.text \in Seq(Chars) /\ n2.previous_was_space \in BOOLEAN
               /\ After(n2.text) = g[m + 1]
               /\ n2.previous_was_space => Flushed(g[m + 1]) = g[m + 1]
               /\ c \notin Space \/ Visible(n.text) => Visible(n2.text)
    BY <2>5
  <2> HIDE DEF c, n, n2, InStepAt, T
  <2>7. CASE c \notin Space
    <3>1. n2.text = Append(n.text, Lower[c]) /\ n2.previous_was_space = FALSE
      BY <2>2, <2>7 DEF NormalizeChar
    <3>2. After(n2.text) = g[m + 1]
      BY <2>1, <2>2, <2>4, <3>1, AfterOneMore, LowerCaseSameStep, ZenonT(60)
    <3>3. Visible(n2.text)
      <4>1. Lower[c] \notin Space
        BY <2>1, <2>7, TextAssumption
      <4> QED  BY <2>4, <3>1, <4>1, VisibleAppended
    <3>4. n2.text \in Seq(Chars)
      BY <2>4, <3>1, LastOfAppend
    <3> QED  BY <3>1, <3>2, <3>3, <3>4
  <2>8. CASE c \in Space
    <3>1. n2.previous_was_space = TRUE /\ g[m + 1] = Flushed(g[m])
      BY <2>2, <2>8, SpaceEndsWord DEF NormalizeChar
    <3>2. Flushed(g[m + 1]) = g[m + 1]
      BY <3>1, FlushedTwice
    <3>3. CASE n.previous_was_space
      <4>1. n2.text = n.text
        BY <2>2, <2>8, <3>3 DEF NormalizeChar
      <4>2. g[m + 1] = g[m]
        BY <2>6, <3>1, <3>3
      <4> QED  BY <2>4, <2>8, <3>1, <3>2, <4>1, <4>2
    <3>4. CASE ~n.previous_was_space
      <4>1. n2.text = Append(n.text, " ")
        BY <2>2, <2>8, <3>4 DEF NormalizeChar
      <4>2. After(n2.text) = g[m + 1]
        <5>1. After(Append(n.text, " ")) = TokenizeChar(After(n.text), " ")
          BY <2>4, AfterOneMore
        <5>2. TokenizeChar(g[m], " ") = Flushed(g[m])
          BY <2>4, SpaceEndsWord
        <5> QED  BY <2>4, <3>1, <4>1, <5>1, <5>2
      <4>3. Visible(n.text) => Visible(n2.text)
        BY <2>4, <4>1, VisibleAppended
      <4>4. n2.text \in Seq(Chars)
        BY <2>4, <4>1, LastOfAppend
      <4> QED  BY <2>8, <3>1, <3>2, <4>2, <4>3, <4>4
    <3> QED  BY <3>3, <3>4
  <2> QED  BY <2>7, <2>8
<1>5. InStepAt(Len(s))
  <2> HIDE DEF InStepAt
  <2>1. Nat \subseteq T
    <3> HIDE DEF T
    <3> QED  BY <1>3, <1>4, Induction
  <2> QED  BY <1>0, <2>1
<1> DEFINE long == f[Len(s)].text
           key == NormalizeCacheQuery(s)
<1>6. /\ long \in Seq(Chars) /\ After(long) = After(s) /\ key = WithoutLastSpace(long)
      /\ HasNonWhitespace(s) => Visible(long)
  <2>1. HasNonWhitespace(s) => \E j \in 1..Len(s) : s[j] \notin Space
    BY DEF HasNonWhitespace
  <2> QED  BY <1>1, <1>2, <1>5, <2>1
<1> HIDE DEF long, key
<1>7. CASE long # << >> /\ Last(long) = " "
  <2>1. key = Front(long)
    BY <1>6, <1>7 DEF WithoutLastSpace
  <2>2. key \in Seq(Chars) /\ " " \in Chars /\ " " \in Space /\ long = Append(key, " ")
    <3>1. " " \in Space /\ " " \in Chars
      BY TextAssumption
    <3>2. Front(long) \in Seq(Chars) /\ long = Append(Front(long), Last(long))
      BY <1>6, <1>7, FrontAndLast
    <3> QED  BY <1>7, <2>1, <3>1, <3>2
  <2>3. After(long) = Flushed(After(key))
    <3>1. After(Append(key, " ")) = TokenizeChar(After(key), " ")
      BY <2>2, AfterOneMore
    <3> QED  BY <2>2, <3>1, SpaceEndsWord
  <2>4. Flushed(After(key)) = Flushed(After(s))
    BY <1>6, <2>3, FlushedTwice
  <2>5. Visible(long) => key # << >>
    <3> SUFFICES ASSUME NEW i \in DOMAIN long, long[i] \notin Space PROVE key # << >>
      BY DEF Visible
    <3>1. i \in DOMAIN Front(long)
      BY <1>6, <1>7, <2>2, FrontAndLast
    <3>2. DOMAIN << >> = {}
      OBVIOUS
    <3> QED  BY <2>1, <3>1, <3>2
  <2> QED  BY <1>6, <2>4, <2>5 DEF Tokenize, After, key
<1>8. CASE ~(long # << >> /\ Last(long) = " ")
  <2>1. key = long
    BY <1>6, <1>8 DEF WithoutLastSpace
  <2>2. Visible(long) => long # << >>
    BY DEF Visible
  <2> QED  BY <1>6, <2>1, <2>2 DEF Tokenize, After, key
<1> QED  BY <1>7, <1>8

-----------------------------------------------------------------------------
(* The reader.                                                             *)

\* The two tokenizers are in one state, except that a space that is kept back has
\* ended a word for the first and not yet for the second.
InStep ==
  /\ normalized.previous_was_space => raw = Flushed(cooked)
  /\ ~normalized.previous_was_space => raw = cooked
  /\ normalized.text = << >> => normalized.previous_was_space /\ cooked = NoTokens
  /\ normalized.previous_was_space \in BOOLEAN
  /\ normalized.text \in Seq(Chars)

LEMMA InStepInit == ReaderInit => InStep
  BY FlushedTwice DEF ReaderInit, InStep, NothingRead, NoTokens, Flushed

LEMMA InStepNext == InStep /\ [ReaderNext]_reader_vars => InStep'
<1> SUFFICES ASSUME InStep, [ReaderNext]_reader_vars PROVE InStep'
    OBVIOUS
<1>1. ASSUME NEW ch \in Chars, Read(ch) PROVE InStep'
  <2>1. CASE ch \in Space
    <3>1. normalized'.previous_was_space = TRUE /\ cooked' = cooked
      BY <1>1, <2>1 DEF Read, NormalizeChar
    <3>2. raw' = Flushed(raw)
      BY <1>1, <2>1, SpaceEndsWord DEF Read
    <3>3. raw' = Flushed(cooked)
      BY <3>2, FlushedTwice DEF InStep
    <3>4. \/ normalized'.text = normalized.text
          \/ normalized'.text = Append(normalized.text, " ")
      BY <1>1, <2>1 DEF Read, NormalizeChar
    <3>5. /\ normalized'.text \in Seq(Chars)
          /\ normalized'.text = << >> => normalized.text = << >>
      <4>1. normalized.text \in Seq(Chars) /\ " " \in Chars
        BY TextAssumption DEF InStep
      <4>2. /\ Append(normalized.text, " ") \in Seq(Chars)
            /\ Append(normalized.text, " ") # << >>
        BY <4>1, LastOfAppend
      <4> QED BY <3>4, <4>1, <4>2
    <3> QED BY <3>1, <3>3, <3>5 DEF InStep
  <2>2. CASE ch \notin Space
    <3>1. /\ normalized'.previous_was_space = FALSE
          /\ normalized'.text = Append(normalized.text, Lower[ch])
      BY <1>1, <2>2 DEF Read, NormalizeChar
    <3>2. AfterPendingSpace = raw
      <4>1. TokenizeChar(cooked, " ") = Flushed(cooked)
        BY SpaceEndsWord, TextAssumption
      <4>2. Flushed(NoTokens) = NoTokens
        BY DEF Flushed, NoTokens
      <4> QED BY <4>1, <4>2 DEF AfterPendingSpace, InStep
    <3>3. /\ normalized'.text \in Seq(Chars) /\ normalized'.text # << >>
          /\ Last(normalized'.text) = Lower[ch]
      <4>1. normalized.text \in Seq(Chars) /\ Lower[ch] \in Chars
        BY TextAssumption DEF InStep
      <4> QED BY <3>1, <4>1, LastOfAppend
    <3>4. raw' = TokenizeChar(raw, ch) /\ cooked' = TokenizeChar(raw, Lower[ch])
      BY <1>1, <3>1, <3>2, <3>3 DEF Read
    <3>5. raw' = cooked'
      BY <3>4, LowerCaseSameStep
    <3> QED BY <3>1, <3>3, <3>5 DEF InStep
  <2> QED BY <2>1, <2>2
<1>2. CASE NextText
  BY <1>2, FlushedTwice DEF NextText, InStep, NothingRead, NoTokens, Flushed
<1>3. CASE UNCHANGED reader_vars
  BY <1>3 DEF reader_vars, InStep
<1> QED BY <1>1, <1>2, <1>3 DEF ReaderNext

\* A text and its cache key have the same words: what SearchService assumes of the
\* engine (SameWordsAssumption) is so because the engine reads nothing but words.
THEOREM KeysHaveTheSameWords == ReaderSpec => []SameWords
<1>1. InStep => SameWords
  BY FlushedTwice DEF InStep, SameWords
<1> QED BY <1>1, InStepInit, InStepNext, PTL DEF ReaderSpec

-----------------------------------------------------------------------------
(* The steps of the benchmark, by what they change.                        *)

\* The reader sees characters come and texts begin; so does it in the benchmark.
LEMMA StepOfReader == [Next]_vars => [ReaderNext]_reader_vars
<1> SUFFICES ASSUME [Next]_vars PROVE [ReaderNext]_reader_vars
  OBVIOUS
<1>1. CASE ReadChar
  BY <1>1 DEF ReadChar, ReaderNext
<1>2. CASE EndOfLine \/ EndOfFile
  BY <1>2 DEF EndOfLine, EndOfFile, ReaderNext
<1>3. CASE Configure \/ Start \/ UncachedPass \/ WarmupPass \/ CachedPass
  BY <1>3 DEF Configure, Start, UncachedPass, WarmupPass, CachedPass
<1>4. CASE Done \/ UNCHANGED vars
  BY <1>4 DEF Done, vars
<1> QED  BY <1>1, <1>2, <1>3, <1>4 DEF Next

\* While a query file is read, each of its lines and its cache key have the same words
\* as far as they have been read.
THEOREM LinesKeepTheirWords == Spec => []SameWords
<1>1. Init => InStep
  BY InStepInit DEF Init
<1>2. InStep => SameWords
  BY FlushedTwice DEF InStep, SameWords
<1> QED  BY <1>1, <1>2, InStepNext, StepOfReader, PTL DEF Spec

-----------------------------------------------------------------------------
(* The queries.                                                            *)

QueriesRight ==
  /\ text \in Seq(Chars)
  /\ queries \in Seq(Seq(Chars))
  /\ \A i \in DOMAIN queries : HasNonWhitespace(queries[i])

LEMMA WithLineRight ==
  ASSUME QueriesRight
  PROVE  /\ WithLine \in Seq(Seq(Chars))
         /\ \A i \in DOMAIN WithLine : HasNonWhitespace(WithLine[i])
<1>1. CASE ~IsQuery(text)
  BY <1>1 DEF QueriesRight, WithLine
<1>2. CASE IsQuery(text)
  <2>1. WithLine = Append(queries, text) /\ HasNonWhitespace(text)
    BY <1>2 DEF WithLine, IsQuery
  <2>2. queries \in Seq(Seq(Chars)) /\ text \in Seq(Chars)
    BY DEF QueriesRight
  <2> DEFINE q == Append(queries, text)
  <2>3. /\ q \in Seq(Seq(Chars)) /\ DOMAIN q = 1..Len(queries) + 1
        /\ q[Len(queries) + 1] = text /\ \A i \in 1..Len(queries) : q[i] = queries[i]
        /\ DOMAIN queries = 1..Len(queries) /\ Len(queries) \in Nat
    BY <2>2
  <2> HIDE DEF q
  <2>4. ASSUME NEW i \in DOMAIN q PROVE HasNonWhitespace(q[i])
    <3>1. i \in DOMAIN queries \/ i = Len(queries) + 1
      BY <2>3
    <3> QED  BY <2>1, <2>3, <3>1 DEF QueriesRight
  <2> QED  BY <2>1, <2>3, <2>4 DEF q
<1> QED  BY <1>1, <1>2

LEMMA QueriesInductive ==
  /\ Init => QueriesRight
  /\ QueriesRight /\ [Next]_vars => QueriesRight'
<1>1. Init => QueriesRight
  BY DEF Init, ReaderInit, QueriesRight
<1>2. ASSUME QueriesRight, [Next]_vars PROVE QueriesRight'
  <2>1. CASE ReadChar
    <3>1. PICK ch \in Chars : text' = Append(text, ch)
      BY <2>1 DEF ReadChar, Read
    <3>2. text' \in Seq(Chars)
      BY <1>2, <3>1, LastOfAppend DEF QueriesRight
    <3> QED  BY <1>2, <2>1, <3>2 DEF ReadChar, QueriesRight
  <2>2. CASE EndOfLine \/ EndOfFile
    <3>1. queries' = WithLine /\ text' = << >>
      BY <2>2 DEF EndOfLine, EndOfFile, NextText
    <3> QED  BY <1>2, <3>1, WithLineRight DEF QueriesRight
  <2>3. CASE Start
    <3>1. text' = text /\ (queries' = queries \/ queries' = DefaultQueries)
      BY <2>3 DEF Start, reader_vars
    <3> QED  BY <1>2, <3>1, BenchmarkAssumption DEF QueriesRight
  <2>4. CASE Configure \/ UncachedPass \/ WarmupPass \/ CachedPass \/ Done \/ UNCHANGED vars
    <3>1. UNCHANGED <<text, queries>>
      BY <2>4 DEF Configure, UncachedPass, WarmupPass, CachedPass, Done, vars, reader_vars,
                  bench_vars
    <3> QED  BY <1>2, <3>1 DEF QueriesRight
  <2> QED  BY <1>2, <2>1, <2>2, <2>3, <2>4 DEF Next
<1> QED  BY <1>1, <1>2

\* The benchmark searches the cache key of a query: every query, of a file or of the
\* program, keeps its words by that, and none is searched for nothing.
THEOREM QueriesKeepTheirWords == Spec => []SearchedForItsWords
<1>1. QueriesRight => SearchedForItsWords
  <2> SUFFICES ASSUME QueriesRight, NEW i \in DOMAIN queries
               PROVE  /\ NormalizeCacheQuery(queries[i]) # << >>
                      /\ Tokenize(NormalizeCacheQuery(queries[i])) = Tokenize(queries[i])
    BY DEF SearchedForItsWords
  <2>1. queries[i] \in Seq(Chars) /\ HasNonWhitespace(queries[i])
    BY DEF QueriesRight
  <2> QED  BY <2>1, WordsOfKey
<1> QED  BY <1>1, QueriesInductive, PTL DEF Spec

-----------------------------------------------------------------------------
(* The counts of the loops.                                                *)

Counted ==
  /\ pass \in {"starting", "reading", "uncached", "warmup", "cached", "done"}
  /\ next \in Nat /\ hits \in Nat /\ misses \in Nat
  /\ pass \in {"starting", "reading"} =>
       next = 1 /\ timed = [uncached |-> 0, cached |-> 0] /\ hits = 0 /\ misses = 0
  /\ pass \in {"uncached", "warmup", "cached"} => next \in 1..Len(queries)
  /\ pass = "uncached" => timed = [uncached |-> next - 1, cached |-> 0] /\ hits = 0 /\ misses = 0
  /\ pass = "warmup" =>
       timed = [uncached |-> Len(queries), cached |-> 0] /\ hits + misses = next - 1
  /\ pass = "cached" =>
       /\ timed = [uncached |-> Len(queries), cached |-> next - 1]
       /\ hits + misses = Len(queries) + (next - 1)
  /\ pass = "done" =>
       /\ timed = [uncached |-> Len(queries), cached |-> Len(queries)]
       /\ hits + misses = 2 * Len(queries)

\* A search in the cache is counted once.
LEMMA LookupCounted ==
  ASSUME hits \in Nat, misses \in Nat, ExecuteCachedSearch
  PROVE  hits' \in Nat /\ misses' \in Nat /\ hits' + misses' = hits + misses + 1
  BY DEF ExecuteCachedSearch

\* The counts of the two loops that search the cache, and of the end.
LEMMA CountedAgain ==
  ASSUME next' \in Nat, hits' \in Nat, misses' \in Nat
  PROVE  /\ /\ pass' = "warmup" /\ next' \in 1..Len(queries')
            /\ timed' = [uncached |-> Len(queries'), cached |-> 0]
            /\ hits' + misses' = next' - 1
            => Counted'
         /\ /\ pass' = "cached" /\ next' \in 1..Len(queries')
            /\ timed' = [uncached |-> Len(queries'), cached |-> next' - 1]
            /\ hits' + misses' = Len(queries') + (next' - 1)
            => Counted'
         /\ /\ pass' = "done"
            /\ timed' = [uncached |-> Len(queries'), cached |-> Len(queries')]
            /\ hits' + misses' = 2 * Len(queries')
            => Counted'
  BY DEF Counted

\* A loop goes on to the next query, or ends with the last.
LEMMA Advances ==
  ASSUME NEW following, Advance(following)
  PROVE  \/ next = Len(queries) /\ pass' = following /\ next' = 1
         \/ next # Len(queries) /\ pass' = pass /\ next' = next + 1
  BY DEF Advance

LEMMA CountedInductive ==
  /\ Init => Counted
  /\ QueriesRight /\ Counted /\ [Next]_vars => Counted'
<1>1. Init => Counted
  BY DEF Init, Counted
<1>2. ASSUME QueriesRight, Counted, [Next]_vars PROVE Counted'
  <2>0. queries \in Seq(Seq(Chars)) /\ Len(queries) \in Nat
    BY <1>2 DEF QueriesRight
  <2>1. CASE Configure \/ ReadChar \/ Done \/ UNCHANGED vars
    <3>1. UNCHANGED bench_vars \/ UNCHANGED <<queries, pass, next, hits, misses, timed>>
      BY <2>1 DEF Configure, ReadChar, Done, vars
    <3> QED  BY <1>2, <3>1 DEF Counted, bench_vars
  <2>2. CASE Start
    <3>1. UNCHANGED <<next, timed, hits, misses>> /\ pass = "starting"
      BY <2>2 DEF Start
    <3>2. pass' = "reading" \/ (pass' = "uncached" /\ queries' = DefaultQueries)
      BY <2>2 DEF Start
    <3>3. 1 \in 1..Len(DefaultQueries)
      BY BenchmarkAssumption
    <3> QED  BY <1>2, <3>1, <3>2, <3>3 DEF Counted
  <2>3. CASE EndOfLine
    BY <1>2, <2>3 DEF EndOfLine, Counted
  <2>4. CASE EndOfFile
    <3>1. UNCHANGED <<next, timed, hits, misses>> /\ pass = "reading"
      BY <2>4 DEF EndOfFile
    <3>2. queries' \in Seq(Seq(Chars))
      BY <1>2, <2>4, WithLineRight DEF EndOfFile
    <3>3. CASE queries' = << >> /\ pass' = "done"
      BY <1>2, <3>1, <3>3 DEF Counted
    <3>4. CASE queries' # << >> /\ pass' = "uncached"
      <4>1. 1 \in 1..Len(queries')
        BY <3>2, <3>4
      <4> QED  BY <1>2, <3>1, <3>4, <4>1 DEF Counted
    <3> QED  BY <2>4, <3>3, <3>4 DEF EndOfFile
  <2>5. CASE UncachedPass
    <3>1. /\ pass = "uncached" /\ UNCHANGED <<queries, hits, misses>>
          /\ timed' = [timed EXCEPT !.uncached = @ + 1] /\ Advance("warmup")
      BY <2>5 DEF UncachedPass
    <3>2. /\ next \in 1..Len(queries) /\ timed = [uncached |-> next - 1, cached |-> 0]
          /\ hits = 0 /\ misses = 0
      BY <1>2, <3>1 DEF Counted
    <3>3. timed' = [uncached |-> next, cached |-> 0]
      BY <3>1, <3>2
    <3>4. CASE next = Len(queries) /\ pass' = "warmup" /\ next' = 1
      BY <2>0, <3>1, <3>2, <3>3, <3>4 DEF Counted
    <3>5. CASE next # Len(queries) /\ pass' = "uncached" /\ next' = next + 1
      BY <2>0, <3>1, <3>2, <3>3, <3>5 DEF Counted
    <3> QED  BY <3>1, <3>4, <3>5, Advances
  <2>6. CASE WarmupPass
    <3>1. /\ pass = "warmup" /\ queries' = queries /\ timed' = timed
          /\ ExecuteCachedSearch /\ Advance("cached")
      BY <2>6 DEF WarmupPass
    <3>2. /\ next \in 1..Len(queries) /\ timed = [uncached |-> Len(queries), cached |-> 0]
          /\ hits \in Nat /\ misses \in Nat /\ hits + misses = next - 1
      BY <1>2, <3>1 DEF Counted
    <3>3. hits' \in Nat /\ misses' \in Nat /\ hits' + misses' = hits + misses + 1
      BY <3>1, <3>2, LookupCounted
    <3>4. next \in Nat /\ hits' + misses' = next
      <4>1. next \in Nat
        BY <2>0, <3>2
      <4>2. (next - 1) + 1 = next
        BY <4>1
      <4> QED  BY <3>2, <3>3, <4>1, <4>2
    <3>5. CASE next = Len(queries) /\ pass' = "cached" /\ next' = 1
      <4>1. /\ next' \in Nat /\ next' \in 1..Len(queries) /\ next' - 1 = 0
            /\ Len(queries) + 0 = Len(queries)
        BY <2>0, <3>2, <3>5
      <4> QED  BY <3>1, <3>2, <3>3, <3>4, <3>5, <4>1, CountedAgain
    <3>6. CASE next # Len(queries) /\ pass' = "warmup" /\ next' = next + 1
      <4>1. next' \in Nat /\ next' \in 1..Len(queries) /\ next' - 1 = next
        BY <2>0, <3>2, <3>6
      <4> QED  BY <3>1, <3>2, <3>3, <3>4, <3>6, <4>1, CountedAgain
    <3> QED  BY <3>1, <3>5, <3>6, Advances
  <2>7. CASE CachedPass
    <3>1. /\ pass = "cached" /\ queries' = queries
          /\ timed' = [timed EXCEPT !.cached = @ + 1]
          /\ ExecuteCachedSearch /\ Advance("done")
      BY <2>7 DEF CachedPass
    <3>2. /\ next \in 1..Len(queries) /\ timed = [uncached |-> Len(queries), cached |-> next - 1]
          /\ hits \in Nat /\ misses \in Nat /\ hits + misses = Len(queries) + (next - 1)
      BY <1>2, <3>1 DEF Counted
    <3>3. hits' \in Nat /\ misses' \in Nat /\ hits' + misses' = hits + misses + 1
      BY <3>1, <3>2, LookupCounted
    <3>4. next \in Nat /\ hits' + misses' = Len(queries) + next
      <4>1. next \in Nat
        BY <2>0, <3>2
      <4>2. (Len(queries) + (next - 1)) + 1 = Len(queries) + next
        BY <2>0, <4>1
      <4> QED  BY <3>2, <3>3, <4>1, <4>2
    <3>5. timed' = [uncached |-> Len(queries), cached |-> next]
      BY <3>1, <3>2
    <3>6. CASE next = Len(queries) /\ pass' = "done" /\ next' = 1
      <4>1. next' \in Nat /\ Len(queries) + next = 2 * Len(queries)
        BY <2>0, <3>6
      <4> QED  BY <3>1, <3>3, <3>4, <3>5, <3>6, <4>1, CountedAgain
    <3>7. CASE next # Len(queries) /\ pass' = "cached" /\ next' = next + 1
      <4>1. next' \in Nat /\ next' \in 1..Len(queries) /\ next' - 1 = next
        BY <2>0, <3>2, <3>7
      <4> QED  BY <3>1, <3>3, <3>4, <3>5, <3>7, <4>1, CountedAgain
    <3> QED  BY <3>1, <3>6, <3>7, Advances
  <2> QED  BY <1>2, <2>1, <2>2, <2>3, <2>4, <2>5, <2>6, <2>7 DEF Next
<1> QED  BY <1>1, <1>2

\* Both timed loops time every query, and every lookup of the two cached loops is a
\* hit or a miss of the last line printed.
THEOREM EveryQueryIsTimed == Spec => []Reported
<1>1. Counted => Reported
  BY DEF Counted, Reported
<1> QED  BY <1>1, QueriesInductive, CountedInductive, PTL DEF Spec

-----------------------------------------------------------------------------
(* The cache of the benchmark.                                             *)

KeyAt(i) == NormalizeCacheQuery(queries[i])

CacheKeys == {NormalizeCacheQuery(s) : s \in Seq(Chars)}

\* The keys of the queries before a place.
KeysBefore(n) == {KeyAt(i) : i \in 1..n - 1}

\* The cache holds the keys that have been looked up, and each has been missed once.
Warm ==
  /\ cache \in Caches(CacheKeys, {AnAnswer}) /\ WellFormed(cache)
  /\ pass \in {"starting", "reading", "uncached"} => cache = Empty
  /\ Cardinality(Distinct) <= Capacity =>
       /\ Len(cache.order) = misses /\ Cardinality(cache.items) = misses
       /\ pass = "warmup" => cache.items = KeysBefore(next)
       /\ pass \in {"cached", "done"} => cache.items = Distinct

LEMMA DistinctKeysFinite ==
  ASSUME QueriesRight
  PROVE  IsFiniteSet(Distinct) /\ Cardinality(Distinct) \in Nat
<1> DEFINE key == [i \in 1..Len(queries) |-> KeyAt(i)]
<1>1. Len(queries) \in Nat /\ DOMAIN queries = 1..Len(queries)
  BY DEF QueriesRight
<1>2. key \in Surjection(1..Len(queries), Distinct)
  BY <1>1 DEF Surjection, Distinct, KeyAt
<1>3. IsFiniteSet(1..Len(queries))
  BY <1>1, FS_Interval
<1> HIDE DEF key
<1>4. IsFiniteSet(Distinct)
  BY <1>2, <1>3, FS_Surjection
<1> QED  BY <1>4, FS_CardinalityType

\* One lookup: a key that is there is found, and one that is not finds room, as long
\* as the cache has room for all keys.
LEMMA Lookup ==
  ASSUME QueriesRight, next \in 1..Len(queries), misses \in Nat,
         cache \in Caches(CacheKeys, {AnAnswer}), WellFormed(cache), ExecuteCachedSearch
  PROVE  /\ cache' \in Caches(CacheKeys, {AnAnswer}) /\ WellFormed(cache')
         /\ /\ Cardinality(Distinct) <= Capacity /\ cache.items \subseteq Distinct
            /\ Len(cache.order) = misses /\ Cardinality(cache.items) = misses
            => /\ cache'.items = cache.items \cup {Key}
               /\ Len(cache'.order) = misses' /\ Cardinality(cache'.items) = misses'
<1>1. queries[next] \in Seq(Chars) /\ next \in DOMAIN queries
  BY DEF QueriesRight
<1>2. Key \in CacheKeys /\ Key \in Distinct /\ AnAnswer \in {AnAnswer}
  BY <1>1 DEF Key, CacheKeys, Distinct
<1>3. CASE Has(cache, Key)
  <2>1. cache' = Touch(cache, Key) /\ misses' = misses
    BY <1>3 DEF ExecuteCachedSearch
  <2>2. /\ cache' \in Caches(CacheKeys, {AnAnswer}) /\ WellFormed(cache')
        /\ Len(cache'.order) = Len(cache.order)
    BY <1>3, <2>1, TouchPreserves
  <2>3. cache'.items = cache.items /\ Key \in cache.items
    BY <1>3, <2>1 DEF Touch, Has
  <2> QED  BY <2>1, <2>2, <2>3
<1>4. CASE ~Has(cache, Key)
  <2>1. cache' = Put(cache, Key, AnAnswer) /\ misses' = misses + 1
    BY <1>4 DEF ExecuteCachedSearch
  <2>2. cache' \in Caches(CacheKeys, {AnAnswer}) /\ WellFormed(cache')
    BY <1>2, <2>1, PutKeepsWellFormed
  <2>3. ASSUME Cardinality(Distinct) <= Capacity, cache.items \subseteq Distinct,
               Len(cache.order) = misses, Cardinality(cache.items) = misses
        PROVE  /\ cache'.items = cache.items \cup {Key}
               /\ Len(cache'.order) = misses + 1 /\ Cardinality(cache'.items) = misses + 1
    <3>1. IsFiniteSet(Distinct) /\ Cardinality(Distinct) \in Nat /\ IsFiniteSet(cache.items)
      BY <2>3, DistinctKeysFinite, FS_Subset
    <3>2. Key \notin cache.items
      BY <1>4 DEF Has
    <3> DEFINE more == cache.items \cup {Key}
    <3>3. IsFiniteSet(more) /\ Cardinality(more) = misses + 1
      BY <2>3, <3>1, <3>2, FS_AddElement
    <3>4. more \subseteq Distinct
      BY <1>2, <2>3
    <3> HIDE DEF more
    <3>5. misses + 1 <= Cardinality(Distinct)
      <4>1. Cardinality(more) <= Cardinality(Distinct)
        BY <3>1, <3>4, FS_Subset
      <4> QED  BY <3>3, <4>1
    <3>6. Len(cache.order) < Capacity /\ Capacity # 0
      BY <2>3, <3>1, <3>5, CapacityAssumption
    <3>7. cache' = Insert(cache, Key, AnAnswer)
      <4>1. ~Full(cache)
        BY <2>3, <3>6, CapacityAssumption DEF Full
      <4> QED  BY <1>4, <2>1, <3>6, <4>1 DEF Put
    <3>8. Len(cache'.order) = misses + 1
      <4>1. Consistent(cache)
        BY DEF WellFormed
      <4>2. Len(Insert(cache, Key, AnAnswer).order) = Len(cache.order) + 1
        BY <1>2, <1>4, <3>6, <4>1, InsertPreserves
      <4> QED  BY <2>3, <3>7, <4>2
    <3>9. cache'.items = more
      BY <3>7 DEF Insert, more
    <3> QED  BY <3>3, <3>8, <3>9 DEF more
  <2> QED  BY <2>1, <2>2, <2>3
<1> QED  BY <1>3, <1>4

LEMMA KeysSoFar ==
  ASSUME QueriesRight
  PROVE  /\ KeysBefore(1) = {}
         /\ \A n \in 1..Len(queries) :
              /\ KeysBefore(n) \subseteq Distinct
              /\ KeysBefore(n + 1) = KeysBefore(n) \cup {KeyAt(n)}
         /\ KeysBefore(Len(queries) + 1) = Distinct
<1>1. Len(queries) \in Nat /\ DOMAIN queries = 1..Len(queries)
  BY DEF QueriesRight
<1>2. KeysBefore(1) = {}
  BY DEF KeysBefore
<1>3. ASSUME NEW n \in 1..Len(queries)
      PROVE  /\ KeysBefore(n) \subseteq Distinct
             /\ KeysBefore(n + 1) = KeysBefore(n) \cup {KeyAt(n)}
  <2>1. 1..(n + 1) - 1 = (1..n - 1) \cup {n} /\ 1..n - 1 \subseteq 1..Len(queries)
    BY <1>1
  <2> QED  BY <1>1, <2>1 DEF KeysBefore, Distinct, KeyAt
<1>4. KeysBefore(Len(queries) + 1) = Distinct
  <2>1. (Len(queries) + 1) - 1 = Len(queries)
    BY <1>1
  <2> QED  BY <1>1, <2>1 DEF KeysBefore, Distinct, KeyAt
<1> QED  BY <1>2, <1>3, <1>4

LEMMA WarmInductive ==
  /\ Init => Warm
  /\ QueriesRight /\ QueriesRight' /\ Counted /\ Counted' /\ Warm /\ [Next]_vars => Warm'
<1>0. /\ Empty \in Caches(CacheKeys, {AnAnswer}) /\ WellFormed(Empty)
      /\ Len(Empty.order) = 0 /\ Empty.items = {} /\ Cardinality({}) = 0
  <2>1. Empty \in Caches(CacheKeys, {AnAnswer}) /\ Len(Empty.order) = 0 /\ Empty.items = {}
    BY DEF Empty, Caches
  <2>2. WellFormed(Empty)
    BY CapacityAssumption DEF Empty, WellFormed, Consistent, KeysOf
  <2> QED  BY <2>1, <2>2, FS_EmptySet
<1>1. Init => Warm
  BY <1>0 DEF Init, Warm
<1>2. ASSUME QueriesRight, QueriesRight', Counted, Counted', Warm, [Next]_vars PROVE Warm'
  \* Before the second loop the cache is empty.
  <2>1. ASSUME cache' = Empty, misses' = 0, pass' \in {"starting", "reading", "uncached"}
        PROVE  Warm'
    BY <1>0, <2>1 DEF Warm
  <2>2. CASE Configure \/ ReadChar \/ Done \/ UNCHANGED vars
    <3>1. UNCHANGED <<queries, pass, next, cache, misses>>
      BY <2>2 DEF Configure, ReadChar, Done, vars, bench_vars
    <3>2. Distinct' = Distinct /\ KeysBefore(next)' = KeysBefore(next)
      BY <3>1 DEF Distinct, KeysBefore, KeyAt
    <3> QED  BY <1>2, <3>1, <3>2 DEF Warm
  <2>3. CASE Start \/ EndOfLine
    <3>1. cache = Empty /\ misses = 0
      BY <1>2, <2>3 DEF Start, EndOfLine, Warm, Counted
    <3>2. UNCHANGED <<cache, misses>> /\ pass' \in {"reading", "uncached"}
      BY <2>3 DEF Start, EndOfLine
    <3> QED  BY <2>1, <3>1, <3>2
  <2>4. CASE EndOfFile
    <3>1. cache = Empty /\ misses = 0 /\ UNCHANGED <<cache, misses>>
      BY <1>2, <2>4 DEF EndOfFile, Warm, Counted
    <3>2. CASE pass' = "uncached"
      BY <2>1, <3>1, <3>2
    <3>3. CASE pass' = "done" /\ queries' = << >>
      <4>1. Distinct' = {}
        BY <3>3 DEF Distinct
      <4> QED  BY <1>0, <3>1, <3>3, <4>1 DEF Warm
    <3> QED  BY <2>4, <3>2, <3>3 DEF EndOfFile
  <2>5. CASE UncachedPass
    <3>1. cache = Empty /\ misses = 0 /\ UNCHANGED <<queries, cache, misses>>
      BY <1>2, <2>5 DEF UncachedPass, Warm, Counted
    <3>2. CASE pass' = "uncached"
      BY <2>1, <3>1, <3>2
    <3>3. CASE pass' = "warmup" /\ next' = 1
      <4>1. KeysBefore(next)' = {}
        BY <3>3 DEF KeysBefore
      <4> QED  BY <1>0, <3>1, <3>3, <4>1 DEF Warm
    <3>4. Advance("warmup") /\ pass = "uncached"
      BY <2>5 DEF UncachedPass
    <3> QED  BY <3>2, <3>3, <3>4, Advances
  <2>6. CASE WarmupPass \/ CachedPass
    <3>0. /\ pass \in {"warmup", "cached"} /\ UNCHANGED queries /\ ExecuteCachedSearch
          /\ pass = "warmup" => Advance("cached")
          /\ pass = "cached" => Advance("done")
      BY <2>6 DEF WarmupPass, CachedPass
    <3>1. next \in 1..Len(queries) /\ misses \in Nat /\ next \in Nat
      BY <1>2, <3>0 DEF Counted
    <3>2. Distinct' = Distinct /\ Key = KeyAt(next)
      BY <3>0 DEF Distinct, KeyAt, Key
    <3>3. cache' \in Caches(CacheKeys, {AnAnswer}) /\ WellFormed(cache')
      BY <1>2, <3>0, <3>1, Lookup DEF Warm
    <3>4. KeysBefore(next)' = {KeyAt(i) : i \in 1..next' - 1}
      BY <3>0 DEF KeysBefore, KeyAt
    <3>5. ASSUME Cardinality(Distinct) <= Capacity
          PROVE  /\ Len(cache'.order) = misses' /\ Cardinality(cache'.items) = misses'
                 /\ pass' = "warmup" => cache'.items = KeysBefore(next)'
                 /\ pass' \in {"cached", "done"} => cache'.items = Distinct
      <4>1. /\ Len(cache.order) = misses /\ Cardinality(cache.items) = misses
            /\ pass = "warmup" => cache.items = KeysBefore(next)
            /\ pass = "cached" => cache.items = Distinct
        BY <1>2, <3>5 DEF Warm
      <4>2. cache.items \subseteq Distinct
        BY <1>2, <3>0, <3>1, <4>1, KeysSoFar
      <4>3. /\ cache'.items = cache.items \cup {KeyAt(next)}
            /\ Len(cache'.order) = misses' /\ Cardinality(cache'.items) = misses'
        BY <1>2, <3>0, <3>1, <3>2, <3>5, <4>1, <4>2, Lookup DEF Warm
      <4>4. CASE pass = "warmup"
        <5>1. cache'.items = KeysBefore(next + 1)
          BY <1>2, <3>1, <4>1, <4>3, <4>4, KeysSoFar
        <5>2. CASE next = Len(queries) /\ pass' = "cached"
          BY <1>2, <4>3, <5>1, <5>2, KeysSoFar
        <5>3. CASE next # Len(queries) /\ pass' = pass /\ next' = next + 1
          <6>1. KeysBefore(next)' = KeysBefore(next + 1)
            BY <3>4, <5>3 DEF KeysBefore
          <6> QED  BY <4>3, <4>4, <5>1, <5>3, <6>1
        <5> QED  BY <3>0, <4>4, <5>2, <5>3, Advances
      <4>5. CASE pass = "cached"
        <5>1. KeyAt(next) \in Distinct
          <6>1. queries \in Seq(Seq(Chars))
            BY <1>2 DEF QueriesRight
          <6>2. next \in DOMAIN queries
            BY <3>1, <6>1
          <6> QED  BY <6>2 DEF Distinct, KeyAt
        <5>2. pass' \in {"cached", "done"}
          BY <3>0, <4>5, Advances
        <5> QED  BY <4>1, <4>3, <4>5, <5>1, <5>2
      <4> QED  BY <3>0, <4>4, <4>5
    <3>6. pass' \notin {"starting", "reading", "uncached"}
      BY <3>0, Advances
    <3> QED  BY <3>2, <3>3, <3>5, <3>6 DEF Warm
  <2> QED  BY <1>2, <2>2, <2>3, <2>4, <2>5, <2>6 DEF Next
<1> QED  BY <1>1, <1>2

\* If the cache has room for the distinct queries, warming misses each of them once
\* and the timed loop never.
THEOREM WarmingMissesOnce == Spec => []WarmWhenItFits
<1>1. QueriesRight /\ Counted /\ Warm => WarmWhenItFits
  <2> SUFFICES ASSUME QueriesRight, Counted, Warm, Cardinality(Distinct) <= Capacity
               PROVE  /\ misses <= Cardinality(Distinct)
                      /\ pass = "done" => misses = Cardinality(Distinct)
    BY DEF WarmWhenItFits
  <2>1. Cardinality(cache.items) = misses /\ misses \in Nat
    BY DEF Warm, Counted
  <2>2. IsFiniteSet(Distinct) /\ Cardinality(Distinct) \in Nat
    BY DistinctKeysFinite
  <2>3. cache.items \subseteq Distinct
    <3>1. CASE pass \in {"starting", "reading", "uncached"}
      BY <3>1 DEF Warm, Empty
    <3>2. CASE pass = "warmup"
      BY <3>2, KeysSoFar DEF Warm, Counted
    <3>3. CASE pass \in {"cached", "done"}
      BY <3>3 DEF Warm
    <3> QED  BY <3>1, <3>2, <3>3 DEF Counted
  <2>4. misses <= Cardinality(Distinct)
    BY <2>1, <2>2, <2>3, FS_Subset
  <2>5. pass = "done" => misses = Cardinality(Distinct)
    BY <2>1 DEF Warm
  <2> QED  BY <2>4, <2>5
<1> QED  BY <1>1, QueriesInductive, CountedInductive, WarmInductive, PTL DEF Spec

-----------------------------------------------------------------------------
(* The command line.                                                       *)

\* The strings.  (The provers do not know of a literal that it is one.)
Word ==
  STRING \cup {"", Unset, "--recompute-pagerank", "--dump", "--max-docs"}

\* What ConfigAssumption says of the constants.
LEMMA ConstantWords ==
  /\ CommandLines \subseteq Seq(Word)
  /\ Environments \subseteq [dump_path : Word \ {"--help"}, max_docs : Word,
                             compute_pagerank : Word]
  /\ DefaultDump \in Word \ {"--help"}
  /\ DOMAIN Numerals \subseteq Word \ {"--help"}
<1>1. STRING \subseteq Word
  BY DEF Word
<1>2. CommandLines \subseteq Seq(Word)
  <2>1. ASSUME NEW s \in Seq(STRING) PROVE s \in Seq(Word)
    <3>1. Len(s) \in Nat /\ s \in [1..Len(s) -> STRING]
      OBVIOUS
    <3>2. s \in [1..Len(s) -> Word]
      BY <1>1, <3>1
    <3> QED  BY <3>1, <3>2
  <2>2. CommandLines \subseteq Seq(STRING)
    BY ConfigAssumption
  <2> QED  BY <2>1, <2>2
<1>3. Environments \subseteq [dump_path : Word \ {"--help"}, max_docs : Word,
                             compute_pagerank : Word]
  BY <1>1, ConfigAssumption
<1> QED  BY <1>1, <1>2, <1>3, ConfigAssumption

\* Lines of one word, and of two.
LEMMA ShortLines ==
  ASSUME NEW S, NEW w \in S, NEW v \in S
  PROVE  /\ <<w>> \in Seq(S) /\ Len(<<w>>) = 1 /\ <<w>>[1] = w
         /\ <<w, v>> \in Seq(S) /\ Len(<<w, v>>) = 2
         /\ <<w, v>>[1] = w /\ <<w, v>>[2] = v
  OBVIOUS

LEMMA LiteralWords ==
  /\ "" \in Word /\ Unset \in Word \ {"--help"}
  /\ "--recompute-pagerank" \in Word \ {"--help"}
  /\ "--dump" \in Word \ {"--help"} /\ "--max-docs" \in Word \ {"--help"}
  BY DEF Word, Unset

Settings ==
  [dump_path : Word, dump_path_overridden : BOOLEAN, max_docs : Nat,
   compute_pagerank_during_index : BOOLEAN, recompute_pagerank_only : BOOLEAN,
   benchmark_only : BOOLEAN, profile_indexing : BOOLEAN, benchmark_queries_path : Word]

\* A number of documents that was given, or none was.
Numbered(limit) == limit = 0 \/ \E word \in DOMAIN Numerals : Numerals[word] = limit

EnvOverrides == environment.dump_path \notin {Unset, ""}

EnvLimit ==
  IF environment.max_docs \in DOMAIN Numerals THEN Numerals[environment.max_docs] ELSE 0

ConfigTypes ==
  /\ environment \in [dump_path : Word \ {"--help"}, max_docs : Word,
                      compute_pagerank : Word]
  /\ argv \in Seq(Word) /\ config \in Settings /\ hinted \in BOOLEAN
  /\ status \in {"called", "parsing", "refused", "configured", "indexed", "running"}

\* What has been read of the input: a dump of another path has been named, and a limit
\* has been a numeral.
InputRead ==
  status \in {"parsing", "configured", "indexed"} =>
    /\ KnownLimit
    /\ \A i \in DOMAIN argv : argv[i] # "--help"
    /\ config.dump_path # "--help"
    /\ ~config.dump_path_overridden => config.dump_path = DefaultDump
    /\ EnvOverrides => config.dump_path_overridden
    /\ Numbered(config.max_docs)

LEMMA SettingsOf ==
  ASSUME NEW path \in Word, NEW over \in BOOLEAN, NEW limit \in Nat, NEW a \in BOOLEAN,
         NEW b \in BOOLEAN, NEW c \in BOOLEAN, NEW d \in BOOLEAN, NEW file \in Word
  PROVE  [dump_path |-> path, dump_path_overridden |-> over, max_docs |-> limit,
          compute_pagerank_during_index |-> a, recompute_pagerank_only |-> b,
          benchmark_only |-> c, profile_indexing |-> d, benchmark_queries_path |-> file]
            \in Settings
  BY DEF Settings

LEMMA DefaultSettings ==
  /\ DefaultConfig \in Settings
  /\ DefaultConfig.dump_path = DefaultDump /\ DefaultConfig.dump_path # "--help"
  /\ DefaultConfig.dump_path_overridden = FALSE /\ DefaultConfig.max_docs = 0
<1>1. DefaultConfig \in Settings
  <2>1. DefaultDump \in Word
    BY ConfigAssumption, ConstantWords
  <2>2. FALSE \in BOOLEAN
    OBVIOUS
  <2>3. 0 \in Nat
    OBVIOUS
  <2>4. "" \in Word
    BY LiteralWords
  <2> QED  BY <2>1, <2>2, <2>3, <2>4, SettingsOf DEF DefaultConfig
<1>2. /\ DefaultConfig.dump_path = DefaultDump
      /\ DefaultConfig.dump_path_overridden = FALSE /\ DefaultConfig.max_docs = 0
  BY DEF DefaultConfig
<1>3. DefaultDump # "--help"
  BY ConfigAssumption, ConstantWords
<1> QED  BY <1>1, <1>2, <1>3

\* The environment is read into the settings.
LEMMA EnvironmentRead ==
  ASSUME ConfigTypes, ReadEnvironment
  PROVE  /\ config' \in Settings /\ UNCHANGED <<environment, argv, hinted, indexed>>
         /\ status = "called" /\ config'.max_docs = EnvLimit /\ Numbered(EnvLimit)
         /\ config'.dump_path_overridden = EnvOverrides /\ config'.dump_path # "--help"
         /\ ~EnvOverrides => config'.dump_path = DefaultDump
         /\ status' = IF "--help" \in Range(argv) \/ ~KnownLimit THEN "refused" ELSE "parsing"
<1> DEFINE dump == IF environment.dump_path \in {Unset, ""} THEN DefaultDump
                   ELSE environment.dump_path
           ranks == environment.compute_pagerank \in Truths
<1>1. config' =
        [dump_path |-> dump, dump_path_overridden |-> EnvOverrides, max_docs |-> EnvLimit,
         compute_pagerank_during_index |-> ranks, recompute_pagerank_only |-> FALSE,
         benchmark_only |-> FALSE, profile_indexing |-> FALSE, benchmark_queries_path |-> ""]
  BY DEF ReadEnvironment, DefaultConfig, EnvOverrides, EnvLimit
<1>2. dump \in Word \ {"--help"} /\ (~EnvOverrides => dump = DefaultDump)
  BY ConfigAssumption, ConstantWords DEF ConfigTypes, EnvOverrides
<1>3. EnvLimit \in Nat /\ Numbered(EnvLimit)
  BY ConfigAssumption, ConstantWords DEF EnvLimit, Numbered
<1>4. EnvOverrides \in BOOLEAN /\ ranks \in BOOLEAN
  BY DEF EnvOverrides
<1> HIDE DEF dump, ranks
<1>5. config' \in Settings
  <2>1. dump \in Word
    BY <1>2
  <2>2. FALSE \in BOOLEAN
    OBVIOUS
  <2>3. "" \in Word
    BY LiteralWords
  <2> QED  BY <1>1, <1>3, <1>4, <2>1, <2>2, <2>3, SettingsOf
<1>6. /\ config'.dump_path = dump /\ config'.dump_path_overridden = EnvOverrides
      /\ config'.max_docs = EnvLimit
  BY <1>1
<1>7. /\ UNCHANGED <<environment, argv, hinted, indexed>> /\ status = "called"
      /\ status' = IF "--help" \in Range(argv) \/ ~KnownLimit THEN "refused" ELSE "parsing"
  BY DEF ReadEnvironment
<1> QED  BY <1>2, <1>3, <1>5, <1>6, <1>7

\* A switch leaves the dump and the limit alone.
LEMMA SwitchRead ==
  ASSUME config \in Settings, NEW option \in DOMAIN Switches,
         NEW c, c = [config EXCEPT ![Switches[option]] = TRUE]
  PROVE  /\ c \in Settings
         /\ c.dump_path = config.dump_path /\ c.max_docs = config.max_docs
         /\ c.dump_path_overridden = config.dump_path_overridden
         /\ config.recompute_pagerank_only \/ option = "--recompute-pagerank"
              => c.recompute_pagerank_only
<1>1. CASE option = "--compute-pagerank"
  <2>1. c = [config EXCEPT !.compute_pagerank_during_index = TRUE]
    BY <1>1 DEF Switches
  <2> QED  BY <1>1, <2>1 DEF Settings
<1>2. CASE option = "--recompute-pagerank"
  <2>1. c = [config EXCEPT !.recompute_pagerank_only = TRUE]
    BY <1>2 DEF Switches
  <2> QED  BY <1>2, <2>1 DEF Settings
<1>3. CASE option = "--benchmark"
  <2>1. c = [config EXCEPT !.benchmark_only = TRUE]
    BY <1>3 DEF Switches
  <2> QED  BY <1>3, <2>1 DEF Settings
<1>4. CASE option = "--profile-indexing"
  <2>1. c = [config EXCEPT !.profile_indexing = TRUE]
    BY <1>4 DEF Switches
  <2> QED  BY <1>4, <2>1 DEF Settings
<1> QED  BY <1>1, <1>2, <1>3, <1>4 DEF Switches

\* The words that are left when some have been read.
LEMMA WordsLeft ==
  ASSUME NEW s \in Seq(Word), NEW k \in 1..2, k <= Len(s)
  PROVE  /\ SubSeq(s, k + 1, Len(s)) \in Seq(Word)
         /\ (\A i \in DOMAIN s : s[i] # "--help") =>
              LET t == SubSeq(s, k + 1, Len(s)) IN \A i \in DOMAIN t : t[i] # "--help"
<1> DEFINE t == SubSeq(s, k + 1, Len(s))
<1>1. Len(s) \in Nat /\ DOMAIN s = 1..Len(s)
  OBVIOUS
<1>2. /\ t \in Seq(Word) /\ DOMAIN t = 1..Len(s) - k
      /\ \A i \in 1..Len(s) - k : t[i] = s[i + k]
  BY <1>1
<1> HIDE DEF t
<1>3. \A i \in DOMAIN t : i + k \in DOMAIN s
  BY <1>1, <1>2
<1> QED  BY <1>2, <1>3 DEF t

\* The settings of a dump, a limit or a query file that has been named.
LEMMA ValueRead ==
  ASSUME config \in Settings, NEW word \in Word, NEW limit \in Nat
  PROVE  /\ [config EXCEPT !.dump_path = word, !.dump_path_overridden = TRUE] \in Settings
         /\ [config EXCEPT !.max_docs = limit] \in Settings
         /\ [config EXCEPT !.benchmark_queries_path = word] \in Settings
<1>1. TRUE \in BOOLEAN
  OBVIOUS
<1>2. [config EXCEPT !.max_docs = limit] \in Settings
  BY DEF Settings
<1>3. [config EXCEPT !.benchmark_queries_path = word] \in Settings
  BY DEF Settings
<1>4. [config EXCEPT !.dump_path = word, !.dump_path_overridden = TRUE] \in Settings
  BY <1>1 DEF Settings
<1> QED  BY <1>2, <1>3, <1>4

Input == ConfigTypes /\ InputRead

LEMMA InputInit == Init => Input
<1> SUFFICES ASSUME Init PROVE Input
  OBVIOUS
<1>1. environment \in Environments /\ argv \in CommandLines /\ config = DefaultConfig
      /\ status = "called" /\ hinted = FALSE
  BY DEF Init, ConfigInit
<1>2. environment \in [dump_path : Word \ {"--help"}, max_docs : Word,
                       compute_pagerank : Word] /\ argv \in Seq(Word)
  BY <1>1, ConfigAssumption, ConstantWords
<1>3. ConfigTypes
  BY <1>1, <1>2, DefaultSettings DEF ConfigTypes
<1> QED  BY <1>1, <1>3 DEF Input, InputRead

\* One word, or an option and its value, is read.
LEMMA ArgumentRead ==
  ASSUME Input, ReadArgument PROVE Input'
<1>1. /\ argv \in Seq(Word) /\ argv # << >> /\ status = "parsing" /\ config \in Settings
      /\ UNCHANGED <<environment, hinted, indexed>> /\ hinted \in BOOLEAN
      /\ environment \in [dump_path : Word \ {"--help"}, max_docs : Word,
                          compute_pagerank : Word]
  BY DEF Input, ConfigTypes, ReadArgument
<1>2. Len(argv) \in Nat /\ Len(argv) >= 1 /\ DOMAIN argv = 1..Len(argv) /\ argv[1] \in Word
  BY <1>1
<1>3. /\ KnownLimit /\ \A i \in DOMAIN argv : argv[i] # "--help"
      /\ config.dump_path # "--help"
      /\ ~config.dump_path_overridden => config.dump_path = DefaultDump
      /\ EnvOverrides => config.dump_path_overridden
      /\ Numbered(config.max_docs)
  BY <1>1 DEF Input, InputRead
<1>4. KnownLimit' = KnownLimit /\ EnvOverrides' = EnvOverrides
      /\ \A n : Numbered(n)' = Numbered(n)
  BY <1>1 DEF KnownLimit, EnvOverrides, Numbered
<1>5. ASSUME NEW k \in 1..2, k <= Len(argv), NEW c \in Settings, Takes(k, c),
             c.dump_path # "--help", Numbered(c.max_docs),
             ~c.dump_path_overridden => c.dump_path = DefaultDump,
             EnvOverrides => c.dump_path_overridden
      PROVE  Input'
  <2>1. argv' \in Seq(Word) /\ \A i \in DOMAIN argv' : argv'[i] # "--help"
    BY <1>1, <1>3, <1>5, WordsLeft DEF Takes
  <2>2. status' = "parsing" /\ config' = c
    BY <1>1, <1>5 DEF Takes
  <2>3. ConfigTypes'
    BY <1>1, <1>5, <2>1, <2>2 DEF ConfigTypes
  <2>4. InputRead'
    BY <1>3, <1>4, <1>5, <2>1, <2>2 DEF InputRead
  <2> QED  BY <2>3, <2>4 DEF Input
<1>6. CASE argv[1] \in DOMAIN Switches
  <2> DEFINE c == [config EXCEPT ![Switches[argv[1]]] = TRUE]
  <2>1. Takes(1, c)
    BY <1>6 DEF ReadArgument
  <2>2. /\ c \in Settings /\ c.dump_path = config.dump_path /\ c.max_docs = config.max_docs
        /\ c.dump_path_overridden = config.dump_path_overridden
    BY <1>1, <1>6, SwitchRead
  <2> HIDE DEF c
  <2> QED  BY <1>2, <1>3, <1>5, <2>1, <2>2
<1>7. CASE argv[1] \notin DOMAIN Switches /\ Len(argv) > 1
  <2>1. argv[2] \in Word /\ 2 <= Len(argv) /\ argv[2] # "--help"
    BY <1>1, <1>2, <1>3, <1>7
  <2>2. CASE Given("--dump")
    <3> DEFINE c == [config EXCEPT !.dump_path = argv[2], !.dump_path_overridden = TRUE]
    <3>1. Takes(2, c)
      BY <1>7, <2>2 DEF ReadArgument
    <3>2. c \in Settings
      BY <1>1, <2>1, ValueRead
    <3>3. c.dump_path = argv[2] /\ c.dump_path_overridden /\ c.max_docs = config.max_docs
      BY <1>1 DEF Settings
    <3> HIDE DEF c
    <3> QED  BY <1>3, <1>5, <2>1, <3>1, <3>2, <3>3
  <2>3. CASE ~Given("--dump") /\ Given("--max-docs") /\ argv[2] \in DOMAIN Numerals
    <3> DEFINE c == [config EXCEPT !.max_docs = Numerals[argv[2]]]
    <3>1. Takes(2, c)
      BY <1>7, <2>3 DEF ReadArgument
    <3>2. Numerals[argv[2]] \in Nat /\ Numbered(Numerals[argv[2]])
      BY <2>3, ConfigAssumption, ConstantWords DEF Numbered
    <3>3. c \in Settings
      BY <1>1, <2>1, <3>2, ValueRead
    <3>4. /\ c.dump_path = config.dump_path /\ c.max_docs = Numerals[argv[2]]
          /\ c.dump_path_overridden = config.dump_path_overridden
      BY <1>1 DEF Settings
    <3> HIDE DEF c
    <3> QED  BY <1>3, <1>5, <2>1, <3>1, <3>2, <3>3, <3>4
  <2>4. CASE /\ ~Given("--dump") /\ ~(Given("--max-docs") /\ argv[2] \in DOMAIN Numerals)
             /\ Given("--benchmark-queries")
    <3> DEFINE c == [config EXCEPT !.benchmark_queries_path = argv[2]]
    <3>1. Takes(2, c)
      BY <1>7, <2>4 DEF ReadArgument
    <3>2. c \in Settings
      BY <1>1, <2>1, ValueRead
    <3>3. /\ c.dump_path = config.dump_path /\ c.max_docs = config.max_docs
          /\ c.dump_path_overridden = config.dump_path_overridden
      BY <1>1 DEF Settings
    <3> HIDE DEF c
    <3> QED  BY <1>3, <1>5, <2>1, <3>1, <3>2, <3>3
  <2>5. CASE /\ ~Given("--dump") /\ ~(Given("--max-docs") /\ argv[2] \in DOMAIN Numerals)
             /\ ~Given("--benchmark-queries")
    <3>1. status' = "refused" /\ UNCHANGED <<argv, config>>
      BY <1>7, <2>5 DEF ReadArgument
    <3> QED  BY <1>1, <3>1 DEF Input, ConfigTypes, InputRead
  <2> QED  BY <2>2, <2>3, <2>4, <2>5
<1>8. CASE argv[1] \notin DOMAIN Switches /\ ~(Len(argv) > 1)
  <2>1. status' = "refused" /\ UNCHANGED <<argv, config>>
    BY <1>8 DEF ReadArgument, Given
  <2> QED  BY <1>1, <2>1 DEF Input, ConfigTypes, InputRead
<1> QED  BY <1>6, <1>7, <1>8

\* The words of the command printed.
DumpWords(path, over) == IF over THEN <<"--dump", path>> ELSE << >>

NumeralOf(limit) == CHOOSE word \in DOMAIN Numerals : Numerals[word] = limit

LimitWords(limit) == IF limit > 0 THEN <<"--max-docs", NumeralOf(limit)>> ELSE << >>

LEMMA HintWords ==
  ASSUME NEW path \in Word \ {"--help"}, NEW over \in BOOLEAN, NEW limit \in Nat,
         Numbered(limit)
  PROVE  /\ limit > 0 => /\ NumeralOf(limit) \in DOMAIN Numerals
                         /\ Numerals[NumeralOf(limit)] = limit
                         /\ NumeralOf(limit) \in Word \ {"--help"}
         /\ DumpWords(path, over) \in Seq(Word) /\ LimitWords(limit) \in Seq(Word)
<1>1. limit > 0 => /\ NumeralOf(limit) \in DOMAIN Numerals
                   /\ Numerals[NumeralOf(limit)] = limit
  BY DEF NumeralOf, Numbered
<1>2. limit > 0 => NumeralOf(limit) \in Word \ {"--help"}
  BY <1>1, ConfigAssumption, ConstantWords
<1>3. DumpWords(path, over) \in Seq(Word)
  <2>1. <<"--dump", path>> \in Seq(Word)
    BY LiteralWords, ShortLines
  <2> QED  BY <2>1 DEF DumpWords
<1>4. LimitWords(limit) \in Seq(Word)
  <2>1. CASE limit > 0
    <3>1. <<"--max-docs", NumeralOf(limit)>> \in Seq(Word)
      BY <1>2, <2>1, LiteralWords, ShortLines
    <3> QED  BY <2>1, <3>1 DEF LimitWords
  <2> QED  BY <2>1 DEF LimitWords
<1> QED  BY <1>1, <1>2, <1>3, <1>4

HintOf(path, over, limit) ==
  (<<"--recompute-pagerank">> \o DumpWords(path, over)) \o LimitWords(limit)

LEMMA HintIsOfConfig ==
  /\ Hint = HintOf(config.dump_path, config.dump_path_overridden, config.max_docs)
  /\ Input /\ status = "indexed" => Hint \in Seq(Word)
<1>1. Hint = HintOf(config.dump_path, config.dump_path_overridden, config.max_docs)
  BY DEF Hint, HintOf, DumpWords, LimitWords, NumeralOf
<1>2. ASSUME Input, status = "indexed" PROVE Hint \in Seq(Word)
  <2> DEFINE dumps == DumpWords(config.dump_path, config.dump_path_overridden)
             limits == LimitWords(config.max_docs)
             first == <<"--recompute-pagerank">>
  <2>1. dumps \in Seq(Word) /\ limits \in Seq(Word)
    <3>1. /\ config.dump_path \in Word \ {"--help"} /\ config.dump_path_overridden \in BOOLEAN
          /\ config.max_docs \in Nat /\ Numbered(config.max_docs)
      BY <1>2 DEF Input, ConfigTypes, InputRead, Settings
    <3> QED  BY <3>1, HintWords
  <2>2. first \in Seq(Word)
    BY LiteralWords, ShortLines
  <2>3. Hint = (first \o dumps) \o limits
    BY <1>1 DEF HintOf
  <2> HIDE DEF dumps, limits, first
  <2>4. first \o dumps \in Seq(Word)
    BY <2>1, <2>2
  <2> QED  BY <2>1, <2>3, <2>4
<1> QED  BY <1>1, <1>2

LEMMA InputInductive ==
  Input /\ [Next]_vars => Input'
<1> SUFFICES ASSUME Input, [Next]_vars PROVE Input'
  OBVIOUS
<1>1. /\ argv \in Seq(Word) /\ config \in Settings /\ hinted \in BOOLEAN
      /\ status \in {"called", "parsing", "refused", "configured", "indexed", "running"}
      /\ environment \in [dump_path : Word \ {"--help"}, max_docs : Word,
                          compute_pagerank : Word]
  BY DEF Input, ConfigTypes
<1>2. CASE UNCHANGED config_vars
  BY <1>2 DEF Input, ConfigTypes, InputRead, KnownLimit, EnvOverrides, Numbered, config_vars
<1>3. CASE ReadEnvironment
  <2>1. /\ config' \in Settings /\ UNCHANGED <<environment, argv, hinted>>
        /\ config'.max_docs = EnvLimit /\ Numbered(EnvLimit)
        /\ config'.dump_path_overridden = EnvOverrides /\ config'.dump_path # "--help"
        /\ ~EnvOverrides => config'.dump_path = DefaultDump
        /\ status' = IF "--help" \in Range(argv) \/ ~KnownLimit THEN "refused" ELSE "parsing"
    BY <1>3, EnvironmentRead DEF Input
  <2>2. ConfigTypes'
    BY <1>1, <2>1 DEF ConfigTypes
  <2>3. ASSUME status' = "parsing"
        PROVE  KnownLimit /\ \A i \in DOMAIN argv : argv[i] # "--help"
    BY <2>1, <2>3 DEF Range
  <2>4. KnownLimit' = KnownLimit /\ EnvOverrides' = EnvOverrides
        /\ \A n : Numbered(n)' = Numbered(n)
    BY <2>1 DEF KnownLimit, EnvOverrides, Numbered
  <2>5. status' \in {"refused", "parsing"}
    BY <2>1
  <2>6. InputRead'
    BY <2>1, <2>3, <2>4, <2>5 DEF InputRead
  <2> QED  BY <2>2, <2>6 DEF Input
<1>4. CASE ReadArgument
  BY <1>4, ArgumentRead
<1>5. CASE Configured \/ IndexDump
  <2>1. /\ UNCHANGED <<environment, argv, config, hinted>>
        /\ status \in {"parsing", "configured"} /\ status' \in {"configured", "indexed"}
    BY <1>5 DEF Configured, IndexDump
  <2>2. KnownLimit' = KnownLimit /\ EnvOverrides' = EnvOverrides
        /\ \A n : Numbered(n)' = Numbered(n)
    BY <2>1 DEF KnownLimit, EnvOverrides, Numbered
  <2>3. ConfigTypes'
    BY <1>1, <2>1 DEF ConfigTypes
  <2>4. InputRead'
    BY <2>1, <2>2 DEF InputRead, Input
  <2> QED  BY <2>3, <2>4 DEF Input
<1>6. CASE CallAgain
  <2>1. /\ config' = DefaultConfig /\ status' = "called" /\ UNCHANGED environment
        /\ hinted' \in BOOLEAN
    BY <1>1, <1>6 DEF CallAgain
  <2>2. argv' \in Seq(Word)
    <3>1. CASE argv' = Hint
      BY <1>6, <3>1, HintIsOfConfig DEF CallAgain
    <3>2. CASE argv' \in CommandLines
      BY <3>2, ConfigAssumption, ConstantWords
    <3> QED  BY <1>6, <3>1, <3>2 DEF CallAgain
  <2>3. ConfigTypes'
    BY <1>1, <2>1, <2>2, DefaultSettings DEF ConfigTypes
  <2> QED  BY <2>1, <2>3 DEF Input, InputRead
<1>7. CASE Start
  <2>1. /\ config' = DefaultConfig /\ environment' = NoEnvironment /\ status' = "running"
        /\ argv' = << >> /\ hinted' = FALSE
    BY <1>7 DEF Start
  <2>2. NoEnvironment \in [dump_path : Word \ {"--help"}, max_docs : Word,
                           compute_pagerank : Word]
    BY LiteralWords DEF NoEnvironment
  <2>3. hinted' \in BOOLEAN
    BY <2>1
  <2>4. ConfigTypes'
    BY <2>1, <2>2, <2>3, DefaultSettings DEF ConfigTypes
  <2> QED  BY <2>1, <2>4 DEF Input, InputRead
<1>8. CASE ReadChar \/ EndOfLine \/ EndOfFile \/ UncachedPass \/ WarmupPass \/ CachedPass
           \/ Done \/ UNCHANGED vars
  <2>1. UNCHANGED config_vars
    BY <1>8 DEF ReadChar, EndOfLine, EndOfFile, UncachedPass, WarmupPass, CachedPass, Done, vars
  <2> QED  BY <1>2, <2>1
<1> QED  BY <1>3, <1>4, <1>5, <1>6, <1>7, <1>8 DEF Next, Configure, ConfigNext

\* Reading the first word, or the first two, of a line that begins with them.
LEMMA FirstWord ==
  ASSUME NEW w \in Word, NEW s \in Seq(Word)
  PROVE  LET t == <<w>> \o s IN
           t # << >> /\ t[1] = w /\ SubSeq(t, 2, Len(t)) = s
<1> DEFINE first == <<w>>
           t == first \o s
<1>1. first \in Seq(Word) /\ Len(first) = 1 /\ first[1] = w
  OBVIOUS
<1>2. Len(s) \in Nat /\ DOMAIN s = 1..Len(s)
  OBVIOUS
<1> HIDE DEF first
<1>3. /\ t \in Seq(Word) /\ Len(t) = 1 + Len(s) /\ t[1] = w
      /\ \A i \in 1..Len(s) : t[i + 1] = s[i]
  <2>1. /\ t \in Seq(Word) /\ Len(t) = 1 + Len(s)
        /\ \A i \in 1..1 + Len(s) : t[i] = IF i <= 1 THEN first[i] ELSE s[i - 1]
    <3>1. /\ t \in Seq(Word) /\ Len(t) = Len(first) + Len(s)
          /\ \A i \in 1..Len(first) + Len(s) :
               t[i] = IF i <= Len(first) THEN first[i] ELSE s[i - Len(first)]
      BY <1>1, ConcatProperties, Zenon
    <3> QED  BY <1>1, <3>1
  <2>2. ASSUME NEW i \in 1..Len(s) PROVE t[i + 1] = s[i]
    <3>1. i + 1 \in 1..1 + Len(s) /\ ~(i + 1 <= 1) /\ (i + 1) - 1 = i
      BY <1>2
    <3> QED  BY <2>1, <3>1
  <2>3. t[1] = w
    BY <1>1, <1>2, <2>1
  <2> QED  BY <2>1, <2>2, <2>3
<1> HIDE DEF t
<1>4. SubSeq(t, 2, Len(t)) = s
  <2> DEFINE u == SubSeq(t, 2, Len(t))
  <2>1. u \in Seq(Word) /\ Len(u) = Len(s) /\ \A i \in 1..Len(s) : u[i] = t[i + 1]
    BY <1>2, <1>3
  <2> HIDE DEF u
  <2>2. \A i \in 1..Len(s) : u[i] = s[i]
    BY <1>3, <2>1
  <2>3. u = s
    BY <1>2, <2>1, <2>2
  <2> QED  BY <2>3 DEF u
<1> QED  BY <1>2, <1>3, <1>4 DEF t, first

LEMMA FirstTwoWords ==
  ASSUME NEW w \in Word, NEW v \in Word, NEW s \in Seq(Word)
  PROVE  LET t == <<w, v>> \o s IN
           t # << >> /\ t[1] = w /\ t[2] = v /\ Len(t) > 1 /\ SubSeq(t, 3, Len(t)) = s
<1> DEFINE first == <<w, v>>
           t == first \o s
<1>1. first \in Seq(Word) /\ Len(first) = 2 /\ first[1] = w /\ first[2] = v
  OBVIOUS
<1>2. Len(s) \in Nat /\ DOMAIN s = 1..Len(s)
  OBVIOUS
<1> HIDE DEF first
<1>3. /\ t \in Seq(Word) /\ Len(t) = 2 + Len(s) /\ t[1] = w /\ t[2] = v
      /\ \A i \in 1..Len(s) : t[i + 2] = s[i]
  <2>1. /\ t \in Seq(Word) /\ Len(t) = 2 + Len(s)
        /\ \A i \in 1..2 + Len(s) : t[i] = IF i <= 2 THEN first[i] ELSE s[i - 2]
    <3>1. /\ t \in Seq(Word) /\ Len(t) = Len(first) + Len(s)
          /\ \A i \in 1..Len(first) + Len(s) :
               t[i] = IF i <= Len(first) THEN first[i] ELSE s[i - Len(first)]
      BY <1>1, ConcatProperties, Zenon
    <3> QED  BY <1>1, <3>1
  <2>2. ASSUME NEW i \in 1..Len(s) PROVE t[i + 2] = s[i]
    <3>1. i + 2 \in 1..2 + Len(s) /\ ~(i + 2 <= 2) /\ (i + 2) - 2 = i
      BY <1>2
    <3> QED  BY <2>1, <3>1
  <2>3. t[1] = w /\ t[2] = v
    BY <1>1, <1>2, <2>1
  <2> QED  BY <2>1, <2>2, <2>3
<1> HIDE DEF t
<1>4. SubSeq(t, 3, Len(t)) = s
  <2> DEFINE u == SubSeq(t, 3, Len(t))
  <2>1. u \in Seq(Word) /\ Len(u) = Len(s) /\ \A i \in 1..Len(s) : u[i] = t[i + 2]
    BY <1>2, <1>3
  <2> HIDE DEF u
  <2>2. \A i \in 1..Len(s) : u[i] = s[i]
    BY <1>3, <2>1
  <2>3. u = s
    BY <1>2, <2>1, <2>2
  <2> QED  BY <2>3 DEF u
<1> QED  BY <1>2, <1>3, <1>4 DEF t, first

LEMMA LastWords ==
  ASSUME NEW s \in Seq(Word)
  PROVE  << >> \o s = s /\ s \o << >> = s
<1>1. Len(s) \in Nat
  OBVIOUS
<1>2. << >> \o s = s
  <2>1. Len(<< >> \o s) = Len(s) /\ << >> \o s \in Seq(Word)
    OBVIOUS
  <2>2. \A i \in 1..Len(s) : (<< >> \o s)[i] = s[i]
    OBVIOUS
  <2> QED  BY <1>1, <2>1, <2>2
<1>3. s \o << >> = s
  <2>1. Len(s \o << >>) = Len(s) /\ s \o << >> \in Seq(Word)
    OBVIOUS
  <2>2. \A i \in 1..Len(s) : (s \o << >>)[i] = s[i]
    OBVIOUS
  <2> QED  BY <1>1, <2>1, <2>2
<1> QED  BY <1>2, <1>3

\* The printed command, word after word.
LEMMA HintInOrder ==
  ASSUME NEW path \in Word \ {"--help"}, NEW over \in BOOLEAN, NEW limit \in Nat,
         Numbered(limit)
  PROVE  /\ HintOf(path, over, limit) =
              <<"--recompute-pagerank">> \o (DumpWords(path, over) \o LimitWords(limit))
         /\ DumpWords(path, over) \o LimitWords(limit) \in Seq(Word)
         /\ "--help" \notin Range(HintOf(path, over, limit))
<1> DEFINE a == <<"--recompute-pagerank">>
           b == DumpWords(path, over)
           c == LimitWords(limit)
<1>1. a \in Seq(Word \ {"--help"})
  BY LiteralWords, ShortLines
<1>2. b \in Seq(Word \ {"--help"})
  <2>1. "--dump" \in Word \ {"--help"}
    BY LiteralWords
  <2>2. <<"--dump", path>> \in Seq(Word \ {"--help"})
    BY <2>1, ShortLines
  <2>3. << >> \in Seq(Word \ {"--help"})
    OBVIOUS
  <2> QED  BY <2>2, <2>3, Zenon DEF DumpWords
<1>3. c \in Seq(Word \ {"--help"})
  <2>1. CASE limit > 0
    <3>1. NumeralOf(limit) \in Word \ {"--help"}
      BY <2>1, HintWords
    <3>2. "--max-docs" \in Word \ {"--help"}
      BY LiteralWords
    <3>3. <<"--max-docs", NumeralOf(limit)>> \in Seq(Word \ {"--help"})
      BY <3>1, <3>2, ShortLines
    <3> QED  BY <2>1, <3>3 DEF LimitWords
  <2> QED  BY <2>1 DEF LimitWords
<1>4. b \in Seq(Word) /\ c \in Seq(Word)
  BY HintWords
<1> HIDE DEF a, b, c
<1>5. (a \o b) \o c = a \o (b \o c)
  BY <1>1, <1>2, <1>3, ConcatAssociative, SMTT(30)
<1>6. a \o (b \o c) \in Seq(Word \ {"--help"})
  <2>1. b \o c \in Seq(Word \ {"--help"})
    BY <1>2, <1>3
  <2> QED  BY <1>1, <2>1
<1>7. b \o c \in Seq(Word)
  BY <1>4
<1>8. HintOf(path, over, limit) = a \o (b \o c)
  BY <1>5 DEF HintOf, a, b, c
<1>9. "--help" \notin Range(HintOf(path, over, limit))
  <2> DEFINE line == HintOf(path, over, limit)
  <2>1. line \in Seq(Word \ {"--help"})
    BY <1>6, <1>8
  <2> HIDE DEF line
  <2>2. \A i \in DOMAIN line : line[i] # "--help"
    BY <2>1
  <2> QED  BY <2>2 DEF Range, line
<1> QED  BY <1>7, <1>8, <1>9 DEF a, b, c

-----------------------------------------------------------------------------
(* The files of a call.                                                    *)

SuffixOf(path, over, limit) ==
  IF ~over /\ limit = 0 THEN << >> ELSE <<Canonical[path], limit>>

IndexedAs(path, over, limit) ==
  [suffix |-> SuffixOf(path, over, limit), dump |-> Canonical[path], max_docs |-> limit]

\* What has been indexed was indexed by a call, and the files of two calls differ.
IndexRight ==
  /\ indexed = NothingIndexed
       \/ \E path \in Word, over \in BOOLEAN, limit \in Nat :
            (~over => path = DefaultDump) /\ indexed = IndexedAs(path, over, limit)
  /\ status = "indexed" =>
       indexed = IndexedAs(config.dump_path, config.dump_path_overridden, config.max_docs)

LEMMA SuffixNow ==
  ArtifactSuffix = SuffixOf(config.dump_path, config.dump_path_overridden, config.max_docs)
  BY DEF ArtifactSuffix, SuffixOf

LEMMA IndexInductive ==
  /\ Init => IndexRight
  /\ Input /\ IndexRight /\ [Next]_vars => IndexRight'
<1>1. Init => IndexRight
  BY DEF Init, ConfigInit, IndexRight
<1>2. ASSUME Input, IndexRight, [Next]_vars PROVE IndexRight'
  <2>1. CASE UNCHANGED <<status, config, indexed>>
    BY <1>2, <2>1 DEF IndexRight, IndexedAs, SuffixOf
  <2>2. CASE status' # "indexed" /\ UNCHANGED indexed
    BY <1>2, <2>2 DEF IndexRight, IndexedAs, SuffixOf
  <2>3. CASE IndexDump
    <3>1. /\ indexed' = IndexedAs(config.dump_path, config.dump_path_overridden,
                                  config.max_docs)
          /\ UNCHANGED config /\ status = "configured"
      BY <2>3, SuffixNow DEF IndexDump, IndexedAs
    <3>2. /\ config.dump_path \in Word /\ config.dump_path_overridden \in BOOLEAN
          /\ config.max_docs \in Nat
          /\ ~config.dump_path_overridden => config.dump_path = DefaultDump
      BY <1>2, <3>1 DEF Input, ConfigTypes, Settings, InputRead
    <3> QED  BY <3>1, <3>2 DEF IndexRight
  <2>4. CASE Start
    BY <2>4 DEF Start, IndexRight
  <2>5. CASE ReadEnvironment \/ ReadArgument \/ Configured \/ CallAgain
    BY <2>2, <2>5 DEF ReadEnvironment, ReadArgument, Configured, CallAgain, Takes
  <2>6. CASE ReadChar \/ EndOfLine \/ EndOfFile \/ UncachedPass \/ WarmupPass \/ CachedPass
             \/ Done \/ UNCHANGED vars
    BY <2>1, <2>6 DEF ReadChar, EndOfLine, EndOfFile, UncachedPass, WarmupPass, CachedPass,
                      Done, vars, config_vars
  <2> QED  BY <1>2, <2>3, <2>4, <2>5, <2>6 DEF Next, Configure, ConfigNext
<1> QED  BY <1>1, <1>2

\* How far the command printed for a path and a limit has been read.
NothingReadYet(path, over, limit) ==
  /\ status \in {"called", "parsing"} /\ argv = HintOf(path, over, limit)
  /\ status = "parsing" =>
       /\ config.max_docs = EnvLimit /\ config.dump_path_overridden = EnvOverrides
       /\ ~EnvOverrides => config.dump_path = DefaultDump

SwitchHasBeenRead(path, over, limit) ==
  /\ status = "parsing" /\ over /\ argv = <<"--dump", path>> \o LimitWords(limit)
  /\ config.max_docs = EnvLimit

DumpHasBeenRead(path, over, limit) ==
  /\ status = "parsing" /\ argv = LimitWords(limit)
  /\ config.dump_path = path /\ config.dump_path_overridden = over
  /\ config.max_docs = EnvLimit

AllHasBeenRead(path, over, limit) ==
  /\ status \in {"parsing", "configured"} /\ argv = << >>
  /\ config.dump_path = path /\ config.dump_path_overridden = over
  /\ config.max_docs = IF limit > 0 THEN limit ELSE EnvLimit

HintedFor(path, over, limit) ==
  /\ path # "--help" /\ (~over => path = DefaultDump) /\ (EnvOverrides => over)
  /\ KnownLimit /\ Numbered(limit) /\ indexed = IndexedAs(path, over, limit)
  /\ \/ NothingReadYet(path, over, limit)
     \/ config.recompute_pagerank_only
          /\ \/ SwitchHasBeenRead(path, over, limit)
             \/ DumpHasBeenRead(path, over, limit)
             \/ AllHasBeenRead(path, over, limit)

HintRight ==
  hinted => \E path \in Word, over \in BOOLEAN, limit \in Nat : HintedFor(path, over, limit)

\* Every call has files of its own, unless it is for the same dump and limit.
LEMMA FilesApart == Input /\ IndexRight /\ HintRight => FilesOfOneInput
<1> SUFFICES ASSUME Input, IndexRight, HintRight PROVE FilesOfOneInput
  OBVIOUS
<1>1. ASSUME status = "configured", ArtifactSuffix = indexed.suffix
      PROVE  Canonical[config.dump_path] = indexed.dump /\ config.max_docs = indexed.max_docs
  <2>1. ~config.dump_path_overridden => config.dump_path = DefaultDump
    BY <1>1 DEF Input, InputRead
  <2>2. indexed # NothingIndexed
    <3>1. Len(<<"none">>) = 1 /\ Len(<< >>) = 0
      OBVIOUS
    <3>2. Len(<<Canonical[config.dump_path], config.max_docs>>) = 2
      OBVIOUS
    <3>3. ArtifactSuffix \in {<< >>, <<Canonical[config.dump_path], config.max_docs>>}
      BY DEF ArtifactSuffix
    <3>4. ArtifactSuffix # <<"none">>
      BY <3>1, <3>2, <3>3
    <3>5. NothingIndexed.suffix = <<"none">>
      BY DEF NothingIndexed
    <3> QED  BY <1>1, <3>4, <3>5, Zenon
  <2>3. PICK path \in Word, over \in BOOLEAN, limit \in Nat :
          (~over => path = DefaultDump) /\ indexed = IndexedAs(path, over, limit)
    BY <2>2 DEF IndexRight
  <2>4. /\ indexed.suffix = SuffixOf(path, over, limit) /\ indexed.dump = Canonical[path]
        /\ indexed.max_docs = limit
    BY <2>3 DEF IndexedAs
  <2>5. \A a, b, c, d : /\ <<a, b>> # << >>
                        /\ <<a, b>> = <<c, d>> => a = c /\ b = d
    OBVIOUS
  <2> QED  BY <1>1, <2>1, <2>3, <2>4, <2>5, SuffixNow DEF SuffixOf
<1>2. ASSUME hinted PROVE status # "refused"
  BY <1>2 DEF HintRight, HintedFor, NothingReadYet, SwitchHasBeenRead, DumpHasBeenRead,
              AllHasBeenRead
<1>3. ASSUME hinted, status = "configured", ~LimitLifted
      PROVE  ArtifactSuffix = indexed.suffix
  <2>1. PICK path \in Word, over \in BOOLEAN, limit \in Nat : HintedFor(path, over, limit)
    BY <1>3 DEF HintRight
  <2>2. AllHasBeenRead(path, over, limit)
    BY <1>3, <2>1 DEF HintedFor, NothingReadYet, SwitchHasBeenRead, DumpHasBeenRead
  <2>3. indexed.suffix = SuffixOf(path, over, limit) /\ indexed.max_docs = limit
    BY <2>1 DEF HintedFor, IndexedAs
  <2>4. EnvLimit \in Nat
    BY ConfigAssumption, ConstantWords DEF EnvLimit
  <2>5. config.max_docs = limit
    <3>1. CASE limit = 0
      <4>1. EnvLimit = 0
        BY <1>3, <2>3, <2>4, <3>1 DEF LimitLifted, EnvLimit
      <4> QED  BY <2>2, <3>1, <4>1 DEF AllHasBeenRead
    <3>2. CASE limit > 0
      BY <2>2, <3>2 DEF AllHasBeenRead
    <3> QED  BY <3>1, <3>2
  <2> QED  BY <2>2, <2>3, <2>5, SuffixNow DEF AllHasBeenRead
<1> QED  BY <1>1, <1>2, <1>3 DEF FilesOfOneInput

\* One word, or two, of the printed command is read.
LEMMA HintRead ==
  ASSUME Input, ReadArgument, NEW path \in Word, NEW over \in BOOLEAN, NEW limit \in Nat,
         HintedFor(path, over, limit)
  PROVE  HintedFor(path, over, limit)'
<1>1. /\ argv \in Seq(Word) /\ argv # << >> /\ status = "parsing" /\ config \in Settings
      /\ UNCHANGED <<environment, indexed>> /\ path \in Word \ {"--help"} /\ Numbered(limit)
      /\ (~over => path = DefaultDump) /\ (EnvOverrides => over)
  BY DEF Input, ConfigTypes, ReadArgument, HintedFor
<1>2. /\ KnownLimit' = KnownLimit /\ EnvOverrides' = EnvOverrides /\ EnvLimit' = EnvLimit
      /\ Numbered(limit)' = Numbered(limit)
      /\ IndexedAs(path, over, limit)' = IndexedAs(path, over, limit)
  BY <1>1 DEF KnownLimit, EnvOverrides, EnvLimit, Numbered, IndexedAs, SuffixOf
<1>3. ASSUME status' = "parsing", config'.recompute_pagerank_only,
             \/ SwitchHasBeenRead(path, over, limit)'
             \/ DumpHasBeenRead(path, over, limit)'
             \/ AllHasBeenRead(path, over, limit)'
      PROVE  HintedFor(path, over, limit)'
  BY <1>1, <1>2, <1>3 DEF HintedFor
<1>4. /\ LimitWords(limit) \in Seq(Word) /\ DumpWords(path, over) \in Seq(Word)
      /\ limit > 0 => /\ NumeralOf(limit) \in DOMAIN Numerals
                      /\ Numerals[NumeralOf(limit)] = limit /\ NumeralOf(limit) \in Word
  BY <1>1, HintWords
<1>5. DOMAIN Switches = {"--compute-pagerank", "--recompute-pagerank", "--benchmark",
                         "--profile-indexing"}
  BY DEF Switches
<1>6. CASE NothingReadYet(path, over, limit)
  <2> DEFINE rest == DumpWords(path, over) \o LimitWords(limit)
             c == [config EXCEPT ![Switches["--recompute-pagerank"]] = TRUE]
  <2>1. argv = <<"--recompute-pagerank">> \o rest /\ rest \in Seq(Word)
    BY <1>1, <1>6, HintInOrder DEF NothingReadYet
  <2> HIDE DEF rest
  <2>2. argv[1] = "--recompute-pagerank" /\ SubSeq(argv, 2, Len(argv)) = rest
    <3>1. "--recompute-pagerank" \in Word
      BY LiteralWords
    <3> QED  BY <2>1, <3>1, FirstWord
  <2>3. Takes(1, c)
    BY <1>5, <2>2 DEF ReadArgument
  <2>4. /\ c.recompute_pagerank_only /\ c.dump_path = config.dump_path
        /\ c.max_docs = config.max_docs
        /\ c.dump_path_overridden = config.dump_path_overridden
    BY <1>1, <1>5, SwitchRead
  <2> HIDE DEF c
  <2>5. argv' = rest /\ config' = c /\ status' = "parsing"
    BY <1>1, <2>2, <2>3 DEF Takes
  <2>6. /\ config.max_docs = EnvLimit /\ config.dump_path_overridden = EnvOverrides
        /\ ~EnvOverrides => config.dump_path = DefaultDump
    BY <1>1, <1>6 DEF NothingReadYet
  <2>7. CASE over
    <3>1. argv' = <<"--dump", path>> \o LimitWords(limit)
      BY <2>5, <2>7 DEF rest, DumpWords
    <3>2. SwitchHasBeenRead(path, over, limit)'
      BY <1>2, <2>4, <2>5, <2>6, <2>7, <3>1 DEF SwitchHasBeenRead, LimitWords, NumeralOf
    <3> QED  BY <1>3, <2>4, <2>5, <3>2
  <2>8. CASE ~over
    <3>1. argv' = LimitWords(limit)
      BY <1>4, <2>5, <2>8, LastWords DEF rest, DumpWords
    <3>2. ~EnvOverrides /\ path = DefaultDump
      BY <1>1, <2>8
    <3>3. config'.dump_path = path /\ config'.dump_path_overridden = over
      BY <2>4, <2>5, <2>6, <2>8, <3>2 DEF EnvOverrides
    <3>4. DumpHasBeenRead(path, over, limit)'
      BY <1>2, <2>4, <2>5, <2>6, <3>1, <3>3 DEF DumpHasBeenRead, LimitWords, NumeralOf
    <3> QED  BY <1>3, <2>4, <2>5, <3>4
  <2> QED  BY <2>7, <2>8
<1>7. CASE config.recompute_pagerank_only /\ SwitchHasBeenRead(path, over, limit)
  <2> DEFINE c == [config EXCEPT !.dump_path = path, !.dump_path_overridden = TRUE]
  <2>1. argv = <<"--dump", path>> \o LimitWords(limit) /\ over /\ config.max_docs = EnvLimit
    BY <1>7 DEF SwitchHasBeenRead
  <2>2. /\ argv[1] = "--dump" /\ argv[2] = path /\ Len(argv) > 1
        /\ SubSeq(argv, 3, Len(argv)) = LimitWords(limit)
    <3>1. "--dump" \in Word
      BY LiteralWords
    <3> QED  BY <1>4, <2>1, <3>1, FirstTwoWords
  <2>3. Takes(2, c)
    BY <1>5, <2>2 DEF ReadArgument, Given
  <2>4. /\ c.recompute_pagerank_only = config.recompute_pagerank_only
        /\ c.dump_path = path /\ c.max_docs = config.max_docs
        /\ c.dump_path_overridden = TRUE
    BY <1>1 DEF Settings
  <2> HIDE DEF c
  <2>5. argv' = LimitWords(limit) /\ config' = c /\ status' = "parsing"
    BY <1>1, <2>2, <2>3 DEF Takes
  <2>6. over = TRUE
    BY <2>1
  <2>7. DumpHasBeenRead(path, over, limit)'
    BY <1>2, <2>1, <2>4, <2>5, <2>6 DEF DumpHasBeenRead, LimitWords, NumeralOf
  <2>8. config'.recompute_pagerank_only
    BY <1>7, <2>4, <2>5
  <2> QED  BY <1>3, <2>5, <2>7, <2>8
<1>8. CASE config.recompute_pagerank_only /\ DumpHasBeenRead(path, over, limit)
  <2> DEFINE word == NumeralOf(limit)
             c == [config EXCEPT !.max_docs = Numerals[word]]
  <2>1. /\ argv = LimitWords(limit) /\ config.dump_path = path
        /\ config.dump_path_overridden = over
    BY <1>8 DEF DumpHasBeenRead
  <2>2. limit > 0
    BY <1>1, <2>1 DEF LimitWords
  <2>3. argv = <<"--max-docs", word>>
    BY <2>1, <2>2 DEF LimitWords
  <2>4. word \in DOMAIN Numerals /\ word \in Word /\ Numerals[word] = limit
    BY <1>4, <2>2
  <2> HIDE DEF word
  <2>5. /\ argv[1] = "--max-docs" /\ argv[2] = word /\ Len(argv) > 1
        /\ SubSeq(argv, 3, Len(argv)) = << >>
    BY <2>3
  <2>6. Takes(2, c)
    BY <1>5, <2>4, <2>5 DEF ReadArgument, Given
  <2>7. /\ c.recompute_pagerank_only = config.recompute_pagerank_only
        /\ c.dump_path = config.dump_path /\ c.max_docs = limit
        /\ c.dump_path_overridden = config.dump_path_overridden
    BY <1>1, <2>4 DEF Settings
  <2> HIDE DEF c
  <2>8. argv' = << >> /\ config' = c /\ status' = "parsing"
    BY <1>1, <2>5, <2>6 DEF Takes
  <2>9. AllHasBeenRead(path, over, limit)'
    BY <2>1, <2>2, <2>7, <2>8 DEF AllHasBeenRead
  <2>10. config'.recompute_pagerank_only
    BY <1>8, <2>7, <2>8
  <2> QED  BY <1>3, <2>8, <2>9, <2>10
<1>9. ~AllHasBeenRead(path, over, limit)
  BY <1>1 DEF AllHasBeenRead
<1> QED  BY <1>6, <1>7, <1>8, <1>9 DEF HintedFor

LEMMA HintInductive ==
  /\ Init => HintRight
  /\ Input /\ IndexRight /\ HintRight /\ [Next]_vars => HintRight'
<1>1. Init => HintRight
  BY DEF Init, ConfigInit, HintRight
<1>2. ASSUME Input, IndexRight, HintRight, [Next]_vars PROVE HintRight'
  <2>1. CASE UNCHANGED config_vars
    <3>1. UNCHANGED <<environment, argv, config, status, hinted, indexed>>
      BY <2>1 DEF config_vars
    <3>2. /\ KnownLimit' = KnownLimit /\ EnvOverrides' = EnvOverrides /\ EnvLimit' = EnvLimit
          /\ \A n : Numbered(n)' = Numbered(n) /\ LimitWords(n)' = LimitWords(n)
          /\ \A p, o, n : /\ IndexedAs(p, o, n)' = IndexedAs(p, o, n)
                          /\ HintOf(p, o, n)' = HintOf(p, o, n)
      BY <3>1 DEF KnownLimit, EnvOverrides, EnvLimit, Numbered, IndexedAs, SuffixOf, HintOf,
                  DumpWords, LimitWords, NumeralOf
    <3>3. \A p, o, n :
            /\ NothingReadYet(p, o, n)' <=> NothingReadYet(p, o, n)
            /\ SwitchHasBeenRead(p, o, n)' <=> SwitchHasBeenRead(p, o, n)
            /\ DumpHasBeenRead(p, o, n)' <=> DumpHasBeenRead(p, o, n)
            /\ AllHasBeenRead(p, o, n)' <=> AllHasBeenRead(p, o, n)
      BY <3>1, <3>2 DEF NothingReadYet, SwitchHasBeenRead, DumpHasBeenRead, AllHasBeenRead
    <3>4. \A p, o, n : HintedFor(p, o, n)' <=> HintedFor(p, o, n)
      BY <3>1, <3>2, <3>3 DEF HintedFor
    <3> QED  BY <1>2, <3>1, <3>4 DEF HintRight
  <2>2. CASE ReadEnvironment
    <3>1. /\ UNCHANGED <<environment, argv, hinted, indexed>> /\ status = "called"
          /\ config'.max_docs = EnvLimit /\ config'.dump_path_overridden = EnvOverrides
          /\ ~EnvOverrides => config'.dump_path = DefaultDump
          /\ status' = IF "--help" \in Range(argv) \/ ~KnownLimit THEN "refused" ELSE "parsing"
      BY <1>2, <2>2, EnvironmentRead DEF Input
    <3> SUFFICES ASSUME hinted
                 PROVE  \E path \in Word, over \in BOOLEAN, limit \in Nat :
                          HintedFor(path, over, limit)'
      BY <3>1 DEF HintRight
    <3>2. PICK path \in Word, over \in BOOLEAN, limit \in Nat : HintedFor(path, over, limit)
      BY <1>2 DEF HintRight
    <3>3. NothingReadYet(path, over, limit)
      BY <3>1, <3>2 DEF HintedFor, SwitchHasBeenRead, DumpHasBeenRead, AllHasBeenRead
    <3>4. "--help" \notin Range(argv)
      BY <3>2, <3>3, HintInOrder DEF HintedFor, NothingReadYet
    <3>5. status' = "parsing"
      BY <3>1, <3>2, <3>4 DEF HintedFor
    <3>6. /\ KnownLimit' = KnownLimit /\ EnvOverrides' = EnvOverrides /\ EnvLimit' = EnvLimit
          /\ Numbered(limit)' = Numbered(limit)
          /\ IndexedAs(path, over, limit)' = IndexedAs(path, over, limit)
          /\ HintOf(path, over, limit)' = HintOf(path, over, limit)
      BY <3>1 DEF KnownLimit, EnvOverrides, EnvLimit, Numbered, IndexedAs, SuffixOf, HintOf,
                  DumpWords, LimitWords, NumeralOf
    <3>7. NothingReadYet(path, over, limit)'
      BY <3>1, <3>3, <3>5, <3>6 DEF NothingReadYet
    <3>8. HintedFor(path, over, limit)'
      BY <3>1, <3>2, <3>6, <3>7 DEF HintedFor
    <3> QED  BY <3>8
  <2>3. CASE ReadArgument
    <3>1. UNCHANGED hinted
      BY <2>3 DEF ReadArgument
    <3>2. ASSUME hinted
          PROVE  \E path \in Word, over \in BOOLEAN, limit \in Nat :
                   HintedFor(path, over, limit)'
      <4>1. PICK path \in Word, over \in BOOLEAN, limit \in Nat :
              HintedFor(path, over, limit)
        BY <1>2, <3>2 DEF HintRight
      <4>2. HintedFor(path, over, limit)'
        BY <1>2, <2>3, <4>1, HintRead
      <4> QED  BY <4>2
    <3> QED  BY <3>1, <3>2 DEF HintRight
  <2>4. CASE Configured
    <3>1. /\ UNCHANGED <<environment, argv, config, hinted, indexed>> /\ argv = << >>
          /\ status = "parsing" /\ status' = "configured"
      BY <2>4 DEF Configured
    <3> SUFFICES ASSUME hinted
                 PROVE  \E path \in Word, over \in BOOLEAN, limit \in Nat :
                          HintedFor(path, over, limit)'
      BY <3>1 DEF HintRight
    <3>2. PICK path \in Word, over \in BOOLEAN, limit \in Nat : HintedFor(path, over, limit)
      BY <1>2 DEF HintRight
    <3>3. path \in Word \ {"--help"} /\ Numbered(limit)
      BY <3>2 DEF HintedFor
    <3>4. LimitWords(limit) \in Seq(Word)
      BY <3>3, HintWords
    <3>5. ~NothingReadYet(path, over, limit)
      <4>1. DumpWords(path, over) \o LimitWords(limit) \in Seq(Word)
            /\ HintOf(path, over, limit) =
                 <<"--recompute-pagerank">> \o (DumpWords(path, over) \o LimitWords(limit))
        BY <3>3, HintInOrder
      <4>2. "--recompute-pagerank" \in Word
        BY LiteralWords
      <4>3. HintOf(path, over, limit) # << >>
        BY <4>1, <4>2, FirstWord
      <4> QED  BY <3>1, <4>3 DEF NothingReadYet
    <3>6. ~SwitchHasBeenRead(path, over, limit)
      <4>1. "--dump" \in Word
        BY LiteralWords
      <4>2. <<"--dump", path>> \o LimitWords(limit) # << >>
        BY <3>4, <4>1, FirstTwoWords
      <4> QED  BY <3>1, <4>2 DEF SwitchHasBeenRead
    <3>7. config.recompute_pagerank_only /\ AllHasBeenRead(path, over, limit)
      <4>1. DumpHasBeenRead(path, over, limit) => AllHasBeenRead(path, over, limit)
        <5>1. LimitWords(limit) = << >> => ~(limit > 0)
          BY DEF LimitWords
        <5> QED  BY <3>1, <5>1 DEF DumpHasBeenRead, AllHasBeenRead
      <4> QED  BY <3>2, <3>5, <3>6, <4>1 DEF HintedFor
    <3>8. /\ KnownLimit' = KnownLimit /\ EnvOverrides' = EnvOverrides /\ EnvLimit' = EnvLimit
          /\ Numbered(limit)' = Numbered(limit)
          /\ IndexedAs(path, over, limit)' = IndexedAs(path, over, limit)
      BY <3>1 DEF KnownLimit, EnvOverrides, EnvLimit, Numbered, IndexedAs, SuffixOf
    <3>9. AllHasBeenRead(path, over, limit)'
      BY <3>1, <3>7, <3>8 DEF AllHasBeenRead
    <3>10. HintedFor(path, over, limit)'
      BY <3>1, <3>2, <3>7, <3>8, <3>9 DEF HintedFor
    <3> QED  BY <3>10
  <2>5. CASE IndexDump
    <3>1. /\ status = "configured" /\ ~config.recompute_pagerank_only /\ UNCHANGED hinted
      BY <2>5 DEF IndexDump
    <3>2. ~hinted
      BY <1>2, <3>1 DEF HintRight, HintedFor, NothingReadYet
    <3> QED  BY <3>1, <3>2 DEF HintRight
  <2>6. CASE CallAgain
    <3>1. /\ status = "indexed" /\ ~hinted /\ status' = "called"
          /\ UNCHANGED <<environment, indexed>>
          /\ argv' = Hint \/ UNCHANGED hinted
      BY <2>6 DEF CallAgain
    <3>2. CASE UNCHANGED hinted
      BY <3>1, <3>2 DEF HintRight
    <3>3. CASE argv' = Hint
      <4> DEFINE path == config.dump_path
                 over == config.dump_path_overridden
                 limit == config.max_docs
      <4>1. /\ path \in Word /\ over \in BOOLEAN /\ limit \in Nat
            /\ path # "--help" /\ (~over => path = DefaultDump) /\ (EnvOverrides => over)
            /\ KnownLimit /\ Numbered(limit)
        BY <1>2, <3>1 DEF Input, ConfigTypes, Settings, InputRead
      <4>2. indexed = IndexedAs(path, over, limit)
        BY <1>2, <3>1 DEF IndexRight
      <4>3. argv' = HintOf(path, over, limit)
        BY <3>3, HintIsOfConfig
      <4> HIDE DEF path, over, limit
      <4>4. \E p \in Word, o \in BOOLEAN, n \in Nat : HintedFor(p, o, n)'
        <5>1. PICK p \in Word, o \in BOOLEAN, n \in Nat : p = path /\ o = over /\ n = limit
          BY <4>1
        <5>2. /\ KnownLimit' /\ (EnvOverrides' => o) /\ Numbered(n)'
              /\ indexed' = IndexedAs(p, o, n)' /\ argv' = HintOf(p, o, n)'
          BY <3>1, <4>1, <4>2, <4>3, <5>1
             DEF KnownLimit, EnvOverrides, Numbered, IndexedAs, SuffixOf, HintOf, DumpWords,
                 LimitWords, NumeralOf
        <5>3. NothingReadYet(p, o, n)'
          BY <3>1, <5>2 DEF NothingReadYet
        <5>4. HintedFor(p, o, n)'
          BY <4>1, <5>1, <5>2, <5>3 DEF HintedFor
        <5> QED  BY <5>4
      <4> QED  BY <4>4 DEF HintRight
    <3> QED  BY <3>1, <3>2, <3>3
  <2>7. CASE Start
    BY <2>7 DEF Start, HintRight
  <2>8. CASE ReadChar \/ EndOfLine \/ EndOfFile \/ UncachedPass \/ WarmupPass \/ CachedPass
             \/ Done \/ UNCHANGED vars
    BY <2>1, <2>8 DEF ReadChar, EndOfLine, EndOfFile, UncachedPass, WarmupPass, CachedPass,
                      Done, vars
  <2> QED  BY <1>2, <2>2, <2>3, <2>4, <2>5, <2>6, <2>7, <2>8 DEF Next, Configure, ConfigNext
<1> QED  BY <1>1, <1>2

\* Whatever the environment and the command lines are, no two calls with different
\* input use the same files, and the command the program prints after indexing is one
\* it takes and one that finds the files just written, unless the command line had
\* lifted the limit of the environment.
THEOREM FilesMatchTheirInput == Spec => []FilesOfOneInput
<1>1. Init => Input /\ IndexRight /\ HintRight
  BY InputInit, IndexInductive, HintInductive
<1>2. Input /\ IndexRight /\ HintRight /\ [Next]_vars => (Input /\ IndexRight /\ HintRight)'
  BY InputInductive, IndexInductive, HintInductive
<1> QED  BY <1>1, <1>2, FilesApart, PTL DEF Spec
=============================================================================
