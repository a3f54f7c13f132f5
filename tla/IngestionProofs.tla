-------------------------- MODULE IngestionProofs --------------------------
(***************************************************************************)
(* What indexing makes of a dump, for dumps of any number of pages of any  *)
(* length, whose titles and texts expat cuts anywhere.                     *)
(***************************************************************************)
EXTENDS Ingestion, PorterStemmer, FunctionTheorems, FiniteSetTheorems, SequenceTheorems,
        WellFoundedInduction, TLAPS

-----------------------------------------------------------------------------
(* Induction and recursion.                                                *)

Smaller == {p \in Nat \X Nat : p[1] < p[2]}

\* A set that has 0, and with a number the next one, has all numbers.
LEMMA Induction ==
  ASSUME NEW T, 0 \in T, \A n \in Nat : n \in T => n + 1 \in T
  PROVE  Nat \subseteq T
<1> SUFFICES ASSUME Nat \ T # {} PROVE FALSE
  OBVIOUS
<1>1. IsWellFoundedOn(Smaller, Nat)
  BY NatLessThanWellFounded, Zenon DEF OpToRel, Smaller
<1>2. PICK m \in Nat \ T : \A n \in Nat \ T : <<n, m>> \notin Smaller
  BY <1>1, WFMin
<1>3. m - 1 \in Nat /\ <<m - 1, m>> \in Smaller
  BY <1>2 DEF Smaller
<1>4. m - 1 \in T
  BY <1>2, <1>3
<1> QED  BY <1>2, <1>3, <1>4

IsRecursive(f, start, n, step) ==
  f[0] = start /\ \A i \in 1..n : f[i] = step[f[i - 1]][i]

\* A function is defined by its value for 0 and by what it has for a number in terms
\* of the one before.
LEMMA Recursion ==
  ASSUME NEW States, NEW start \in States, NEW n \in Nat,
         NEW step \in [States -> [1..n -> States]]
  PROVE  \E f \in [0..n -> States] : IsRecursive(f, start, n, step)
<1> DEFINE Upto(m, f) == /\ f \in [0..m -> States] /\ f[0] = start
                         /\ \A i \in 1..m : f[i] = step[f[i - 1]][i]
           T == {m \in Nat : m <= n => \E f : Upto(m, f)}
<1>1. 0 \in T
  <2>1. Upto(0, [i \in 0..0 |-> start])
    OBVIOUS
  <2> QED  BY <2>1
<1>2. ASSUME NEW m \in Nat, m \in T PROVE m + 1 \in T
  <2> SUFFICES ASSUME m + 1 <= n PROVE \E g : Upto(m + 1, g)
    <3> HIDE DEF Upto
    <3> QED  OBVIOUS
  <2>1. m <= n /\ m + 1 \in 1..n
    OBVIOUS
  <2>2. PICK f : Upto(m, f)
    BY <1>2, <2>1
  <2> DEFINE g == [i \in 0..m + 1 |-> IF i <= m THEN f[i] ELSE step[f[m]][m + 1]]
  <2>3. f[m] \in States /\ step[f[m]][m + 1] \in States
    BY <2>1, <2>2
  <2>4. g \in [0..m + 1 -> States]
    BY <2>2, <2>3
  <2>5. g[0] = start
    BY <2>2
  <2>6. ASSUME NEW i \in 1..m + 1 PROVE g[i] = step[g[i - 1]][i]
    <3>1. CASE i <= m
      <4>1. i \in 1..m /\ i - 1 <= m /\ i \in 0..m + 1 /\ i - 1 \in 0..m + 1
        BY <3>1
      <4>2. g[i] = f[i] /\ g[i - 1] = f[i - 1]
        BY <4>1
      <4> QED  BY <2>2, <4>1, <4>2
    <3>2. CASE i = m + 1
      <4>1. i - 1 = m /\ m \in 0..m + 1 /\ m <= m /\ ~(m + 1 <= m) /\ m + 1 \in 0..m + 1
        BY <3>2
      <4>2. g[m] = f[m] /\ g[m + 1] = step[f[m]][m + 1]
        BY <4>1
      <4> QED  BY <3>2, <4>1, <4>2
    <3> QED  BY <3>1, <3>2
  <2> HIDE DEF g
  <2> QED  BY <2>4, <2>5, <2>6
<1>3. n \in T
  <2> HIDE DEF T
  <2> QED  BY <1>1, <1>2, Induction
<1>4. \E f : Upto(n, f)
  <2> HIDE DEF Upto
  <2> QED  BY <1>3
<1> QED  BY <1>4 DEF IsRecursive

\* Two functions that begin alike and go on alike are alike.
Alike(F, f, n) ==
  F[0] = f[0] /\ \A i \in 1..n : F[i - 1] = f[i - 1] => F[i] = f[i]

LEMMA SameRecursion ==
  \A n \in Nat : \A F, f :
    Alike(F, f, n) => \A i \in 0..n : F[i] = f[i]
<1> SUFFICES ASSUME NEW n \in Nat, NEW F, NEW f, Alike(F, f, n)
             PROVE  \A i \in 0..n : F[i] = f[i]
  OBVIOUS
<1> DEFINE T == {m \in Nat : m <= n => F[m] = f[m]}
<1>1. ASSUME NEW m \in Nat, m \in T, m + 1 <= n PROVE F[m + 1] = f[m + 1]
  <2>1. m + 1 \in 1..n /\ (m + 1) - 1 = m /\ m <= n
    BY <1>1
  <2> QED  BY <1>1, <2>1 DEF Alike
<1>2. 0 \in T /\ \A m \in Nat : m \in T => m + 1 \in T
  BY <1>1 DEF Alike
<1> HIDE DEF T
<1>3. Nat \subseteq T
  BY <1>2, Induction
<1> QED  BY <1>3 DEF T

LEMMA LargestNumber ==
  ASSUME NEW n \in Nat, NEW S \in SUBSET (1..n), S # {}
  PROVE  Max(S) \in S /\ \A y \in S : Max(S) >= y
<1> DEFINE HasMax(X) == \E x \in X : \A y \in X : x >= y
           T == {m \in Nat : \A X \in SUBSET (1..m) : X # {} => HasMax(X)}
<1>1. 0 \in T
  <2>1. 1..0 = {}
    OBVIOUS
  <2> QED  BY <2>1
<1>2. ASSUME NEW m \in Nat, m \in T PROVE m + 1 \in T
  <2> SUFFICES ASSUME NEW X \in SUBSET (1..m + 1), X # {} PROVE HasMax(X)
    OBVIOUS
  <2>1. CASE m + 1 \in X
    BY <2>1
  <2>2. CASE m + 1 \notin X
    <3>1. X \in SUBSET (1..m)
      BY <2>2
    <3> QED  BY <1>2, <3>1
  <2> QED  BY <2>1, <2>2
<1>3. n \in T
  <2> HIDE DEF T
  <2> QED  BY <1>1, <1>2, Induction
<1>4. \E x \in S : \A y \in S : x >= y
  BY <1>3
<1> QED  BY <1>4 DEF Max

\* The last place of a text with, or without, a blank.
LEMMA LastPlace ==
  ASSUME NEW n \in Nat, NEW S \in SUBSET (1..n), NEW p, p = IF S # {} THEN Max(S) ELSE 0
  PROVE  p \in 0..n /\ (p # 0 => p \in S) /\ \A i \in p + 1..n : i \notin S
<1>1. CASE S = {}
  BY <1>1
<1>2. CASE S # {}
  <2>1. p \in S /\ \A y \in S : p >= y
    BY <1>2, LargestNumber
  <2> QED  BY <2>1
<1> QED  BY <1>1, <1>2

----------

-----------------------------------------------------------------------------
(* Sequences of sequences.                                                 *)

\* The sequences put together one after the other.
Joins(f, seqs) ==
  f[0] = << >> /\ \A i \in 1..Len(seqs) : f[i] = f[i - 1] \o seqs[i]

LEMMA Flattening ==
  ASSUME NEW S, NEW seqs \in Seq(Seq(S))
  PROVE  \E f \in [0..Len(seqs) -> Seq(S)] :
           Joins(f, seqs) /\ FlattenSeq(seqs) = f[Len(seqs)]
<1> DEFINE n == Len(seqs)
           step == [s \in Seq(S) |-> [i \in 1..n |-> s \o seqs[i]]]
           IsFlatten(g) == g = [i \in 1..n |-> IF i = 1 THEN seqs[i] ELSE g[i - 1] \o seqs[i]]
<1>0. n \in Nat /\ DOMAIN seqs = 1..n /\ \A i \in 1..n : seqs[i] \in Seq(S)
  OBVIOUS
<1>1. \A s \in Seq(S) : \A i \in 1..n : s \o seqs[i] \in Seq(S)
  BY <1>0
<1>2. step \in [Seq(S) -> [1..n -> Seq(S)]] /\ << >> \in Seq(S)
  BY <1>1
<1>3. \A s \in Seq(S) : \A i \in 1..n : step[s][i] = s \o seqs[i]
  OBVIOUS
<1> HIDE DEF step, n
<1>4. PICK f \in [0..n -> Seq(S)] :
        f[0] = << >> /\ \A i \in 1..n : f[i] = step[f[i - 1]][i]
  <2> DEFINE start == << >>
  <2>1. start \in Seq(S)
    BY <1>2
  <2> HIDE DEF start
  <2>2. \E f \in [0..n -> Seq(S)] : IsRecursive(f, start, n, step)
    BY <1>0, <1>2, <2>1, Recursion
  <2> QED  BY <2>2 DEF start, IsRecursive
<1>5. Joins(f, seqs)
  <2>1. ASSUME NEW i \in 1..n PROVE f[i] = f[i - 1] \o seqs[i]
    <3>1. f[i - 1] \in Seq(S)
      BY <1>0
    <3> QED  BY <1>3, <1>4, <3>1
  <2> QED  BY <1>4, <2>1 DEF Joins, n
<1>6. IsFlatten([i \in 1..n |-> f[i]])
  <2> DEFINE g == [i \in 1..n |-> f[i]]
  <2>1. ASSUME NEW i \in 1..n
        PROVE  g[i] = IF i = 1 THEN seqs[i] ELSE g[i - 1] \o seqs[i]
    <3>1. g[i] = f[i - 1] \o seqs[i]
      BY <1>5 DEF Joins, n
    <3>2. CASE i = 1
      <4>1. f[i - 1] = << >> /\ seqs[i] \in Seq(S)
        BY <1>0, <1>4, <3>2
      <4>2. << >> \o seqs[i] = seqs[i]
        BY <4>1, ConcatEmptySeq
      <4> QED  BY <3>1, <3>2, <4>1, <4>2
    <3>3. CASE i # 1
      <4>1. i - 1 \in 1..n
        BY <1>0, <3>3
      <4> QED  BY <3>1, <3>3, <4>1
    <3> QED  BY <3>2, <3>3
  <2>2. g = [i \in 1..n |-> IF i = 1 THEN seqs[i] ELSE g[i - 1] \o seqs[i]]
    <3> HIDE DEF g
    <3>1. DOMAIN g = 1..n /\ g = [i \in 1..n |-> g[i]]
      BY DEF g
    <3> QED  BY <2>1, <3>1
  <2> QED  BY <2>2
<1> DEFINE F == CHOOSE g : IsFlatten(g)
<1>7. IsFlatten(F)
  <2> HIDE DEF IsFlatten
  <2> QED  BY <1>6
<1>8. n # 0 => FlattenSeq(seqs) = F[n]
  BY DEF FlattenSeq, n
<1> HIDE DEF F
<1>9. \A i \in 1..n : F[i] = f[i]
  <2> DEFINE T == {m \in Nat : m \in 1..n => F[m] = f[m]}
  <2>1. \A i \in 1..n : F[i] = IF i = 1 THEN seqs[i] ELSE F[i - 1] \o seqs[i]
    BY <1>7
  <2>2. ASSUME NEW m \in Nat, m \in T, m + 1 \in 1..n PROVE F[m + 1] = f[m + 1]
    <3>1. f[m + 1] = f[m] \o seqs[m + 1]
      <4>1. (m + 1) - 1 = m
        OBVIOUS
      <4> QED  BY <1>5, <2>2, <4>1 DEF Joins, n
    <3>2. CASE m = 0
      <4>1. f[m] = << >> /\ seqs[m + 1] \in Seq(S) /\ << >> \o seqs[m + 1] = seqs[m + 1]
        BY <1>0, <1>4, <2>2, <3>2, ConcatEmptySeq
      <4> QED  BY <2>1, <2>2, <3>1, <3>2, <4>1
    <3>3. CASE m # 0
      <4>1. m \in 1..n /\ (m + 1) - 1 = m /\ m + 1 # 1
        BY <1>0, <2>2, <3>3
      <4> QED  BY <2>1, <2>2, <3>1, <4>1
    <3> QED  BY <3>2, <3>3
  <2>3. 0 \in T /\ \A m \in Nat : m \in T => m + 1 \in T
    BY <2>2
  <2> HIDE DEF T
  <2>4. Nat \subseteq T
    BY <2>3, Induction
  <2> QED  BY <2>4 DEF T
<1>10. FlattenSeq(seqs) = f[n]
  <2>1. CASE n = 0
    <3>1. seqs = << >> /\ FlattenSeq(seqs) = seqs
      BY <2>1 DEF FlattenSeq, n
    <3> QED  BY <1>4, <2>1, <3>1
  <2>2. CASE n # 0
    BY <1>0, <1>8, <1>9, <2>2
  <2> QED  BY <2>1, <2>2
<1> QED  BY <1>5, <1>10 DEF n

-----------------------------------------------------------------------------
(* The events of a dump.                                                   *)

\* Elements that are not looked at, and all of them.
Ignored == {"mediawiki", "siteinfo", "sitename", "ns", "contributor", "username"}

Names == Ignored \cup {"page", "title", "revision", "text"}

Data == Seq(Chars) \cup {<<"0">>, <<"X">>, <<"W">>}

Noise == [kind : {"start", "end"}, data : Ignored] \cup [kind : {"text"}, data : Data]

AllEvents == [kind : {"start", "end"}, data : Names] \cup [kind : {"text"}, data : Data]

Opening(name) == <<[kind |-> "start", data |-> name]>>

Closing(name) == <<[kind |-> "end", data |-> name]>>

LEMMA OneEvent ==
  /\ \A name \in Names : Opening(name) \in Seq(AllEvents) /\ Closing(name) \in Seq(AllEvents)
  /\ \A name \in Ignored : Opening(name) \in Seq(Noise) /\ Closing(name) \in Seq(Noise)
  /\ \A data \in Data : Text(<<data>>) \in Seq(AllEvents) /\ Text(<<data>>) \in Seq(Noise)
  /\ Between \in Seq(AllEvents) /\ Between \in Seq(Noise)
<1>1. ASSUME NEW S, NEW e \in S PROVE <<e>> \in Seq(S)
  OBVIOUS
<1>2. ASSUME NEW name \in Names, NEW kind \in {"start", "end"}
      PROVE  [kind |-> kind, data |-> name] \in AllEvents
  BY DEF AllEvents
<1>3. ASSUME NEW name \in Ignored, NEW kind \in {"start", "end"}
      PROVE  [kind |-> kind, data |-> name] \in Noise
  BY DEF Noise
<1>4. ASSUME NEW data \in Data
      PROVE  [kind |-> "text", data |-> data] \in AllEvents
             /\ [kind |-> "text", data |-> data] \in Noise
  BY DEF AllEvents, Noise
<1>5. \A data : Text(<<data>>) = <<[kind |-> "text", data |-> data]>>
  BY DEF Text
<1>6. Blank \in Data
  BY IngestionAssumption DEF Data
<1>7. ASSUME NEW name \in Names
      PROVE  Opening(name) \in Seq(AllEvents) /\ Closing(name) \in Seq(AllEvents)
  BY <1>1, <1>2 DEF Opening, Closing
<1>8. ASSUME NEW name \in Ignored
      PROVE  Opening(name) \in Seq(Noise) /\ Closing(name) \in Seq(Noise)
  BY <1>1, <1>3 DEF Opening, Closing
<1>9. ASSUME NEW data \in Data
      PROVE  Text(<<data>>) \in Seq(AllEvents) /\ Text(<<data>>) \in Seq(Noise)
  BY <1>1, <1>4, <1>5
<1>10. Between \in Seq(AllEvents) /\ Between \in Seq(Noise)
  BY <1>6, <1>9 DEF Between
<1> QED  BY <1>7, <1>8, <1>9, <1>10

LEMMA TextEvents ==
  ASSUME NEW pieces \in Pieces
  PROVE  Text(pieces) \in Seq(AllEvents)
<1>1. /\ pieces \in Seq(Seq(Chars) \ {<< >>}) /\ Len(pieces) \in Nat
      /\ DOMAIN pieces = 1..Len(pieces)
  BY DEF Pieces
<1>2. ASSUME NEW i \in 1..Len(pieces)
      PROVE  [kind |-> "text", data |-> pieces[i]] \in AllEvents
  <2>1. pieces[i] \in Data
    BY <1>1 DEF Data
  <2> QED  BY <2>1 DEF AllEvents
<1> QED  BY <1>1, <1>2 DEF Text

\* Two sequences together.
LEMMA Together ==
  ASSUME NEW S, NEW s \in Seq(S), NEW t \in Seq(S)
  PROVE  s \o t \in Seq(S)
  OBVIOUS

EventSeqs == Seq(AllEvents)

\* Only that which sequences are put together first does not matter.
Chained(s, t) == s \o t

LEMMA Chaining ==
  /\ \A s, t \in EventSeqs : Chained(s, t) \in EventSeqs
  /\ \A s, t, r \in EventSeqs : Chained(Chained(s, t), r) = Chained(s, Chained(t, r))
<1>1. ASSUME NEW s \in EventSeqs, NEW t \in EventSeqs PROVE Chained(s, t) \in EventSeqs
  BY Together DEF EventSeqs, Chained
<1>2. ASSUME NEW s \in EventSeqs, NEW t \in EventSeqs, NEW r \in EventSeqs
      PROVE  Chained(Chained(s, t), r) = Chained(s, Chained(t, r))
  BY ConcatAssociative DEF EventSeqs, Chained
<1> QED  BY <1>1, <1>2

LEMMA ElementEvents ==
  ASSUME NEW name \in Names, NEW content \in EventSeqs
  PROVE  /\ Element(name, content) \in EventSeqs
         /\ \A r \in EventSeqs :
              Chained(Element(name, content), r)
                = Chained(Opening(name), Chained(content, Chained(Closing(name), r)))
<1>1. Opening(name) \in EventSeqs /\ Closing(name) \in EventSeqs
  BY OneEvent DEF EventSeqs
<1>2. Element(name, content) = Chained(Chained(Opening(name), content), Closing(name))
  BY DEF Element, Opening, Closing, Chained
<1> QED  BY <1>1, <1>2, Chaining

LEMMA RegroupedThree ==
  ASSUME NEW a \in EventSeqs, NEW b \in EventSeqs, NEW c \in EventSeqs, NEW r \in EventSeqs
  PROVE  /\ Chained(Chained(a, b), c) \in EventSeqs
         /\ Chained(Chained(Chained(a, b), c), r) = Chained(a, Chained(b, Chained(c, r)))
<1>1. Chained(a, b) \in EventSeqs /\ Chained(c, r) \in EventSeqs
  BY Chaining
<1> QED  BY <1>1, Chaining

LEMMA RegroupedFive ==
  ASSUME NEW a \in EventSeqs, NEW b \in EventSeqs, NEW c \in EventSeqs, NEW d \in EventSeqs,
         NEW e \in EventSeqs, NEW r \in EventSeqs
  PROVE  /\ Chained(Chained(Chained(Chained(a, b), c), d), e) \in EventSeqs
         /\ Chained(Chained(Chained(Chained(Chained(a, b), c), d), e), r)
              = Chained(a, Chained(b, Chained(c, Chained(d, Chained(e, r)))))
<1>1. /\ Chained(a, b) \in EventSeqs /\ Chained(e, r) \in EventSeqs
      /\ Chained(Chained(a, b), c) \in EventSeqs /\ Chained(d, Chained(e, r)) \in EventSeqs
      /\ Chained(Chained(Chained(a, b), c), d) \in EventSeqs
      /\ Chained(c, Chained(d, Chained(e, r))) \in EventSeqs
  BY Chaining
<1> QED  BY <1>1, Chaining

-----------------------------------------------------------------------------
(* What lies ahead of the parser, at each place of a page p that is        *)
(* followed by the events r.                                               *)

\* The pieces of a text behind the j-th.
PiecesFrom(pieces, j) == SubSeq(pieces, j + 1, Len(pieces))

FromPageEnd(r) == Chained(Closing("page"), Chained(Between, r))

FromRevisionEnd(r) == Chained(Closing("revision"), Chained(Between, FromPageEnd(r)))

FromTextEnd(r) == Chained(Closing("text"), Chained(Between, FromRevisionEnd(r)))

FromText(p, r) == Chained(Opening("text"), Chained(Text(p.text), FromTextEnd(r)))

User == Element("contributor", Element("username", Text(<<<<"X">>>>)))

Contributor == Chained(Chained(Between, User), Between)

FromRevision(p, r) == Chained(Opening("revision"), Chained(Contributor, FromText(p, r)))

Number == Element("ns", Text(<<<<"0">>>>))

Namespace == Chained(Chained(Between, Number), Between)

FromTitleEnd(p, r) == Chained(Closing("title"), Chained(Namespace, FromRevision(p, r)))

FromTitle(p, r) == Chained(Opening("title"), Chained(Text(p.title), FromTitleEnd(p, r)))

FromPage(p, r) == Chained(Opening("page"), Chained(Between, FromTitle(p, r)))

LEMMA NoisyElements ==
  /\ Contributor \in Seq(Noise) /\ Namespace \in Seq(Noise)
  /\ User \in EventSeqs /\ Number \in EventSeqs
  /\ Contributor \in EventSeqs /\ Namespace \in EventSeqs
<1>1. <<"X">> \in Data /\ <<"0">> \in Data
  BY DEF Data
<1>2. ASSUME NEW name \in Ignored, NEW content \in Seq(Noise)
      PROVE  Element(name, content) \in Seq(Noise)
  <2>1. Opening(name) \in Seq(Noise) /\ Closing(name) \in Seq(Noise)
    BY OneEvent
  <2>2. Element(name, content) = (Opening(name) \o content) \o Closing(name)
    BY DEF Element, Opening, Closing
  <2>3. Opening(name) \o content \in Seq(Noise)
    BY <2>1, Together
  <2> QED  BY <2>1, <2>2, <2>3, Together
<1>3. "ns" \in Ignored /\ "contributor" \in Ignored /\ "username" \in Ignored
  BY DEF Ignored
<1>4. /\ Element("username", Text(<<<<"X">>>>)) \in Seq(Noise)
      /\ Number \in Seq(Noise)
  BY <1>1, <1>2, <1>3, OneEvent DEF Number
<1>5. User \in Seq(Noise)
  BY <1>2, <1>3, <1>4 DEF User
<1>6. Contributor \in Seq(Noise)
  <2>1. Between \o User \in Seq(Noise)
    BY <1>5, OneEvent, Together
  <2> QED  BY <2>1, OneEvent, Together DEF Contributor, Chained
<1>7. Namespace \in Seq(Noise)
  <2>1. Between \o Number \in Seq(Noise)
    BY <1>4, OneEvent, Together
  <2> QED  BY <2>1, OneEvent, Together DEF Namespace, Chained
<1>8. {"ns", "contributor", "username"} \subseteq Names
  BY DEF Names, Ignored
<1>9. Text(<<<<"X">>>>) \in EventSeqs /\ Text(<<<<"0">>>>) \in EventSeqs /\ Between \in EventSeqs
  BY <1>1, OneEvent DEF EventSeqs
<1>10. User \in EventSeqs /\ Number \in EventSeqs
  BY <1>8, <1>9, ElementEvents DEF User, Number
<1> QED  BY <1>6, <1>7, <1>9, <1>10, Chaining DEF Contributor, Namespace

LEMMA PlacesOfAPage ==
  ASSUME NEW p \in Pages, NEW r \in EventSeqs
  PROVE  /\ FromPageEnd(r) \in EventSeqs /\ FromRevisionEnd(r) \in EventSeqs
         /\ FromTextEnd(r) \in EventSeqs /\ FromText(p, r) \in EventSeqs
         /\ FromRevision(p, r) \in EventSeqs /\ FromTitleEnd(p, r) \in EventSeqs
         /\ FromTitle(p, r) \in EventSeqs /\ FromPage(p, r) \in EventSeqs
<1>1. \A name \in Names : Opening(name) \in EventSeqs /\ Closing(name) \in EventSeqs
  BY OneEvent DEF EventSeqs
<1>2. "page" \in Names /\ "title" \in Names /\ "revision" \in Names /\ "text" \in Names
  BY DEF Names
<1>3. Between \in EventSeqs /\ Text(p.title) \in EventSeqs /\ Text(p.text) \in EventSeqs
  BY OneEvent, TextEvents DEF EventSeqs, Pages
<1>4. FromPageEnd(r) \in EventSeqs
  BY <1>1, <1>2, <1>3, Chaining DEF FromPageEnd
<1>5. FromRevisionEnd(r) \in EventSeqs
  BY <1>1, <1>2, <1>3, <1>4, Chaining DEF FromRevisionEnd
<1>6. FromTextEnd(r) \in EventSeqs
  BY <1>1, <1>2, <1>3, <1>5, Chaining DEF FromTextEnd
<1>7. FromText(p, r) \in EventSeqs
  BY <1>1, <1>2, <1>3, <1>6, Chaining DEF FromText
<1>8. FromRevision(p, r) \in EventSeqs
  BY <1>1, <1>2, <1>7, NoisyElements, Chaining DEF FromRevision
<1>9. FromTitleEnd(p, r) \in EventSeqs
  BY <1>1, <1>2, <1>8, NoisyElements, Chaining DEF FromTitleEnd
<1>10. FromTitle(p, r) \in EventSeqs
  BY <1>1, <1>2, <1>3, <1>9, Chaining DEF FromTitle
<1>11. FromPage(p, r) \in EventSeqs
  BY <1>1, <1>2, <1>3, <1>10, Chaining DEF FromPage
<1> QED  BY <1>4, <1>5, <1>6, <1>7, <1>8, <1>9, <1>10, <1>11

\* A page opened up, and what follows it.
LEMMA PageUnfolds ==
  ASSUME NEW p \in Pages, NEW r \in EventSeqs
  PROVE  /\ Chained(PageEvents(p), Between) \in EventSeqs
         /\ Chained(Chained(PageEvents(p), Between), r) = FromPage(p, r)
<1> DEFINE title_element == Element("title", Text(p.title))
           text_element == Element("text", Text(p.text))
           inside_revision ==
             Chained(Chained(Chained(Chained(Between, User), Between), text_element), Between)
           revision == Element("revision", inside_revision)
           first_lines == Chained(Chained(Between, title_element), Between)
           inside_page ==
             Chained(Chained(Chained(Chained(first_lines, Number), Between), revision), Between)
<1>1. PageEvents(p) = Element("page", inside_page)
  BY DEF PageEvents, Chained, User, Number
<1>2. "page" \in Names /\ "title" \in Names /\ "revision" \in Names /\ "text" \in Names
  BY DEF Names
<1>3. /\ Between \in EventSeqs /\ User \in EventSeqs /\ Number \in EventSeqs
      /\ Text(p.title) \in EventSeqs /\ Text(p.text) \in EventSeqs
  BY OneEvent, NoisyElements, TextEvents DEF EventSeqs, Pages
<1>4. title_element \in EventSeqs /\ text_element \in EventSeqs
  BY <1>2, <1>3, ElementEvents
<1>5. FromPageEnd(r) \in EventSeqs /\ FromRevisionEnd(r) \in EventSeqs
      /\ FromTextEnd(r) \in EventSeqs /\ FromText(p, r) \in EventSeqs
      /\ FromRevision(p, r) \in EventSeqs
  BY PlacesOfAPage
<1>6. Chained(Between, r) \in EventSeqs /\ Chained(Between, FromPageEnd(r)) \in EventSeqs
      /\ Chained(Between, FromRevisionEnd(r)) \in EventSeqs
  BY <1>3, <1>5, Chaining
<1>7. Chained(text_element, Chained(Between, FromRevisionEnd(r))) = FromText(p, r)
  BY <1>2, <1>3, <1>6, ElementEvents DEF FromText, FromTextEnd
<1>8. inside_revision \in EventSeqs
      /\ Chained(inside_revision, FromRevisionEnd(r)) = Chained(Contributor, FromText(p, r))
  <2> HIDE DEF text_element
  <2>1. /\ inside_revision \in EventSeqs
        /\ Chained(inside_revision, FromRevisionEnd(r))
             = Chained(Between, Chained(User, Chained(Between, FromText(p, r))))
    BY <1>3, <1>4, <1>5, <1>7, RegroupedFive, SMTT(30)
  <2>2. Chained(Contributor, FromText(p, r))
          = Chained(Between, Chained(User, Chained(Between, FromText(p, r))))
    BY <1>3, <1>5, RegroupedThree DEF Contributor
  <2> QED  BY <2>1, <2>2
<1>9. revision \in EventSeqs /\ Chained(revision, Chained(Between, FromPageEnd(r))) = FromRevision(p, r)
  <2> HIDE DEF inside_revision
  <2> QED  BY <1>2, <1>6, <1>8, ElementEvents DEF FromRevision, FromRevisionEnd
<1>10. Chained(Between, Chained(Number, Chained(Between, FromRevision(p, r))))
         = Chained(Namespace, FromRevision(p, r))
  BY <1>3, <1>5, RegroupedThree DEF Namespace
<1>11. Chained(Namespace, FromRevision(p, r)) \in EventSeqs
  BY <1>5, NoisyElements, Chaining
<1>12. Chained(title_element, Chained(Namespace, FromRevision(p, r))) = FromTitle(p, r)
  BY <1>2, <1>3, <1>11, ElementEvents DEF FromTitle, FromTitleEnd
<1>13. inside_page \in EventSeqs
       /\ Chained(inside_page, FromPageEnd(r)) = Chained(Between, FromTitle(p, r))
  <2> HIDE DEF title_element, revision
  <2> DEFINE rest == Chained(Number, Chained(Between, FromRevision(p, r)))
  <2>1. rest \in EventSeqs
    BY <1>3, <1>5, Chaining
  <2>2. /\ first_lines \in EventSeqs
        /\ Chained(first_lines, rest)
             = Chained(Between, Chained(title_element, Chained(Between, rest)))
    <3> HIDE DEF rest
    <3> QED  BY <1>3, <1>4, <2>1, RegroupedThree
  <2> HIDE DEF first_lines
  <2>3. /\ inside_page \in EventSeqs
        /\ Chained(inside_page, FromPageEnd(r))
             = Chained(first_lines, Chained(Number, Chained(Between, Chained(revision,
                 Chained(Between, FromPageEnd(r))))))
    BY <1>3, <1>5, <1>9, <2>2, RegroupedFive, SMTT(30)
  <2> QED  BY <2>2, <2>3, <1>9, <1>10, <1>12
<1>14. /\ PageEvents(p) \in EventSeqs
       /\ Chained(PageEvents(p), Chained(Between, r)) = FromPage(p, r)
  <2> HIDE DEF inside_page
  <2> QED  BY <1>1, <1>2, <1>6, <1>13, ElementEvents DEF FromPage, FromPageEnd
<1> QED  BY <1>3, <1>14, Chaining

-----------------------------------------------------------------------------
(* The events of a dump, page by page.                                     *)

\* What lies ahead at the start of each page, and behind the last one.
IsRests(rests, pages) ==
  /\ rests \in [1..Len(pages) + 1 -> EventSeqs]
  /\ rests[Len(pages) + 1] = Closing("mediawiki")
  /\ \A k \in 1..Len(pages) : rests[k] = FromPage(pages[k], rests[k + 1])

Rests(pages) == CHOOSE rests : IsRests(rests, pages)

LEMMA RestsExist ==
  ASSUME NEW pages \in Seq(Pages)
  PROVE  IsRests(Rests(pages), pages)
<1> DEFINE n == Len(pages)
           start == Closing("mediawiki")
           step == [s \in EventSeqs |-> [i \in 1..n |-> FromPage(pages[n + 1 - i], s)]]
<1>1. n \in Nat /\ \A i \in 1..n : pages[i] \in Pages /\ n + 1 - i \in 1..n
  OBVIOUS
<1>2. start \in EventSeqs
  <2>1. "mediawiki" \in Names
    BY DEF Names, Ignored
  <2> QED  BY <2>1, OneEvent DEF EventSeqs
<1>3. \A s \in EventSeqs : \A i \in 1..n : FromPage(pages[n + 1 - i], s) \in EventSeqs
  BY <1>1, PlacesOfAPage
<1>4. step \in [EventSeqs -> [1..n -> EventSeqs]]
  BY <1>3
<1>5. \A s \in EventSeqs : \A i \in 1..n : step[s][i] = FromPage(pages[n + 1 - i], s)
  OBVIOUS
<1> HIDE DEF n, start, step
<1>6. PICK f \in [0..n -> EventSeqs] : IsRecursive(f, start, n, step)
  BY <1>1, <1>2, <1>4, Recursion
<1> DEFINE rests == [k \in 1..n + 1 |-> f[n + 1 - k]]
<1>7. rests \in [1..n + 1 -> EventSeqs] /\ rests[n + 1] = start
  BY <1>1, <1>6 DEF IsRecursive
<1>8. ASSUME NEW k \in 1..n PROVE rests[k] = FromPage(pages[k], rests[k + 1])
  <2>1. /\ n + 1 - k \in 1..n /\ (n + 1 - k) - 1 = n + 1 - (k + 1)
        /\ n + 1 - (n + 1 - k) = k /\ k + 1 \in 1..n + 1 /\ k \in 1..n + 1
        /\ n + 1 - (k + 1) \in 0..n
    BY <1>1
  <2>2. rests[k] = f[n + 1 - k] /\ rests[k + 1] = f[n + 1 - (k + 1)]
    BY <2>1
  <2>3. f[n + 1 - k] = step[f[n + 1 - (k + 1)]][n + 1 - k]
    BY <1>6, <2>1 DEF IsRecursive
  <2>4. f[n + 1 - (k + 1)] \in EventSeqs
    BY <1>6, <2>1
  <2> HIDE DEF rests
  <2> QED  BY <1>5, <2>1, <2>2, <2>3, <2>4
<1> HIDE DEF rests
<1>9. IsRests(rests, pages)
  BY <1>7, <1>8 DEF IsRests, n, start
<1> QED  BY <1>9 DEF Rests

\* The events before the first page, which are all ignored, and from there on.
LEMMA EventsOfPages ==
  ASSUME NEW pages \in Seq(Pages)
  PROVE  /\ Events(pages) \in EventSeqs
         /\ \E header \in Seq(Noise) : Events(pages) = Chained(header, Rests(pages)[1])
<1> DEFINE n == Len(pages)
           seqs == [i \in DOMAIN pages |-> PageEvents(pages[i]) \o Between]
           rests == Rests(pages)
           site == Element("siteinfo", Element("sitename", Text(<<<<"W">>>>)))
           header == Chained(Opening("mediawiki"), Chained(site, Between))
<1>1. n \in Nat /\ DOMAIN pages = 1..n /\ \A i \in 1..n : pages[i] \in Pages
  OBVIOUS
<1>2. IsRests(rests, pages)
  BY RestsExist
<1>3. \A k \in 1..n + 1 : rests[k] \in EventSeqs
  BY <1>2 DEF IsRests
<1>4. DOMAIN seqs = 1..n /\ \A i \in 1..n : seqs[i] = Chained(PageEvents(pages[i]), Between)
  BY <1>1 DEF Chained
<1>5. \A i \in 1..n : seqs[i] \in EventSeqs
  <2>1. Closing("mediawiki") \in EventSeqs
    BY OneEvent DEF EventSeqs, Names, Ignored
  <2> QED  BY <1>1, <1>4, <2>1, PageUnfolds
<1>6. seqs \in Seq(Seq(AllEvents)) /\ Len(seqs) = n
  <2>1. seqs = [i \in 1..n |-> seqs[i]]
    BY <1>4
  <2> HIDE DEF seqs
  <2> QED  BY <1>1, <1>4, <1>5, <2>1 DEF EventSeqs
<1> HIDE DEF seqs, rests, n
<1>7. PICK f \in [0..n -> EventSeqs] : Joins(f, seqs) /\ FlattenSeq(seqs) = f[n]
  BY <1>6, Flattening DEF EventSeqs
<1>8. \A m \in 0..n : Chained(f[m], rests[m + 1]) = rests[1]
  <2> DEFINE T == {m \in Nat : m \in 0..n => Chained(f[m], rests[m + 1]) = rests[1]}
  <2>1. 0 \in T
    <3>1. f[0] = << >> /\ rests[0 + 1] = rests[1] /\ rests[1] \in Seq(AllEvents)
      BY <1>1, <1>3, <1>7 DEF Joins, EventSeqs
    <3> QED  BY <3>1, ConcatEmptySeq DEF Chained
  <2>2. ASSUME NEW m \in Nat, m \in T, m + 1 \in 0..n
        PROVE  Chained(f[m + 1], rests[m + 1 + 1]) = rests[1]
    <3>1. m \in 0..n /\ m + 1 \in 1..n /\ (m + 1) - 1 = m /\ m + 1 + 1 \in 1..n + 1
      BY <1>1, <2>2
    <3>2. /\ f[m + 1] = Chained(f[m], seqs[m + 1])
          /\ f[m] \in EventSeqs /\ seqs[m + 1] \in EventSeqs
      BY <1>5, <1>6, <1>7, <3>1 DEF Joins, Chained
    <3>3. rests[m + 1 + 1] \in EventSeqs /\ rests[m + 1] = FromPage(pages[m + 1], rests[m + 1 + 1])
      BY <1>2, <1>3, <3>1 DEF IsRests, n
    <3>4. Chained(seqs[m + 1], rests[m + 1 + 1]) = rests[m + 1]
      BY <1>1, <1>4, <3>1, <3>3, PageUnfolds
    <3>5. Chained(f[m], rests[m + 1]) = rests[1]
      BY <2>2, <3>1
    <3>6. Chained(Chained(f[m], seqs[m + 1]), rests[m + 1 + 1])
            = Chained(f[m], Chained(seqs[m + 1], rests[m + 1 + 1]))
      BY <3>2, <3>3, Chaining
    <3> QED  BY <3>2, <3>4, <3>5, <3>6
  <2>3. \A m \in Nat : m \in T => m + 1 \in T
    BY <2>2
  <2> HIDE DEF T
  <2>4. Nat \subseteq T
    BY <2>1, <2>3, Induction
  <2> QED  BY <2>4 DEF T
<1>9. Chained(FlattenSeq(seqs), Closing("mediawiki")) = rests[1]
  BY <1>1, <1>2, <1>7, <1>8 DEF IsRests, n
<1>10. {"mediawiki", "siteinfo", "sitename"} \subseteq Names
       /\ {"mediawiki", "siteinfo", "sitename"} \subseteq Ignored
  BY DEF Names, Ignored
<1>11. Text(<<<<"W">>>>) \in EventSeqs /\ Text(<<<<"W">>>>) \in Seq(Noise)
  BY OneEvent DEF Data, EventSeqs
<1>12. site \in EventSeqs
  BY <1>10, <1>11, ElementEvents
<1>13. site \in Seq(Noise)
  <2>1. ASSUME NEW name \in Ignored, NEW content \in Seq(Noise)
        PROVE  Element(name, content) \in Seq(Noise)
    <3>1. Opening(name) \in Seq(Noise) /\ Closing(name) \in Seq(Noise)
      BY OneEvent
    <3>2. Element(name, content) = (Opening(name) \o content) \o Closing(name)
      BY DEF Element, Opening, Closing
    <3>3. Opening(name) \o content \in Seq(Noise)
      BY <3>1, Together
    <3> QED  BY <3>1, <3>2, <3>3, Together
  <2> QED  BY <1>10, <1>11, <2>1
<1> HIDE DEF site
<1>14. header \in Seq(Noise)
  <2>1. Opening("mediawiki") \in Seq(Noise) /\ Between \in Seq(Noise)
    BY <1>10, OneEvent
  <2>2. site \o Between \in Seq(Noise)
    BY <1>13, <2>1, Together
  <2> QED  BY <2>1, <2>2, Together DEF Chained
<1>15. /\ Opening("mediawiki") \in EventSeqs /\ Closing("mediawiki") \in EventSeqs
       /\ Between \in EventSeqs /\ FlattenSeq(seqs) \in EventSeqs
  BY <1>1, <1>7, <1>10, OneEvent DEF EventSeqs
<1> DEFINE lead == Chained(site, Between)
<1>16. lead \in EventSeqs
  BY <1>12, <1>15, Chaining
<1>17. Events(pages)
         = Chained(Chained(Opening("mediawiki"), Chained(lead, FlattenSeq(seqs))),
                  Closing("mediawiki"))
  BY DEF Events, Element, Opening, Closing, Chained, site, seqs
<1> HIDE DEF lead
<1>18. Chained(lead, FlattenSeq(seqs)) \in EventSeqs
  BY <1>15, <1>16, Chaining
<1>19. /\ Events(pages) \in EventSeqs
       /\ Events(pages) = Chained(Opening("mediawiki"), Chained(lead, rests[1]))
  <2> DEFINE a == Opening("mediawiki")
             z == Closing("mediawiki")
             body == FlattenSeq(seqs)
  <2>1. a \in EventSeqs /\ z \in EventSeqs /\ body \in EventSeqs
    BY <1>15
  <2>2. Events(pages) = Chained(Chained(a, Chained(lead, body)), z) /\ Chained(body, z) = rests[1]
    BY <1>9, <1>17
  <2> HIDE DEF a, z, body
  <2>3. Chained(lead, body) \in EventSeqs /\ Chained(a, Chained(lead, body)) \in EventSeqs
    BY <1>16, <2>1, Chaining
  <2>4. Events(pages) \in EventSeqs
    BY <2>1, <2>2, <2>3, Chaining
  <2>5. Chained(Chained(a, Chained(lead, body)), z) = Chained(a, Chained(Chained(lead, body), z))
    BY <2>1, <2>3, Chaining
  <2>6. Chained(Chained(lead, body), z) = Chained(lead, Chained(body, z))
    BY <1>16, <2>1, Chaining
  <2>7. Events(pages) = Chained(a, Chained(lead, rests[1]))
    BY <2>2, <2>5, <2>6
  <2> QED  BY <2>4, <2>7 DEF a
<1>20. Chained(Opening("mediawiki"), Chained(lead, rests[1])) = Chained(header, rests[1])
  <2>1. rests[1] \in EventSeqs
    BY <1>1, <1>3
  <2> QED  BY <1>15, <1>16, <2>1, Chaining, ZenonT(60) DEF lead
<1> QED  BY <1>14, <1>19, <1>20 DEF rests

-----------------------------------------------------------------------------
(* The parser reads what is ahead.                                         *)

IsAhead(r) ==
  /\ r \in EventSeqs /\ events \in EventSeqs
  /\ at \in Nat \ {0} /\ Len(r) + at = Len(events) + 1
  /\ \A i \in 1..Len(r) : r[i] = events[at - 1 + i]

\* What is ahead, behind events that are ignored.
Noisy(r) == \E s \in Seq(Noise) : IsAhead(Chained(s, r))

LEMMA NoiseIsEvents ==
  /\ Noise \subseteq AllEvents
  /\ \A s \in Seq(Noise) : s \in EventSeqs
<1>1. Noise \subseteq AllEvents
  BY DEF Noise, AllEvents, Names
<1> QED  BY <1>1 DEF EventSeqs

LEMMA NextEvent ==
  ASSUME NEW e \in AllEvents, NEW r \in EventSeqs,
         IsAhead(Chained(<<e>>, r)), at' = at + 1, events' = events
  PROVE  at <= Len(events) /\ events[at] = e /\ IsAhead(r)'
<1> DEFINE s == Chained(<<e>>, r)
<1>1. r \in Seq(AllEvents) /\ s \in Seq(AllEvents) /\ events \in Seq(AllEvents)
  BY DEF EventSeqs, IsAhead
<1>2. /\ Len(s) = Len(r) + 1 /\ s[1] = e
      /\ \A i \in 1..Len(r) : s[i + 1] = r[i]
  BY <1>1 DEF Chained
<1> HIDE DEF s
<1>3. /\ at \in Nat \ {0} /\ Len(s) + at = Len(events) + 1
      /\ \A i \in 1..Len(s) : s[i] = events[at - 1 + i]
  BY DEF IsAhead, s
<1>4. Len(r) \in Nat /\ Len(events) \in Nat
  BY <1>1
<1>5. at <= Len(events) /\ events[at] = e
  <2>1. 1 \in 1..Len(s) /\ at - 1 + 1 = at
    BY <1>2, <1>3, <1>4
  <2> QED  BY <1>2, <1>3, <1>4, <2>1
<1>6. ASSUME NEW i \in 1..Len(r) PROVE r[i] = events[(at + 1) - 1 + i]
  <2>1. i + 1 \in 1..Len(s) /\ at - 1 + (i + 1) = (at + 1) - 1 + i
    BY <1>2, <1>3, <1>4
  <2> QED  BY <1>2, <1>3, <2>1
<1>7. Len(r) + (at + 1) = Len(events) + 1 /\ at + 1 \in Nat \ {0}
  BY <1>2, <1>3, <1>4
<1> QED  BY <1>1, <1>5, <1>6, <1>7 DEF IsAhead, EventSeqs

\* Either another event is ignored or the first that is not comes.
LEMMA NoiseStep ==
  ASSUME NEW e \in AllEvents, NEW r \in EventSeqs,
         Noisy(Chained(<<e>>, r)), at' = at + 1, events' = events
  PROVE  \/ events[at] \in Noise /\ Noisy(Chained(<<e>>, r))'
         \/ events[at] = e /\ IsAhead(r)'
<1> DEFINE rest == Chained(<<e>>, r)
<1>1. PICK s \in Seq(Noise) : IsAhead(Chained(s, rest))
  BY DEF Noisy
<1>2. <<e>> \in EventSeqs /\ rest \in EventSeqs
  <2>1. <<e>> \in EventSeqs
    BY DEF EventSeqs
  <2> QED  BY <2>1, Chaining
<1>3. CASE s = << >>
  <2>1. Chained(s, rest) = rest
    BY <1>2, <1>3, ConcatEmptySeq DEF Chained, EventSeqs
  <2> QED  BY <1>1, <2>1, NextEvent
<1>4. CASE s # << >>
  <2>1. Head(s) \in Noise /\ Tail(s) \in Seq(Noise) /\ s = Chained(<<Head(s)>>, Tail(s))
    BY <1>4, HeadTailProperties DEF Chained
  <2> DEFINE h == Head(s)
             t == Tail(s)
  <2> HIDE DEF h, t, rest
  <2>2. h \in AllEvents /\ <<h>> \in EventSeqs /\ t \in EventSeqs /\ Chained(t, rest) \in EventSeqs
    <3>1. h \in AllEvents /\ t \in EventSeqs
      BY <2>1, NoiseIsEvents DEF h, t
    <3>2. <<h>> \in EventSeqs
      BY <3>1 DEF EventSeqs
    <3> QED  BY <1>2, <3>1, <3>2, Chaining
  <2>3. Chained(s, rest) = Chained(<<h>>, Chained(t, rest))
    BY <1>2, <2>1, <2>2, Chaining DEF h, t
  <2>4. events[at] = h /\ IsAhead(Chained(t, rest))'
    BY <1>1, <2>2, <2>3, NextEvent
  <2> QED  BY <2>1, <2>4 DEF h, t, rest, Noisy
<1> QED  BY <1>3, <1>4

LEMMA PiecesFromThere ==
  ASSUME NEW pieces \in Pieces, NEW j \in 0..Len(pieces)
  PROVE  /\ PiecesFrom(pieces, j) \in Pieces /\ Len(PiecesFrom(pieces, j)) = Len(pieces) - j
         /\ \A i \in 1..Len(pieces) - j : PiecesFrom(pieces, j)[i] = pieces[i + j]
<1> DEFINE n == Len(pieces)
           S == Seq(Chars) \ {<< >>}
           b == SubSeq(pieces, j + 1, n)
<1>1. n \in Nat /\ j \in Nat /\ j <= n /\ \A i \in 1..n : pieces[i] \in S
  BY DEF Pieces
<1> HIDE DEF n, S
<1>2. j + 1 \in Int /\ n \in Int /\ \A i \in j + 1..n : pieces[i] \in S
  BY <1>1
<1>3. /\ b \in Seq(S) /\ Len(b) = IF j + 1 <= n THEN n - (j + 1) + 1 ELSE 0
      /\ \A i \in 1..n - (j + 1) + 1 : b[i] = pieces[j + 1 + i - 1]
  BY <1>2, SubSeqProperties
<1> HIDE DEF b
<1>4. Len(b) = n - j
  BY <1>1, <1>3
<1>5. ASSUME NEW i \in 1..n - j PROVE b[i] = pieces[i + j]
  <2>1. i \in 1..n - (j + 1) + 1 /\ j + 1 + i - 1 = i + j
    BY <1>1
  <2> QED  BY <1>3, <2>1
<1> QED  BY <1>3, <1>4, <1>5 DEF b, n, S, PiecesFrom, Pieces

LEMMA TextOfPieces ==
  ASSUME NEW n \in Nat, NEW b, NEW c, DOMAIN b = 1..n + 1, DOMAIN c = 1..n,
         \A i \in 1..n : c[i] = b[i + 1]
  PROVE  Text(b) = Chained(<<[kind |-> "text", data |-> b[1]]>>, Text(c))
<1> DEFINE e == [kind |-> "text", data |-> b[1]]
           all == <<e>> \o Text(c)
<1>1. Text(c) = [i \in 1..n |-> [kind |-> "text", data |-> c[i]]]
  BY DEF Text
<1>2. Len(Text(c)) = n
  BY <1>1
<1> HIDE DEF e
<1>3. all = [i \in 1..n + 1 |-> IF i = 1 THEN e ELSE Text(c)[i - 1]]
  <2> DEFINE tc == Text(c)
  <2>1. Len(tc) = n
    BY <1>2
  <2> HIDE DEF tc
  <2> QED  BY <2>1 DEF tc
<1>4. ASSUME NEW i \in 1..n + 1
      PROVE  [kind |-> "text", data |-> b[i]] = IF i = 1 THEN e ELSE Text(c)[i - 1]
  <2>1. CASE i = 1
    BY <2>1 DEF e
  <2>2. CASE i # 1
    <3>1. i - 1 \in 1..n /\ (i - 1) + 1 = i
      BY <2>2
    <3>2. Text(c)[i - 1] = [kind |-> "text", data |-> c[i - 1]] /\ c[i - 1] = b[i]
      BY <1>1, <3>1
    <3> QED  BY <2>2, <3>2
  <2> QED  BY <2>1, <2>2
<1>5. Text(b) = [i \in 1..n + 1 |-> [kind |-> "text", data |-> b[i]]]
  BY DEF Text
<1>6. Text(b) = all
  <2> HIDE DEF all
  <2> QED  BY <1>3, <1>4, <1>5
<1> QED  BY <1>6 DEF e, Chained

LEMMA TextBehind ==
  ASSUME NEW pieces \in Pieces, NEW j \in 0..Len(pieces)
  PROVE  /\ PiecesFrom(pieces, j) \in Pieces
         /\ PiecesFrom(pieces, 0) = pieces
         /\ j = Len(pieces) => Text(PiecesFrom(pieces, j)) = << >>
         /\ j # Len(pieces) => 
              Text(PiecesFrom(pieces, j))
                = Chained(<<[kind |-> "text", data |-> pieces[j + 1]]>>,
                         Text(PiecesFrom(pieces, j + 1)))
<1>1. /\ pieces \in Seq(Seq(Chars) \ {<< >>}) /\ Len(pieces) \in Nat
      /\ DOMAIN pieces = 1..Len(pieces) /\ j \in Nat /\ j <= Len(pieces)
  BY DEF Pieces
<1>2. PiecesFrom(pieces, j) \in Pieces /\ Len(PiecesFrom(pieces, j)) = Len(pieces) - j
      /\ \A i \in 1..Len(pieces) - j : PiecesFrom(pieces, j)[i] = pieces[i + j]
  BY <1>1, PiecesFromThere
<1>3. PiecesFrom(pieces, 0) = pieces
  BY <1>1 DEF PiecesFrom
<1>4. ASSUME j = Len(pieces) PROVE Text(PiecesFrom(pieces, j)) = << >>
  <2>1. PiecesFrom(pieces, j) = << >>
    BY <1>1, <1>2, <1>4 DEF Pieces
  <2> QED  BY <2>1 DEF Text
<1>5. ASSUME j # Len(pieces)
      PROVE  Text(PiecesFrom(pieces, j))
               = Chained(<<[kind |-> "text", data |-> pieces[j + 1]]>>,
                        Text(PiecesFrom(pieces, j + 1)))
  <2> DEFINE len == Len(pieces)
             b == PiecesFrom(pieces, j)
             c == PiecesFrom(pieces, j + 1)
             n == len - (j + 1)
  <2>1. len \in Nat /\ j \in Nat /\ j <= len /\ j # len
    BY <1>1, <1>5
  <2>2. b \in Pieces /\ Len(b) = len - j /\ \A i \in 1..len - j : b[i] = pieces[i + j]
    BY <1>2
  <2>3. j + 1 \in 0..len
    <3> HIDE DEF len
    <3> QED  BY <2>1
  <2>4. /\ c \in Pieces /\ Len(c) = len - (j + 1)
        /\ \A i \in 1..len - (j + 1) : c[i] = pieces[i + (j + 1)]
    BY <2>3, PiecesFromThere
  <2> HIDE DEF len, b, c
  <2>5. n \in Nat /\ n + 1 = len - j
    BY <2>1
  <2>6. DOMAIN b = 1..n + 1 /\ DOMAIN c = 1..n
    BY <2>2, <2>4, <2>5 DEF Pieces
  <2>7. ASSUME NEW i \in 1..n PROVE c[i] = b[i + 1]
    <3>1. i + 1 \in 1..len - j /\ (i + 1) + j = i + (j + 1)
      BY <2>1, <2>5
    <3> QED  BY <2>2, <2>4, <3>1
  <2>8. b[1] = pieces[j + 1]
    <3>1. 1 \in 1..len - j /\ 1 + j = j + 1
      BY <2>1, <2>5
    <3> QED  BY <2>2, <3>1
  <2> HIDE DEF n
  <2>9. Text(b) = Chained(<<[kind |-> "text", data |-> b[1]]>>, Text(c))
    BY <2>5, <2>6, <2>7, TextOfPieces
  <2> QED  BY <2>8, <2>9 DEF b, c
<1> QED  BY <1>2, <1>3, <1>4, <1>5

\* Either the next piece of the text comes or the first event behind it.
LEMMA PieceStep ==
  ASSUME NEW pieces \in Pieces, NEW j \in 0..Len(pieces),
         NEW e \in AllEvents, NEW r \in EventSeqs,
         IsAhead(Chained(Text(PiecesFrom(pieces, j)), Chained(<<e>>, r))),
         at' = at + 1, events' = events
  PROVE  \/ /\ j # Len(pieces) /\ events[at] = [kind |-> "text", data |-> pieces[j + 1]]
            /\ IsAhead(Chained(Text(PiecesFrom(pieces, j + 1)), Chained(<<e>>, r)))'
         \/ j = Len(pieces) /\ events[at] = e /\ IsAhead(r)'
<1> DEFINE rest == Chained(<<e>>, r)
<1>1. <<e>> \in EventSeqs /\ rest \in EventSeqs
  <2>1. <<e>> \in EventSeqs
    BY DEF EventSeqs
  <2> QED  BY <2>1, Chaining
<1>2. CASE j = Len(pieces)
  <2>1. Text(PiecesFrom(pieces, j)) = << >>
    BY <1>2, TextBehind
  <2>2. Chained(<< >>, rest) = rest
    BY <1>1, ConcatEmptySeq DEF Chained, EventSeqs
  <2> QED  BY <1>2, <2>1, <2>2, NextEvent
<1>3. CASE j # Len(pieces)
  <2> DEFINE h == [kind |-> "text", data |-> pieces[j + 1]]
             t == Text(PiecesFrom(pieces, j + 1))
  <2>1. Text(PiecesFrom(pieces, j)) = Chained(<<h>>, t)
    BY <1>3, TextBehind
  <2>2. h \in AllEvents
    <3>1. Len(pieces) \in Nat /\ j + 1 \in 1..Len(pieces) /\ pieces \in Seq(Seq(Chars) \ {<< >>})
      BY <1>3 DEF Pieces
    <3>2. pieces[j + 1] \in Data
      BY <3>1 DEF Data
    <3> QED  BY <3>2 DEF AllEvents
  <2>3. t \in EventSeqs
    <3>1. Len(pieces) \in Nat /\ j + 1 \in 0..Len(pieces)
      BY <1>3 DEF Pieces
    <3> QED  BY <3>1, TextBehind, TextEvents DEF EventSeqs
  <2> HIDE DEF h, t, rest
  <2>4. <<h>> \in EventSeqs /\ Chained(t, rest) \in EventSeqs
    <3>1. <<h>> \in EventSeqs
      BY <2>2 DEF EventSeqs
    <3> QED  BY <1>1, <2>3, <3>1, Chaining
  <2>5. Chained(Chained(<<h>>, t), rest) = Chained(<<h>>, Chained(t, rest))
    BY <1>1, <2>3, <2>4, Chaining
  <2>6. IsAhead(Chained(<<h>>, Chained(t, rest)))
    BY <2>1, <2>5 DEF rest
  <2>7. events[at] = h /\ IsAhead(Chained(t, rest))'
    BY <2>2, <2>4, <2>6, NextEvent
  <2> QED  BY <1>3, <2>7 DEF h, t, rest
<1> QED  BY <1>2, <1>3

-----------------------------------------------------------------------------
(* What the parser gathers of a title or a text.                           *)

\* s is the first j pieces.
Gathered(s, pieces, j) ==
  \E f \in [0..Len(pieces) -> Seq(Chars)] :
    Joins(f, pieces) /\ FlattenSeq(pieces) = f[Len(pieces)] /\ s = f[j]

LEMMA Gathering ==
  ASSUME NEW pieces \in Pieces
  PROVE  /\ 0 \in 0..Len(pieces) /\ Gathered(<< >>, pieces, 0)
         /\ \A s : \A j \in 0..Len(pieces) :
              Gathered(s, pieces, j) =>
                /\ j # Len(pieces) => Gathered(s \o pieces[j + 1], pieces, j + 1)
                /\ j = Len(pieces) => s = FlattenSeq(pieces)
<1>1. pieces \in Seq(Seq(Chars)) /\ Len(pieces) \in Nat
  BY DEF Pieces
<1>2. Gathered(<< >>, pieces, 0)
  BY <1>1, Flattening DEF Gathered, Joins
<1>3. ASSUME NEW s, NEW j \in 0..Len(pieces), Gathered(s, pieces, j), j # Len(pieces)
      PROVE  Gathered(s \o pieces[j + 1], pieces, j + 1)
  <2>1. PICK f \in [0..Len(pieces) -> Seq(Chars)] :
          Joins(f, pieces) /\ FlattenSeq(pieces) = f[Len(pieces)] /\ s = f[j]
    BY <1>3 DEF Gathered
  <2>2. j + 1 \in 1..Len(pieces) /\ (j + 1) - 1 = j
    BY <1>1, <1>3
  <2>3. f[j + 1] = s \o pieces[j + 1]
    BY <2>1, <2>2 DEF Joins
  <2> QED  BY <2>1, <2>3 DEF Gathered
<1>4. ASSUME NEW s, NEW j \in 0..Len(pieces), Gathered(s, pieces, j), j = Len(pieces)
      PROVE  s = FlattenSeq(pieces)
  BY <1>4 DEF Gathered
<1>5. 0 \in 0..Len(pieces)
  BY <1>1
<1> QED  BY <1>2, <1>3, <1>4, <1>5

LEMMA SomethingGathered ==
  ASSUME NEW pieces \in Pieces
  PROVE  FlattenSeq(pieces) \in Seq(Chars) /\ (FlattenSeq(pieces) = << >> <=> pieces = << >>)
<1>1. pieces \in Seq(Seq(Chars)) /\ Len(pieces) \in Nat
  BY DEF Pieces
<1>2. PICK f \in [0..Len(pieces) -> Seq(Chars)] :
        Joins(f, pieces) /\ FlattenSeq(pieces) = f[Len(pieces)]
  BY <1>1, Flattening
<1>3. FlattenSeq(pieces) \in Seq(Chars)
  BY <1>1, <1>2
<1>4. ASSUME pieces = << >> PROVE FlattenSeq(pieces) = << >>
  BY <1>2, <1>4 DEF Joins
<1>5. ASSUME pieces # << >> PROVE FlattenSeq(pieces) # << >>
  <2> DEFINE n == Len(pieces)
             s == f[n - 1]
             t == pieces[n]
  <2>1. n \in Nat \ {0}
    BY <1>1, <1>5
  <2>2. n - 1 \in 0..n /\ n \in 1..n
    <3> HIDE DEF n
    <3> QED  BY <2>1
  <2>3. s \in Seq(Chars) /\ t \in Seq(Chars) /\ t # << >>
    <3>1. t \in Seq(Chars) \ {<< >>}
      BY <2>2 DEF Pieces
    <3>2. s \in Seq(Chars)
      BY <1>2, <2>2
    <3> QED  BY <3>1, <3>2
  <2>4. FlattenSeq(pieces) = s \o t
    BY <1>2, <2>2 DEF Joins
  <2> HIDE DEF s, t
  <2>5. Len(s \o t) = Len(s) + Len(t) /\ Len(t) # 0 /\ Len(s) \in Nat /\ Len(t) \in Nat
    BY <2>3
  <2>6. Len(s \o t) # 0
    <3> HIDE DEF n
    <3> QED  BY <2>5
  <2> QED  BY <2>4, <2>6
<1> QED  BY <1>3, <1>4, <1>5

-----------------------------------------------------------------------------
(* The handlers, for what is the next event.                               *)

Quiet == current_element \notin {"title", "text"}

Unstopped == stop_requested = FALSE

LEMMA OnStart ==
  ASSUME NEW name \in Names, Parse, events[at] = [kind |-> "start", data |-> name]
  PROVE  StartElement /\ Name = name /\ NoPage
<1>1. events[at].kind = "start" /\ events[at].data = name
  OBVIOUS
<1>2. ~CharData /\ ~EndElement(BelowLimit)
  BY <1>1 DEF CharData, EndElement, Event
<1> QED  BY <1>1, <1>2 DEF Parse, Name

LEMMA OnEnd ==
  ASSUME NEW name \in Names, Parse, events[at] = [kind |-> "end", data |-> name]
  PROVE  /\ EndElement(BelowLimit) /\ Name = name
         /\ IF PageIsComplete THEN AddPage ELSE NoPage
<1>1. events[at].kind = "end" /\ events[at].data = name
  OBVIOUS
<1>2. ~CharData /\ ~StartElement
  BY <1>1 DEF CharData, StartElement, Event
<1> QED  BY <1>1, <1>2 DEF Parse, Name

LEMMA OnText ==
  ASSUME NEW data, Parse, events[at] = [kind |-> "text", data |-> data]
  PROVE  CharData /\ Name = data /\ NoPage
<1>1. events[at].kind = "text" /\ events[at].data = data
  OBVIOUS
<1>2. ~StartElement /\ ~EndElement(BelowLimit)
  BY <1>1 DEF StartElement, EndElement, Event
<1> QED  BY <1>1, <1>2 DEF Parse, Name

LEMMA AnyEvent ==
  ASSUME Parse
  PROVE  /\ at' = at + 1 /\ events' = events /\ dump' = dump
         /\ ~Finished
         /\ UNCHANGED <<max_docs, status, link_graph>>
BY Zenon DEF Parse, StartElement, EndElement, CharData, Event

\* What is ignored changes nothing.
LEMMA OnNoise ==
  ASSUME Parse, events[at] \in Noise, Quiet, Unstopped
  PROVE  /\ UNCHANGED <<title, text>> /\ NoPage /\ Quiet' /\ Unstopped'
         /\ in_page = TRUE => in_page' = TRUE
         /\ in_page = FALSE => in_page' = FALSE
         /\ in_revision = TRUE => in_revision' = TRUE
         /\ in_revision = FALSE => in_revision' = FALSE
<1>1. CASE \E name \in Ignored : events[at] = [kind |-> "start", data |-> name]
  <2>1. PICK name \in Ignored : events[at] = [kind |-> "start", data |-> name]
    BY <1>1
  <2>2. name \in Names /\ name \notin {"page", "revision", "title", "text"}
    BY DEF Ignored, Names
  <2>3. StartElement /\ Name = name /\ NoPage
    BY <2>1, <2>2, OnStart
  <2> QED  BY <2>2, <2>3, Zenon DEF StartElement, Quiet, Unstopped
<1>2. CASE \E name \in Ignored : events[at] = [kind |-> "end", data |-> name]
  <2>1. PICK name \in Ignored : events[at] = [kind |-> "end", data |-> name]
    BY <1>2
  <2>2. name \in Names /\ name \notin {"page", "revision", "title", "text"}
    BY DEF Ignored, Names
  <2>3. EndElement(BelowLimit) /\ Name = name /\ IF PageIsComplete THEN AddPage ELSE NoPage
    BY <2>1, <2>2, OnEnd
  <2>4. ~PageIsComplete
    BY <2>2, <2>3 DEF PageIsComplete
  <2>5. Quiet'
    BY <2>3 DEF EndElement, Quiet
  <2> QED  BY <2>2, <2>3, <2>4, <2>5, Zenon DEF EndElement, Unstopped
<1>3. CASE \E data : events[at] = [kind |-> "text", data |-> data]
  <2>1. CharData /\ NoPage
    BY <1>3, OnText
  <2> QED  BY <2>1, Zenon DEF CharData, Quiet, Unstopped
<1>4. \/ \E name \in Ignored : events[at] = [kind |-> "start", data |-> name]
      \/ \E name \in Ignored : events[at] = [kind |-> "end", data |-> name]
      \/ \E data : events[at] = [kind |-> "text", data |-> data]
  BY DEF Noise
<1> QED  BY <1>1, <1>2, <1>3, <1>4

-----------------------------------------------------------------------------
(* The places at which the parser is in a page p that is followed by r.    *)

Outside(r) ==
  Noisy(r) /\ Quiet /\ in_page = FALSE /\ in_revision = FALSE

BeforeTitle(p, r) ==
  /\ Noisy(FromTitle(p, r)) /\ Quiet /\ in_page = TRUE /\ in_revision = FALSE
  /\ title = << >> /\ text = << >>

InTitle(p, r) ==
  /\ current_element = "title" /\ in_page = TRUE /\ in_revision = FALSE /\ text = << >>
  /\ \E j \in 0..Len(p.title) :
       /\ IsAhead(Chained(Text(PiecesFrom(p.title, j)), FromTitleEnd(p, r)))
       /\ Gathered(title, p.title, j)

BeforeRevision(p, r) ==
  /\ Noisy(FromRevision(p, r)) /\ Quiet /\ in_page = TRUE /\ in_revision = FALSE
  /\ title = FlattenSeq(p.title) /\ text = << >>

BeforeText(p, r) ==
  /\ Noisy(FromText(p, r)) /\ Quiet /\ in_page = TRUE /\ in_revision = TRUE
  /\ title = FlattenSeq(p.title) /\ text = << >>

InText(p, r) ==
  /\ current_element = "text" /\ in_page = TRUE /\ in_revision = TRUE
  /\ title = FlattenSeq(p.title)
  /\ \E j \in 0..Len(p.text) :
       /\ IsAhead(Chained(Text(PiecesFrom(p.text, j)), FromTextEnd(r)))
       /\ Gathered(text, p.text, j)

BeforeRevisionEnd(p, r) ==
  /\ Noisy(FromRevisionEnd(r)) /\ Quiet /\ in_page = TRUE /\ in_revision = TRUE
  /\ title = FlattenSeq(p.title) /\ text = FlattenSeq(p.text)

BeforePageEnd(p, r) ==
  /\ Noisy(FromPageEnd(r)) /\ Quiet /\ in_page = TRUE /\ in_revision = FALSE
  /\ title = FlattenSeq(p.title) /\ text = FlattenSeq(p.text)

Inside(p, r) ==
  \/ BeforeTitle(p, r) \/ InTitle(p, r) \/ BeforeRevision(p, r) \/ BeforeText(p, r)
  \/ InText(p, r) \/ BeforeRevisionEnd(p, r) \/ BeforePageEnd(p, r)

EventOf(kind, name) == [kind |-> kind, data |-> name]

\* What follows the events between elements is noisy.
LEMMA NoiseAhead ==
  ASSUME NEW s \in Seq(Noise), NEW r \in EventSeqs, IsAhead(Chained(s, r))'
  PROVE  Noisy(r)'
BY DEF Noisy

LEMMA NamedEvents ==
  /\ \A name \in Names, kind \in {"start", "end"} : EventOf(kind, name) \in AllEvents
  /\ \A name : Opening(name) = <<EventOf("start", name)>> /\ Closing(name) = <<EventOf("end", name)>>
  /\ {"page", "title", "revision", "text"} \subseteq Names
  /\ {"page", "title", "revision", "text"} \cap Ignored = {}
BY DEF EventOf, AllEvents, Opening, Closing, Names, Ignored

LEMMA OutsideStep ==
  ASSUME NEW p \in Pages, NEW r \in EventSeqs, Outside(FromPage(p, r)), Unstopped, Parse
  PROVE  /\ NoPage /\ Unstopped'
         /\ Outside(FromPage(p, r))' \/ BeforeTitle(p, r)'
<1> DEFINE e == EventOf("start", "page")
           rest == Chained(Between, FromTitle(p, r))
<1>1. /\ FromPage(p, r) = Chained(<<e>>, rest) /\ e \in AllEvents
      /\ rest \in EventSeqs /\ FromTitle(p, r) \in EventSeqs
  BY NamedEvents, PlacesOfAPage, OneEvent, Chaining DEF FromPage, EventSeqs
<1> HIDE DEF rest
<1>2. at' = at + 1 /\ events' = events
  BY AnyEvent
<1>3. \/ events[at] \in Noise /\ Noisy(Chained(<<e>>, rest))'
      \/ events[at] = e /\ IsAhead(rest)'
  BY <1>1, <1>2, NoiseStep DEF Outside
<1>4. CASE events[at] \in Noise /\ Noisy(Chained(<<e>>, rest))'
  BY <1>1, <1>4, OnNoise DEF Outside
<1>5. CASE events[at] = e /\ IsAhead(rest)'
  <2>1. StartElement /\ Name = "page" /\ NoPage
    BY <1>5, NamedEvents, OnStart DEF EventOf
  <2>2. Noisy(FromTitle(p, r))'
    BY <1>1, <1>5, OneEvent, NoiseAhead DEF rest
  <2>3. /\ title' = << >> /\ text' = << >> /\ Quiet' /\ Unstopped'
        /\ in_page' = TRUE /\ in_revision' = FALSE
    BY <2>1 DEF StartElement, ClearedOf, Quiet, Unstopped, Outside
  <2> QED  BY <2>1, <2>2, <2>3 DEF BeforeTitle
<1> QED  BY <1>3, <1>4, <1>5

LEMMA BeforeTitleStep ==
  ASSUME NEW p \in Pages, NEW r \in EventSeqs, BeforeTitle(p, r), Unstopped, Parse
  PROVE  /\ NoPage /\ Unstopped'
         /\ BeforeTitle(p, r)' \/ InTitle(p, r)'
<1> DEFINE e == EventOf("start", "title")
           rest == Chained(Text(p.title), FromTitleEnd(p, r))
<1>1. /\ FromTitle(p, r) = Chained(<<e>>, rest) /\ e \in AllEvents
      /\ rest \in EventSeqs /\ FromTitleEnd(p, r) \in EventSeqs /\ p.title \in Pieces
  BY NamedEvents, PlacesOfAPage, TextEvents, Chaining DEF FromTitle, EventSeqs, Pages
<1> HIDE DEF rest
<1>2. at' = at + 1 /\ events' = events
  BY AnyEvent
<1>3. \/ events[at] \in Noise /\ Noisy(Chained(<<e>>, rest))'
      \/ events[at] = e /\ IsAhead(rest)'
  BY <1>1, <1>2, NoiseStep DEF BeforeTitle
<1>4. CASE events[at] \in Noise /\ Noisy(Chained(<<e>>, rest))'
  BY <1>1, <1>4, OnNoise DEF BeforeTitle
<1>5. CASE events[at] = e /\ IsAhead(rest)'
  <2>1. StartElement /\ Name = "title" /\ NoPage
    BY <1>5, NamedEvents, OnStart DEF EventOf
  <2>2. PiecesFrom(p.title, 0) = p.title /\ Gathered(<< >>, p.title, 0) /\ 0 \in 0..Len(p.title)
    BY <1>1, TextBehind, Gathering
  <2>3. /\ title' = << >> /\ text' = << >> /\ Unstopped' /\ current_element' = "title"
        /\ in_page' = TRUE /\ in_revision' = FALSE
    BY <2>1 DEF StartElement, Unstopped, BeforeTitle
  <2>4. IsAhead(Chained(Text(PiecesFrom(p.title, 0)), FromTitleEnd(p, r)))'
    BY <1>5, <2>2 DEF rest
  <2>5. Gathered(title, p.title, 0)'
    BY <2>2, <2>3 DEF Gathered
  <2>6. InTitle(p, r)'
    BY <2>2, <2>3, <2>4, <2>5 DEF InTitle
  <2> QED  BY <2>1, <2>3, <2>6
<1> QED  BY <1>3, <1>4, <1>5

LEMMA InTitleStep ==
  ASSUME NEW p \in Pages, NEW r \in EventSeqs, InTitle(p, r), Unstopped, Parse
  PROVE  /\ NoPage /\ Unstopped'
         /\ InTitle(p, r)' \/ BeforeRevision(p, r)'
<1> DEFINE e == EventOf("end", "title")
           rest == Chained(Namespace, FromRevision(p, r))
<1>1. /\ FromTitleEnd(p, r) = Chained(<<e>>, rest) /\ e \in AllEvents
      /\ rest \in EventSeqs /\ FromRevision(p, r) \in EventSeqs /\ p.title \in Pieces
  BY NamedEvents, PlacesOfAPage, NoisyElements, Chaining DEF FromTitleEnd, Pages
<1> HIDE DEF rest
<1>2. at' = at + 1 /\ events' = events
  BY AnyEvent
<1>3. PICK j \in 0..Len(p.title) :
        /\ IsAhead(Chained(Text(PiecesFrom(p.title, j)), Chained(<<e>>, rest)))
        /\ Gathered(title, p.title, j)
  BY <1>1 DEF InTitle
<1>4. \/ /\ j # Len(p.title) /\ events[at] = [kind |-> "text", data |-> p.title[j + 1]]
         /\ IsAhead(Chained(Text(PiecesFrom(p.title, j + 1)), Chained(<<e>>, rest)))'
      \/ j = Len(p.title) /\ events[at] = e /\ IsAhead(rest)'
  BY <1>1, <1>2, <1>3, PieceStep
<1>5. CASE /\ j # Len(p.title) /\ events[at] = [kind |-> "text", data |-> p.title[j + 1]]
           /\ IsAhead(Chained(Text(PiecesFrom(p.title, j + 1)), Chained(<<e>>, rest)))'
  <2>1. CharData /\ NoPage /\ Name = p.title[j + 1]
    BY <1>5, OnText
  <2>2. /\ title' = title \o p.title[j + 1] /\ text' = text
        /\ UNCHANGED <<current_element, in_page, in_revision, stop_requested>>
    BY <2>1, Zenon DEF CharData, InTitle
  <2>3. j + 1 \in 0..Len(p.title)
    BY <1>1, <1>5 DEF Pieces
  <2>4. Gathered(title \o p.title[j + 1], p.title, j + 1)
    BY <1>1, <1>3, <1>5, Gathering
  <2>5. Gathered(title, p.title, j + 1)'
    BY <2>2, <2>4 DEF Gathered
  <2>6. InTitle(p, r)'
    BY <1>1, <1>5, <2>2, <2>3, <2>5 DEF InTitle
  <2> QED  BY <2>1, <2>2, <2>6 DEF Unstopped
<1>6. CASE j = Len(p.title) /\ events[at] = e /\ IsAhead(rest)'
  <2>1. EndElement(BelowLimit) /\ Name = "title" /\ IF PageIsComplete THEN AddPage ELSE NoPage
    BY <1>6, NamedEvents, OnEnd DEF EventOf
  <2>2. ~PageIsComplete /\ NoPage
    BY <2>1 DEF PageIsComplete
  <2>3. Noisy(FromRevision(p, r))'
    BY <1>1, <1>6, NoisyElements, NoiseAhead DEF rest
  <2>4. title = FlattenSeq(p.title)
    BY <1>1, <1>3, <1>6, Gathering
  <2>5. /\ title' = title /\ text' = << >> /\ Quiet' /\ Unstopped'
        /\ in_page' = TRUE /\ in_revision' = FALSE
    BY <2>1, <2>2 DEF EndElement, Quiet, Unstopped, InTitle
  <2> QED  BY <2>2, <2>3, <2>4, <2>5 DEF BeforeRevision
<1> QED  BY <1>4, <1>5, <1>6

LEMMA BeforeRevisionStep ==
  ASSUME NEW p \in Pages, NEW r \in EventSeqs, BeforeRevision(p, r), Unstopped, Parse
  PROVE  /\ NoPage /\ Unstopped'
         /\ BeforeRevision(p, r)' \/ BeforeText(p, r)'
<1> DEFINE e == EventOf("start", "revision")
           rest == Chained(Contributor, FromText(p, r))
<1>1. /\ FromRevision(p, r) = Chained(<<e>>, rest) /\ e \in AllEvents
      /\ rest \in EventSeqs /\ FromText(p, r) \in EventSeqs
  BY NamedEvents, PlacesOfAPage, NoisyElements, Chaining DEF FromRevision
<1> HIDE DEF rest
<1>2. at' = at + 1 /\ events' = events
  BY AnyEvent
<1>3. \/ events[at] \in Noise /\ Noisy(Chained(<<e>>, rest))'
      \/ events[at] = e /\ IsAhead(rest)'
  BY <1>1, <1>2, NoiseStep DEF BeforeRevision
<1>4. CASE events[at] \in Noise /\ Noisy(Chained(<<e>>, rest))'
  BY <1>1, <1>4, OnNoise DEF BeforeRevision
<1>5. CASE events[at] = e /\ IsAhead(rest)'
  <2>1. StartElement /\ Name = "revision" /\ NoPage
    BY <1>5, NamedEvents, OnStart DEF EventOf
  <2>2. Noisy(FromText(p, r))'
    BY <1>1, <1>5, NoisyElements, NoiseAhead DEF rest
  <2>3. /\ title' = title /\ text' = << >> /\ Quiet' /\ Unstopped'
        /\ in_page' = TRUE /\ in_revision' = TRUE
    BY <2>1 DEF StartElement, Quiet, Unstopped, BeforeRevision
  <2> QED  BY <2>1, <2>2, <2>3 DEF BeforeText, BeforeRevision
<1> QED  BY <1>3, <1>4, <1>5

LEMMA BeforeTextStep ==
  ASSUME NEW p \in Pages, NEW r \in EventSeqs, BeforeText(p, r), Unstopped, Parse
  PROVE  /\ NoPage /\ Unstopped'
         /\ BeforeText(p, r)' \/ InText(p, r)'
<1> DEFINE e == EventOf("start", "text")
           rest == Chained(Text(p.text), FromTextEnd(r))
<1>1. /\ FromText(p, r) = Chained(<<e>>, rest) /\ e \in AllEvents
      /\ rest \in EventSeqs /\ FromTextEnd(r) \in EventSeqs /\ p.text \in Pieces
  BY NamedEvents, PlacesOfAPage, TextEvents, Chaining DEF FromText, EventSeqs, Pages
<1> HIDE DEF rest
<1>2. at' = at + 1 /\ events' = events
  BY AnyEvent
<1>3. \/ events[at] \in Noise /\ Noisy(Chained(<<e>>, rest))'
      \/ events[at] = e /\ IsAhead(rest)'
  BY <1>1, <1>2, NoiseStep DEF BeforeText
<1>4. CASE events[at] \in Noise /\ Noisy(Chained(<<e>>, rest))'
  BY <1>1, <1>4, OnNoise DEF BeforeText
<1>5. CASE events[at] = e /\ IsAhead(rest)'
  <2>1. StartElement /\ Name = "text" /\ NoPage
    BY <1>5, NamedEvents, OnStart DEF EventOf
  <2>2. PiecesFrom(p.text, 0) = p.text /\ Gathered(<< >>, p.text, 0) /\ 0 \in 0..Len(p.text)
    BY <1>1, TextBehind, Gathering
  <2>3. /\ title' = FlattenSeq(p.title) /\ text' = << >> /\ Unstopped'
        /\ current_element' = "text" /\ in_page' = TRUE /\ in_revision' = TRUE
    BY <2>1 DEF StartElement, Unstopped, BeforeText
  <2>4. IsAhead(Chained(Text(PiecesFrom(p.text, 0)), FromTextEnd(r)))'
    BY <1>5, <2>2 DEF rest
  <2>5. Gathered(text, p.text, 0)'
    BY <2>2, <2>3 DEF Gathered
  <2>6. InText(p, r)'
    BY <2>2, <2>3, <2>4, <2>5 DEF InText
  <2> QED  BY <2>1, <2>3, <2>6
<1> QED  BY <1>3, <1>4, <1>5

LEMMA InTextStep ==
  ASSUME NEW p \in Pages, NEW r \in EventSeqs, InText(p, r), Unstopped, Parse
  PROVE  /\ NoPage /\ Unstopped'
         /\ InText(p, r)' \/ BeforeRevisionEnd(p, r)'
<1> DEFINE e == EventOf("end", "text")
           rest == Chained(Between, FromRevisionEnd(r))
<1>1. /\ FromTextEnd(r) = Chained(<<e>>, rest) /\ e \in AllEvents
      /\ rest \in EventSeqs /\ FromRevisionEnd(r) \in EventSeqs /\ p.text \in Pieces
  BY NamedEvents, PlacesOfAPage, OneEvent, Chaining DEF FromTextEnd, EventSeqs, Pages
<1> HIDE DEF rest
<1>2. at' = at + 1 /\ events' = events
  BY AnyEvent
<1>3. PICK j \in 0..Len(p.text) :
        /\ IsAhead(Chained(Text(PiecesFrom(p.text, j)), Chained(<<e>>, rest)))
        /\ Gathered(text, p.text, j)
  BY <1>1 DEF InText
<1>4. \/ /\ j # Len(p.text) /\ events[at] = [kind |-> "text", data |-> p.text[j + 1]]
         /\ IsAhead(Chained(Text(PiecesFrom(p.text, j + 1)), Chained(<<e>>, rest)))'
      \/ j = Len(p.text) /\ events[at] = e /\ IsAhead(rest)'
  BY <1>1, <1>2, <1>3, PieceStep
<1>5. CASE /\ j # Len(p.text) /\ events[at] = [kind |-> "text", data |-> p.text[j + 1]]
           /\ IsAhead(Chained(Text(PiecesFrom(p.text, j + 1)), Chained(<<e>>, rest)))'
  <2>1. CharData /\ NoPage /\ Name = p.text[j + 1]
    BY <1>5, OnText
  <2>2. /\ title' = title /\ text' = text \o p.text[j + 1]
        /\ UNCHANGED <<current_element, in_page, in_revision, stop_requested>>
    <3>1. current_element = "text" /\ current_element # "title" /\ in_page = TRUE
          /\ in_revision = TRUE
      BY DEF InText
    <3> QED  BY <2>1, <3>1, Zenon DEF CharData
  <2>3. j + 1 \in 0..Len(p.text)
    BY <1>1, <1>5 DEF Pieces
  <2>4. Gathered(text \o p.text[j + 1], p.text, j + 1)
    BY <1>1, <1>3, <1>5, Gathering
  <2>5. Gathered(text, p.text, j + 1)'
    BY <2>2, <2>4 DEF Gathered
  <2>6. InText(p, r)'
    BY <1>1, <1>5, <2>2, <2>3, <2>5 DEF InText
  <2> QED  BY <2>1, <2>2, <2>6 DEF Unstopped
<1>6. CASE j = Len(p.text) /\ events[at] = e /\ IsAhead(rest)'
  <2>1. EndElement(BelowLimit) /\ Name = "text" /\ IF PageIsComplete THEN AddPage ELSE NoPage
    BY <1>6, NamedEvents, OnEnd DEF EventOf
  <2>2. ~PageIsComplete /\ NoPage
    BY <2>1 DEF PageIsComplete
  <2>3. Noisy(FromRevisionEnd(r))'
    BY <1>1, <1>6, OneEvent, NoiseAhead DEF rest
  <2>4. text = FlattenSeq(p.text)
    BY <1>1, <1>3, <1>6, Gathering
  <2>5. /\ title' = title /\ text' = text /\ Quiet' /\ Unstopped'
        /\ in_page' = TRUE /\ in_revision' = TRUE
    BY <2>1, <2>2 DEF EndElement, Quiet, Unstopped, InText
  <2> QED  BY <2>2, <2>3, <2>4, <2>5 DEF BeforeRevisionEnd, InText
<1> QED  BY <1>4, <1>5, <1>6

LEMMA BeforeRevisionEndStep ==
  ASSUME NEW p \in Pages, NEW r \in EventSeqs, BeforeRevisionEnd(p, r), Unstopped, Parse
  PROVE  /\ NoPage /\ Unstopped'
         /\ BeforeRevisionEnd(p, r)' \/ BeforePageEnd(p, r)'
<1> DEFINE e == EventOf("end", "revision")
           rest == Chained(Between, FromPageEnd(r))
<1>1. /\ FromRevisionEnd(r) = Chained(<<e>>, rest) /\ e \in AllEvents
      /\ rest \in EventSeqs /\ FromPageEnd(r) \in EventSeqs
  BY NamedEvents, PlacesOfAPage, OneEvent, Chaining DEF FromRevisionEnd, EventSeqs
<1> HIDE DEF rest
<1>2. at' = at + 1 /\ events' = events
  BY AnyEvent
<1>3. \/ events[at] \in Noise /\ Noisy(Chained(<<e>>, rest))'
      \/ events[at] = e /\ IsAhead(rest)'
  BY <1>1, <1>2, NoiseStep DEF BeforeRevisionEnd
<1>4. CASE events[at] \in Noise /\ Noisy(Chained(<<e>>, rest))'
  BY <1>1, <1>4, OnNoise DEF BeforeRevisionEnd
<1>5. CASE events[at] = e /\ IsAhead(rest)'
  <2>1. EndElement(BelowLimit) /\ Name = "revision" /\ IF PageIsComplete THEN AddPage ELSE NoPage
    BY <1>5, NamedEvents, OnEnd DEF EventOf
  <2>2. ~PageIsComplete /\ NoPage
    BY <2>1 DEF PageIsComplete
  <2>3. Noisy(FromPageEnd(r))'
    BY <1>1, <1>5, OneEvent, NoiseAhead DEF rest
  <2>4. /\ title' = title /\ text' = text /\ Quiet' /\ Unstopped'
        /\ in_page' = TRUE /\ in_revision' = FALSE
    BY <2>1, <2>2 DEF EndElement, Quiet, Unstopped, BeforeRevisionEnd
  <2> QED  BY <2>2, <2>3, <2>4 DEF BeforePageEnd, BeforeRevisionEnd
<1> QED  BY <1>3, <1>4, <1>5

\* The page's own title and text are added, if it has both.
IsComplete(p) == p.title # << >> /\ p.text # << >>

LEMMA BeforePageEndStep ==
  ASSUME NEW p \in Pages, NEW r \in EventSeqs, BeforePageEnd(p, r), Unstopped, Parse
  PROVE  \/ BeforePageEnd(p, r)' /\ NoPage /\ Unstopped'
         \/ /\ IsAhead(Chained(Between, r))' /\ Quiet'
            /\ in_page' = FALSE /\ in_revision' = FALSE
            /\ title = FlattenSeq(p.title) /\ text = FlattenSeq(p.text)
            /\ IF IsComplete(p) THEN AddPage /\ (stop_requested' = ~BelowLimit)
               ELSE NoPage /\ Unstopped'
<1> DEFINE e == EventOf("end", "page")
           rest == Chained(Between, r)
<1>1. /\ FromPageEnd(r) = Chained(<<e>>, rest) /\ e \in AllEvents /\ rest \in EventSeqs
  BY NamedEvents, OneEvent, Chaining DEF FromPageEnd, EventSeqs
<1> HIDE DEF rest
<1>2. at' = at + 1 /\ events' = events
  BY AnyEvent
<1>3. \/ events[at] \in Noise /\ Noisy(Chained(<<e>>, rest))'
      \/ events[at] = e /\ IsAhead(rest)'
  BY <1>1, <1>2, NoiseStep DEF BeforePageEnd
<1>4. CASE events[at] \in Noise /\ Noisy(Chained(<<e>>, rest))'
  BY <1>1, <1>4, OnNoise DEF BeforePageEnd
<1>5. CASE events[at] = e /\ IsAhead(rest)'
  <2>1. EndElement(BelowLimit) /\ Name = "page" /\ IF PageIsComplete THEN AddPage ELSE NoPage
    BY <1>5, NamedEvents, OnEnd DEF EventOf
  <2>2. title = FlattenSeq(p.title) /\ text = FlattenSeq(p.text)
    BY DEF BeforePageEnd
  <2>3. PageIsComplete <=> IsComplete(p)
    <3>1. p.title \in Pieces /\ p.text \in Pieces
      BY DEF Pages
    <3> QED  BY <2>1, <2>2, <3>1, SomethingGathered DEF PageIsComplete, IsComplete
  <2>4. Quiet' /\ in_page' = FALSE /\ in_revision' = FALSE
    BY <2>1 DEF EndElement, Quiet, BeforePageEnd
  <2>5. stop_requested' = (PageIsComplete /\ ~BelowLimit)
    BY <2>1 DEF EndElement
  <2>6. IF IsComplete(p) THEN AddPage /\ (stop_requested' = ~BelowLimit) ELSE NoPage /\ Unstopped'
    BY <2>1, <2>3, <2>5, Zenon DEF Unstopped
  <2> QED  BY <1>5, <2>2, <2>4, <2>6 DEF rest
<1> QED  BY <1>3, <1>4, <1>5

\* PiecesFrom the last page nothing more happens.
Trailing ==
  (\E s \in Seq(Noise) : IsAhead(s)) /\ Quiet /\ in_page = FALSE /\ in_revision = FALSE

LEMMA TrailingStep ==
  ASSUME Trailing, Unstopped, Parse
  PROVE  NoPage /\ Unstopped' /\ Trailing'
<1>1. PICK s \in Seq(Noise) : IsAhead(s)
  BY DEF Trailing
<1>2. at' = at + 1 /\ events' = events /\ ~(at > Len(events))
  BY AnyEvent DEF Finished
<1>3. s # << >>
  <2>1. Len(s) \in Nat /\ Len(s) + at = Len(events) + 1 /\ at \in Nat /\ Len(events) \in Nat
    BY <1>1 DEF IsAhead, EventSeqs
  <2> SUFFICES ASSUME Len(s) = 0 PROVE FALSE
    OBVIOUS
  <2> QED  BY <1>2, <2>1
<1>4. Head(s) \in Noise /\ Tail(s) \in Seq(Noise) /\ s = Chained(<<Head(s)>>, Tail(s))
  BY <1>3, HeadTailProperties DEF Chained
<1>5. events[at] = Head(s) /\ IsAhead(Tail(s))'
  <2> DEFINE h == Head(s)
             t == Tail(s)
  <2>1. h \in AllEvents /\ t \in EventSeqs /\ IsAhead(Chained(<<h>>, t))
    BY <1>1, <1>4, NoiseIsEvents
  <2> HIDE DEF h, t
  <2>2. events[at] = h /\ IsAhead(t)'
    BY <1>2, <2>1, NextEvent
  <2> QED  BY <2>2 DEF h, t
<1>6. NoPage /\ Unstopped' /\ Quiet' /\ in_page' = FALSE /\ in_revision' = FALSE
  BY <1>4, <1>5, OnNoise DEF Trailing
<1> QED  BY <1>4, <1>5, <1>6 DEF Trailing

-----------------------------------------------------------------------------
(* The pages that are indexed.                                             *)

\* The pages that have a title and a text among the first n, for each n.
Firsts(pages) ==
  CHOOSE first : first = [n \in 0..Len(pages) |->
    IF n = 0 THEN << >>
    ELSE IF pages[n].title # << >> /\ pages[n].text # << >> THEN Append(first[n - 1], pages[n])
    ELSE first[n - 1]]

LEMMA IndexableIsLast ==
  Indexable = Firsts(dump)[Len(dump)]
BY DEF Indexable, Firsts

LEMMA FirstPages ==
  ASSUME NEW S, NEW pages \in Seq(S)
  PROVE  /\ Firsts(pages) \in [0..Len(pages) -> Seq(S)]
         /\ Firsts(pages)[0] = << >>
         /\ \A k \in 1..Len(pages) :
              Firsts(pages)[k] = IF IsComplete(pages[k])
                                 THEN Append(Firsts(pages)[k - 1], pages[k])
                                 ELSE Firsts(pages)[k - 1]
<1> DEFINE n == Len(pages)
           step == [s \in Seq(S) |-> [i \in 1..n |->
                      IF IsComplete(pages[i]) THEN Append(s, pages[i]) ELSE s]]
           IsFirsts(g) == g = [i \in 0..n |->
             IF i = 0 THEN << >>
             ELSE IF pages[i].title # << >> /\ pages[i].text # << >> THEN Append(g[i - 1], pages[i])
             ELSE g[i - 1]]
           start == << >>
           F == Firsts(pages)
<1>1. n \in Nat /\ \A i \in 1..n : pages[i] \in S
  OBVIOUS
<1>2. \A s \in Seq(S) : \A i \in 1..n :
        (IF IsComplete(pages[i]) THEN Append(s, pages[i]) ELSE s) \in Seq(S)
  BY <1>1
<1>3. step \in [Seq(S) -> [1..n -> Seq(S)]] /\ start \in Seq(S)
  BY <1>2
<1>4. \A s \in Seq(S) : \A i \in 1..n :
        step[s][i] = IF IsComplete(pages[i]) THEN Append(s, pages[i]) ELSE s
  OBVIOUS
<1> HIDE DEF step, n, start
<1>5. PICK f \in [0..n -> Seq(S)] : IsRecursive(f, start, n, step)
  BY <1>1, <1>3, Recursion
<1>6. IsFirsts(f)
  <2>1. ASSUME NEW i \in 0..n
        PROVE  f[i] = IF i = 0 THEN << >>
                      ELSE IF pages[i].title # << >> /\ pages[i].text # << >>
                           THEN Append(f[i - 1], pages[i])
                      ELSE f[i - 1]
    <3>1. CASE i = 0
      BY <1>5, <3>1 DEF IsRecursive, start
    <3>2. CASE i # 0
      <4>1. i \in 1..n /\ i - 1 \in 0..n
        BY <1>1, <3>2
      <4>2. f[i] = step[f[i - 1]][i] /\ f[i - 1] \in Seq(S)
        BY <1>5, <4>1 DEF IsRecursive
      <4> QED  BY <1>4, <3>2, <4>1, <4>2 DEF IsComplete
    <3> QED  BY <3>1, <3>2
  <2> QED  BY <1>5, <2>1
<1>7. F = CHOOSE g : IsFirsts(g)
  BY DEF Firsts, n
<1>8. IsFirsts(F)
  <2> HIDE DEF IsFirsts, F
  <2> QED  BY <1>6, <1>7
<1> HIDE DEF F
<1>9. /\ F[0] = << >>
      /\ \A k \in 1..n : F[k] = IF IsComplete(pages[k]) THEN Append(F[k - 1], pages[k])
                                ELSE F[k - 1]
  <2>1. F[0] = << >>
    <3>1. 0 \in 0..n
      BY <1>1
    <3> QED  BY <1>8, <3>1
  <2>2. ASSUME NEW k \in 1..n
        PROVE  F[k] = IF IsComplete(pages[k]) THEN Append(F[k - 1], pages[k]) ELSE F[k - 1]
    <3>1. k \in 0..n /\ k # 0
      BY <1>1
    <3> QED  BY <1>8, <3>1 DEF IsComplete
  <2> QED  BY <2>1, <2>2
<1>10. \A k \in 0..n : F[k] \in Seq(S)
  <2> DEFINE T == {m \in Nat : m \in 0..n => F[m] \in Seq(S)}
  <2>1. 0 \in T
    <3>1. F[0] \in Seq(S)
      BY <1>9
    <3> QED  BY <3>1
  <2>2. ASSUME NEW m \in Nat, m \in T, m + 1 \in 0..n PROVE F[m + 1] \in Seq(S)
    <3>1. m + 1 \in 1..n /\ (m + 1) - 1 = m /\ m \in 0..n
      BY <1>1, <2>2
    <3>2. F[m] \in Seq(S) /\ pages[m + 1] \in S
      BY <1>1, <2>2, <3>1
    <3>3. F[m + 1] = IF IsComplete(pages[m + 1]) THEN Append(F[m], pages[m + 1]) ELSE F[m]
      BY <1>9, <3>1
    <3> QED  BY <3>2, <3>3
  <2>3. \A m \in Nat : m \in T => m + 1 \in T
    BY <2>2
  <2> HIDE DEF T
  <2>4. Nat \subseteq T
    BY <2>1, <2>3, Induction
  <2> QED  BY <2>4 DEF T
<1>11. F = [i \in 0..n |-> F[i]]
  BY <1>8
<1>12. F \in [0..n -> Seq(S)]
  <2> HIDE DEF IsFirsts
  <2> QED  BY <1>10, <1>11
<1> QED  BY <1>9, <1>12 DEF F, n

\* Those among the first k pages are the first of all of them.
LEMMA FirstPagesStay ==
  ASSUME NEW pages \in Seq(Pages), NEW k \in 0..Len(pages)
  PROVE  LET all == Firsts(pages)[Len(pages)]
         IN  /\ Len(Firsts(pages)[k]) <= Len(all)
             /\ \A i \in 1..Len(Firsts(pages)[k]) : Firsts(pages)[k][i] = all[i]
<1> DEFINE n == Len(pages)
           F == Firsts(pages)
           Stays(m) == /\ Len(F[k]) <= Len(F[m])
                       /\ \A i \in 1..Len(F[k]) : F[k][i] = F[m][i]
           T == {d \in Nat : k + d \in 0..n => Stays(k + d)}
<1>1. n \in Nat /\ k \in Nat /\ k <= n /\ \A i \in 1..n : pages[i] \in Pages
  OBVIOUS
<1>2. /\ F \in [0..n -> Seq(Pages)]
      /\ \A m \in 1..n : F[m] = IF IsComplete(pages[m]) THEN Append(F[m - 1], pages[m])
                                ELSE F[m - 1]
  BY FirstPages
<1> HIDE DEF F, n
<1>3. 0 \in T
  <2>1. k + 0 = k /\ F[k] \in Seq(Pages)
    BY <1>1, <1>2
  <2> QED  BY <2>1
<1>4. ASSUME NEW d \in Nat, d \in T, k + (d + 1) \in 0..n PROVE Stays(k + (d + 1))
  <2> DEFINE m == k + d
  <2>1. m \in 0..n /\ m + 1 \in 1..n /\ (m + 1) - 1 = m /\ k + (d + 1) = m + 1
    BY <1>1, <1>4
  <2>2. Stays(m)
    BY <1>4, <2>1
  <2> HIDE DEF m
  <2>3. F[k] \in Seq(Pages) /\ F[m] \in Seq(Pages) /\ pages[m + 1] \in Pages
    BY <1>1, <1>2, <2>1
  <2>4. F[m + 1] = IF IsComplete(pages[m + 1]) THEN Append(F[m], pages[m + 1]) ELSE F[m]
    BY <1>2, <2>1
  <2>5. Stays(m + 1)
    <3> DEFINE a == F[k]
               b == F[m]
               c == F[m + 1]
               p == pages[m + 1]
    <3>1. a \in Seq(Pages) /\ b \in Seq(Pages) /\ p \in Pages /\ (c = b \/ c = Append(b, p))
      BY <2>3, <2>4
    <3>2. Len(a) <= Len(b) /\ \A i \in 1..Len(a) : a[i] = b[i]
      BY <2>2
    <3> HIDE DEF a, b, c, p
    <3>3. Len(a) <= Len(c) /\ \A i \in 1..Len(a) : a[i] = c[i]
      <4>1. CASE c = b
        BY <3>2, <4>1
      <4>2. CASE c = Append(b, p)
        <5>1. Len(c) = Len(b) + 1 /\ \A i \in 1..Len(b) : c[i] = b[i]
          BY <3>1, <4>2, AppendProperties
        <5>2. Len(a) \in Nat /\ Len(b) \in Nat
          BY <3>1
        <5> QED  BY <3>2, <5>1, <5>2
      <4> QED  BY <3>1, <4>1, <4>2
    <3> QED  BY <3>3 DEF a, c
  <2> QED  BY <2>1, <2>5
<1>5. n - k \in T
  <2>1. \A d \in Nat : d \in T => d + 1 \in T
    BY <1>4
  <2> HIDE DEF T
  <2>2. Nat \subseteq T
    BY <1>3, <2>1, Induction
  <2>3. n - k \in Nat
    BY <1>1
  <2> QED  BY <2>2, <2>3
<1>6. Stays(n)
  <2>1. k + (n - k) = n /\ n \in 0..n
    BY <1>1
  <2> QED  BY <1>5, <2>1
<1> QED  BY <1>6 DEF F, n

-----------------------------------------------------------------------------
(* What the callback keeps of the pages it has had.                        *)

TitleOf(p) == FlattenSeq(p.title)

CleanOf(p) == Clean(FlattenSeq(p.text))

Document(p, rank) ==
  [title |-> TitleOf(p), pagerank |-> rank, snippet |-> SnippetFrom(CleanOf(p).cleaned_text)]

\* The pages added so far are those of a sequence, in its order.
PagesAdded(added) ==
  /\ doc_id = Len(added)
  /\ titles_by_id = [i \in 1..Len(added) |-> TitleOf(added[i])]
  /\ raw_links = [i \in 1..Len(added) |-> CleanOf(added[i]).internal_links]
  /\ DOMAIN store = 0..Len(added) - 1
  /\ \A i \in 1..Len(added) : \E rank : store[i - 1] = Document(added[i], rank)
  /\ \A t \in DOMAIN title_to_id :
       title_to_id[t] \in 0..Len(added) - 1 /\ TitleOf(added[title_to_id[t] + 1]) = t

LEMMA Appended ==
  ASSUME NEW S, NEW s \in Seq(S), NEW e \in S
  PROVE  /\ Append(s, e) \in Seq(S) /\ Len(s) \in Nat /\ Len(Append(s, e)) = Len(s) + 1
         /\ \A i \in 1..Len(s) : Append(s, e)[i] = s[i]
         /\ Append(s, e)[Len(s) + 1] = e
BY AppendProperties

\* What is made of each page of a sequence, and of one more.
LEMMA AppendMapped ==
  ASSUME NEW n \in Nat, NEW g, DOMAIN g = 1..n + 1, NEW s, s = [i \in 1..n |-> g[i]]
  PROVE  Append(s, g[n + 1]) = [i \in 1..n + 1 |-> g[i]]
<1> DEFINE e == g[n + 1]
<1>1. Len(s) = n
  OBVIOUS
<1> HIDE DEF e
<1>2. Append(s, e) = [i \in 1..n + 1 |-> IF i = n + 1 THEN e ELSE s[i]]
  BY <1>1
<1>3. \A i \in 1..n + 1 : (IF i = n + 1 THEN e ELSE s[i]) = g[i]
  BY DEF e
<1> QED  BY <1>2, <1>3 DEF e

LEMMA AddPageStep ==
  ASSUME NEW added \in Seq(Pages), NEW p \in Pages, PagesAdded(added),
         title = TitleOf(p), text = FlattenSeq(p.text), AddPage
  PROVE  PagesAdded(Append(added, p))'
<1> DEFINE n == Len(added)
           more == Append(added, p)
           d == Document(p, 0)
<1>1. /\ n \in Nat /\ Len(more) = n + 1
      /\ \A i \in 1..n : more[i] = added[i]
      /\ more[n + 1] = p
  BY Appended
<1>2. doc_id = n /\ DOMAIN store = 0..n - 1
  BY DEF PagesAdded
<1>3. /\ doc_id' = doc_id + 1
      /\ store' = With(store, doc_id, d)
      /\ title_to_id' = With(title_to_id, title, doc_id)
      /\ titles_by_id' = Append(titles_by_id, title)
      /\ raw_links' = Append(raw_links, CleanOf(p).internal_links)
  BY Zenon DEF AddPage, CleanOf, Document
<1> HIDE DEF n, more, d
<1>4. titles_by_id' = [i \in 1..n + 1 |-> TitleOf(more[i])]
  <2> DEFINE g == [i \in 1..n + 1 |-> TitleOf(more[i])]
  <2>1. titles_by_id = [i \in 1..n |-> g[i]]
    <3>1. titles_by_id = [i \in 1..n |-> TitleOf(added[i])]
      BY DEF PagesAdded, n
    <3>2. \A i \in 1..n : g[i] = TitleOf(added[i])
      BY <1>1
    <3> HIDE DEF g
    <3> QED  BY <3>1, <3>2
  <2>2. g[n + 1] = title
    BY <1>1
  <2>3. DOMAIN g = 1..n + 1 /\ g = [i \in 1..n + 1 |-> g[i]]
    OBVIOUS
  <2> HIDE DEF g
  <2>4. Append(titles_by_id, g[n + 1]) = [i \in 1..n + 1 |-> g[i]]
    BY <1>1, <2>1, <2>3, AppendMapped
  <2>5. titles_by_id' = g
    BY <1>3, <2>2, <2>3, <2>4
  <2> QED  BY <2>5 DEF g
<1>5. raw_links' = [i \in 1..n + 1 |-> CleanOf(more[i]).internal_links]
  <2> DEFINE g == [i \in 1..n + 1 |-> CleanOf(more[i]).internal_links]
  <2>1. raw_links = [i \in 1..n |-> g[i]]
    <3>1. raw_links = [i \in 1..n |-> CleanOf(added[i]).internal_links]
      BY DEF PagesAdded, n
    <3>2. \A i \in 1..n : g[i] = CleanOf(added[i]).internal_links
      BY <1>1
    <3> HIDE DEF g
    <3> QED  BY <3>1, <3>2
  <2>2. g[n + 1] = CleanOf(p).internal_links
    BY <1>1
  <2>3. DOMAIN g = 1..n + 1 /\ g = [i \in 1..n + 1 |-> g[i]]
    OBVIOUS
  <2> HIDE DEF g
  <2>4. Append(raw_links, g[n + 1]) = [i \in 1..n + 1 |-> g[i]]
    BY <1>1, <2>1, <2>3, AppendMapped
  <2>5. raw_links' = g
    BY <1>3, <2>2, <2>3, <2>4
  <2> QED  BY <2>5 DEF g
<1>6. /\ DOMAIN store' = 0..n /\ store'[n] = d
      /\ \A id \in 0..n - 1 : store'[id] = store[id]
  <2>1. DOMAIN store \cup {n} = 0..n /\ n \notin 0..n - 1
    BY <1>1, <1>2
  <2>2. store' = [z \in 0..n |-> IF z = n THEN d ELSE store[z]]
    BY <1>2, <1>3, <2>1 DEF With
  <2>3. \A id \in 0..n - 1 : id \in 0..n /\ id # n
    BY <1>1
  <2>4. n \in 0..n
    BY <1>1
  <2> QED  BY <2>2, <2>3, <2>4
<1>7. ASSUME NEW i \in 1..n + 1 PROVE \E rank : store'[i - 1] = Document(more[i], rank)
  <2>1. CASE i = n + 1
    <3>1. i - 1 = n
      BY <1>1, <2>1
    <3> QED  BY <1>1, <1>6, <2>1, <3>1 DEF d
  <2>2. CASE i # n + 1
    <3>1. i \in 1..n /\ i - 1 \in 0..n - 1
      BY <1>1, <2>2
    <3>2. store'[i - 1] = store[i - 1] /\ more[i] = added[i]
      BY <1>1, <1>6, <3>1
    <3> QED  BY <3>1, <3>2 DEF PagesAdded, n
  <2> QED  BY <2>1, <2>2
<1>8. ASSUME NEW t \in DOMAIN title_to_id'
      PROVE  title_to_id'[t] \in 0..n /\ TitleOf(more[title_to_id'[t] + 1]) = t
  <2>1. title_to_id' = [z \in DOMAIN title_to_id \cup {title} |->
                          IF z = title THEN n ELSE title_to_id[z]]
    BY <1>2, <1>3 DEF With
  <2>2. CASE t = title
    <3>1. title_to_id'[t] = n
      BY <2>1, <2>2
    <3> QED  BY <1>1, <2>2, <3>1
  <2>3. CASE t # title
    <3>1. t \in DOMAIN title_to_id /\ title_to_id'[t] = title_to_id[t]
      BY <2>1, <2>3
    <3>2. title_to_id[t] \in 0..n - 1 /\ TitleOf(added[title_to_id[t] + 1]) = t
      BY <3>1 DEF PagesAdded, n
    <3>3. title_to_id[t] \in 0..n /\ title_to_id[t] + 1 \in 1..n
      BY <1>1, <3>2
    <3> QED  BY <1>1, <3>1, <3>2, <3>3
  <2> QED  BY <2>2, <2>3
<1>9. doc_id' = n + 1 /\ (n + 1) - 1 = n
  BY <1>1, <1>2, <1>3
<1>10. PagesAdded(more)'
  BY <1>1, <1>4, <1>5, <1>6, <1>7, <1>8, <1>9 DEF PagesAdded
<1> QED  BY <1>10 DEF more

LEMMA NoPageStep ==
  ASSUME NEW added, PagesAdded(added), NoPage
  PROVE  PagesAdded(added)'
BY DEF PagesAdded, NoPage

-----------------------------------------------------------------------------
(* The inductive invariant.                                                *)

\* The parser is in the k-th page, before it, or behind the last one.
AtPage(k) ==
  IF k = Len(dump) + 1 THEN Trailing
  ELSE Outside(Rests(dump)[k]) \/ Inside(dump[k], Rests(dump)[k + 1])

Progress ==
  \E k \in 1..Len(dump) + 1 : AtPage(k) /\ PagesAdded(Firsts(dump)[k - 1])

\* The parser has been stopped exactly if as many pages are added as may be.
Limited ==
  \/ Unstopped /\ (max_docs = 0 \/ doc_id < max_docs)
  \/ stop_requested = TRUE /\ max_docs # 0 /\ doc_id = max_docs

Inv ==
  /\ dump \in Seq(Pages) /\ max_docs \in Limits
  /\ status \in {"parsing", "failed", "parsed", "saved", "done"}
  /\ status \in {"parsed", "saved", "done"} => Finished
  /\ Limited /\ Progress

\* What comes behind the last page is ignored.
LEMMA LastRest ==
  ASSUME NEW pages \in Seq(Pages), NEW s \in Seq(Noise)
  PROVE  Chained(s, Rests(pages)[Len(pages) + 1]) \in Seq(Noise)
<1>1. Rests(pages)[Len(pages) + 1] = Closing("mediawiki")
  BY RestsExist DEF IsRests
<1>2. Closing("mediawiki") \in Seq(Noise)
  BY OneEvent DEF Ignored
<1> QED  BY <1>1, <1>2, Together DEF Chained

LEMMA PageRests ==
  ASSUME NEW pages \in Seq(Pages), NEW k \in 1..Len(pages)
  PROVE  /\ Rests(pages)[k] = FromPage(pages[k], Rests(pages)[k + 1])
         /\ Rests(pages)[k + 1] \in EventSeqs /\ pages[k] \in Pages
<1>1. k + 1 \in 1..Len(pages) + 1
  OBVIOUS
<1> QED  BY <1>1, RestsExist DEF IsRests

LEMMA Initially ==
  ASSUME Init
  PROVE  Inv
<1>1. dump \in Seq(Pages) /\ max_docs \in Limits /\ Limits \subseteq Nat
  BY IngestionAssumption DEF Init, ParserInit
<1>2. events \in EventSeqs /\ IsAhead(events)
  <2>1. events \in EventSeqs /\ at = 1
    BY <1>1, EventsOfPages DEF Init, ParserInit
  <2>2. Len(events) \in Nat /\ \A i \in 1..Len(events) : 1 - 1 + i = i
    BY <2>1 DEF EventSeqs
  <2> QED  BY <2>1, <2>2 DEF IsAhead
<1>3. PICK header \in Seq(Noise) : IsAhead(Chained(header, Rests(dump)[1]))
  <2>1. \E header \in Seq(Noise) : events = Chained(header, Rests(dump)[1])
    BY <1>1, EventsOfPages DEF Init, ParserInit
  <2> QED  BY <1>2, <2>1
<1>4. Quiet /\ in_page = FALSE /\ in_revision = FALSE /\ Unstopped
  BY DEF Init, ParserInit, Quiet, Unstopped
<1>5. AtPage(1)
  <2>1. CASE Len(dump) = 0
    <3>1. Len(dump) + 1 = 1
      BY <2>1
    <3>2. Chained(header, Rests(dump)[1]) \in Seq(Noise) /\ 1 = Len(dump) + 1
      <4>1. Chained(header, Rests(dump)[Len(dump) + 1]) \in Seq(Noise)
        BY <1>1, LastRest
      <4> QED  BY <3>1, <4>1
    <3> QED  BY <1>3, <1>4, <3>2 DEF AtPage, Trailing
  <2>2. CASE Len(dump) # 0
    <3>1. Len(dump) \in Nat
      BY <1>1
    <3>2. 1 # Len(dump) + 1
      BY <2>2, <3>1
    <3>3. Outside(Rests(dump)[1])
      BY <1>3, <1>4 DEF Outside, Noisy
    <3> QED  BY <3>2, <3>3 DEF AtPage
  <2> QED  BY <2>1, <2>2
<1>6. PagesAdded(Firsts(dump)[1 - 1])
  <2>1. Firsts(dump)[1 - 1] = << >>
    BY <1>1, FirstPages
  <2>2. PagesAdded(<< >>)
    BY DEF Init, PagesAdded, NoMap
  <2> QED  BY <2>1, <2>2
<1>7. 1 \in 1..Len(dump) + 1
  BY <1>1
<1>8. Limited
  BY <1>1, <1>4 DEF Limited, Init
<1>9. status = "parsing"
  BY DEF Init
<1> HIDE DEF AtPage
<1> QED  BY <1>1, <1>5, <1>6, <1>7, <1>8, <1>9 DEF Inv, Progress

LEMMA InsideStep ==
  ASSUME NEW p \in Pages, NEW r \in EventSeqs,
         Outside(FromPage(p, r)) \/ Inside(p, r), Unstopped, Parse
  PROVE  \/ (Outside(FromPage(p, r)) \/ Inside(p, r))' /\ NoPage /\ Unstopped'
         \/ /\ IsAhead(Chained(Between, r))' /\ Quiet'
            /\ in_page' = FALSE /\ in_revision' = FALSE
            /\ title = FlattenSeq(p.title) /\ text = FlattenSeq(p.text)
            /\ IF IsComplete(p) THEN AddPage /\ (stop_requested' = ~BelowLimit)
               ELSE NoPage /\ Unstopped'
<1>1. CASE Outside(FromPage(p, r))
  BY <1>1, OutsideStep, Zenon DEF Inside
<1>2. CASE BeforeTitle(p, r)
  BY <1>2, BeforeTitleStep, Zenon DEF Inside
<1>3. CASE InTitle(p, r)
  BY <1>3, InTitleStep, Zenon DEF Inside
<1>4. CASE BeforeRevision(p, r)
  BY <1>4, BeforeRevisionStep, Zenon DEF Inside
<1>5. CASE BeforeText(p, r)
  BY <1>5, BeforeTextStep, Zenon DEF Inside
<1>6. CASE InText(p, r)
  BY <1>6, InTextStep, Zenon DEF Inside
<1>7. CASE BeforeRevisionEnd(p, r)
  BY <1>7, BeforeRevisionEndStep, Zenon DEF Inside
<1>8. CASE BeforePageEnd(p, r)
  BY <1>8, BeforePageEndStep, Zenon DEF Inside
<1> QED  BY <1>1, <1>2, <1>3, <1>4, <1>5, <1>6, <1>7, <1>8 DEF Inside

LEMMA ParseStep ==
  ASSUME Inv, Parse
  PROVE  Inv'
<1>1. dump' = dump /\ UNCHANGED <<max_docs, status, link_graph>> /\ ~Finished
  BY AnyEvent
<1>2. PICK pages \in Seq(Pages) : pages = dump
  BY DEF Inv
<1>3. Unstopped /\ Len(pages) \in Nat /\ max_docs \in Nat
  <2>1. Unstopped
    BY <1>1 DEF Inv, Limited, Finished, Unstopped
  <2>2. Len(pages) \in Nat
    OBVIOUS
  <2>3. max_docs \in Nat
    BY IngestionAssumption DEF Inv
  <2> QED  BY <2>1, <2>2, <2>3
<1>4. PICK k \in 1..Len(pages) + 1 : AtPage(k) /\ PagesAdded(Firsts(pages)[k - 1])
  BY <1>2 DEF Inv, Progress
<1>5. PICK added \in Seq(Pages) : added = Firsts(pages)[k - 1]
  <2>1. k - 1 \in 0..Len(pages)
    BY <1>3
  <2> QED  BY <2>1, FirstPages
<1>6. PagesAdded(added) /\ doc_id \in Nat
  <2>1. PagesAdded(added)
    BY <1>4, <1>5
  <2> QED  BY <2>1 DEF PagesAdded
<1>7. CASE k = Len(pages) + 1
  <2>1. NoPage /\ Unstopped' /\ Trailing'
    BY <1>2, <1>3, <1>4, <1>7, TrailingStep DEF AtPage
  <2>2. PagesAdded(added)'
    BY <1>6, <2>1, NoPageStep
  <2>3. Limited'
    BY <1>1, <1>3, <2>1 DEF Inv, Limited, NoPage, Unstopped
  <2>4. AtPage(k)'
    BY <1>1, <1>2, <1>7, <2>1 DEF AtPage
  <2>5. Progress'
    BY <1>1, <1>2, <1>5, <2>2, <2>4 DEF Progress
  <2> QED  BY <1>1, <2>3, <2>5 DEF Inv
<1>8. CASE k # Len(pages) + 1
  <2>1. k \in 1..Len(pages) /\ k + 1 \in 1..Len(pages) + 1 /\ (k + 1) - 1 = k
    BY <1>3, <1>8
  <2>2. PICK p \in Pages, r \in EventSeqs :
          p = pages[k] /\ r = Rests(pages)[k + 1] /\ Rests(pages)[k] = FromPage(p, r)
    BY <2>1, PageRests
  <2>3. Outside(FromPage(p, r)) \/ Inside(p, r)
    BY <1>2, <1>4, <1>8, <2>2 DEF AtPage
  <2>4. \/ (Outside(FromPage(p, r)) \/ Inside(p, r))' /\ NoPage /\ Unstopped'
        \/ /\ IsAhead(Chained(Between, r))' /\ Quiet'
           /\ in_page' = FALSE /\ in_revision' = FALSE
           /\ title = FlattenSeq(p.title) /\ text = FlattenSeq(p.text)
           /\ IF IsComplete(p) THEN AddPage /\ (stop_requested' = ~BelowLimit)
              ELSE NoPage /\ Unstopped'
    BY <1>3, <2>3, InsideStep
  <2>5. CASE (Outside(FromPage(p, r)) \/ Inside(p, r))' /\ NoPage /\ Unstopped'
    <3>1. PagesAdded(added)'
      BY <1>6, <2>5, NoPageStep
    <3>2. Limited'
      BY <1>1, <1>3, <2>5 DEF Inv, Limited, NoPage, Unstopped
    <3>3. AtPage(k)'
      BY <1>1, <1>2, <1>8, <2>2, <2>5 DEF AtPage
    <3>4. Progress'
      BY <1>1, <1>2, <1>5, <3>1, <3>3 DEF Progress
    <3> QED  BY <1>1, <3>2, <3>4 DEF Inv
  <2>6. CASE /\ IsAhead(Chained(Between, r))' /\ Quiet'
             /\ in_page' = FALSE /\ in_revision' = FALSE
             /\ title = FlattenSeq(p.title) /\ text = FlattenSeq(p.text)
             /\ IF IsComplete(p) THEN AddPage /\ (stop_requested' = ~BelowLimit)
                ELSE NoPage /\ Unstopped'
    <3>1. AtPage(k + 1)'
      <4>1. Between \in Seq(Noise)
        BY OneEvent
      <4>2. CASE k = Len(pages)
        <5>1. Chained(Between, r) \in Seq(Noise)
          BY <2>2, <4>1, <4>2, LastRest
        <5>2. Trailing'
          BY <2>6, <5>1 DEF Trailing
        <5> QED  BY <1>1, <1>2, <4>2, <5>2 DEF AtPage
      <4>3. CASE k # Len(pages)
        <5>1. k + 1 # Len(pages) + 1
          BY <1>3, <2>1, <4>3
        <5>2. Outside(r)'
          BY <2>6, <4>1 DEF Outside, Noisy
        <5> QED  BY <1>1, <1>2, <2>2, <5>1, <5>2 DEF AtPage
      <4> QED  BY <4>2, <4>3
    <3>2. Firsts(pages)[k] = IF IsComplete(p) THEN Append(added, p) ELSE added
      BY <1>5, <2>1, <2>2, FirstPages
    <3>3. CASE IsComplete(p)
      <4>1. AddPage /\ stop_requested' = ~BelowLimit
        BY <2>6, <3>3
      <4>2. PagesAdded(Append(added, p))'
        BY <1>6, <2>6, <4>1, AddPageStep DEF TitleOf
      <4>3. doc_id' = doc_id + 1
        BY <4>1 DEF AddPage
      <4>4. Limited'
        <5>1. max_docs' = max_docs /\ (max_docs = 0 \/ doc_id < max_docs)
          BY <1>1, <1>3 DEF Inv, Limited, Unstopped
        <5>2. CASE BelowLimit
          <6>1. stop_requested' = FALSE
            BY <4>1, <5>2
          <6>2. max_docs = 0 \/ doc_id + 1 < max_docs
            BY <5>2 DEF BelowLimit
          <6> QED  BY <4>3, <5>1, <6>1, <6>2 DEF Limited, Unstopped
        <5>3. CASE ~BelowLimit
          <6>1. stop_requested' = TRUE
            BY <4>1, <5>3
          <6>2. max_docs # 0 /\ ~(doc_id + 1 < max_docs)
            BY <5>3 DEF BelowLimit
          <6>3. doc_id + 1 = max_docs
            BY <1>3, <1>6, <5>1, <6>2
          <6> QED  BY <4>3, <5>1, <6>1, <6>2, <6>3 DEF Limited
        <5> QED  BY <5>2, <5>3
      <4>5. Progress'
        BY <1>1, <1>2, <2>1, <3>1, <3>2, <3>3, <4>2 DEF Progress
      <4> QED  BY <1>1, <4>4, <4>5 DEF Inv
    <3>4. CASE ~IsComplete(p)
      <4>1. NoPage /\ Unstopped'
        BY <2>6, <3>4
      <4>2. PagesAdded(added)'
        BY <1>6, <4>1, NoPageStep
      <4>3. Limited'
        BY <1>1, <1>3, <4>1 DEF Inv, Limited, NoPage, Unstopped
      <4>4. Progress'
        BY <1>1, <1>2, <2>1, <3>1, <3>2, <3>4, <4>2 DEF Progress
      <4> QED  BY <1>1, <4>3, <4>4 DEF Inv
    <3> QED  BY <3>3, <3>4
  <2> QED  BY <2>4, <2>5, <2>6
<1> QED  BY <1>3, <1>4, <1>7, <1>8

\* What the callback keeps stays, but for the ranks.
LEMMA KeptStep ==
  ASSUME NEW added \in Seq(Pages), PagesAdded(added),
         UNCHANGED <<doc_id, title_to_id, titles_by_id, raw_links>>,
         \/ store' = store
         \/ \E rank : store' = [id \in DOMAIN store |-> [store[id] EXCEPT !.pagerank = rank[id]]]
  PROVE  PagesAdded(added)'
<1>1. CASE store' = store
  BY <1>1 DEF PagesAdded
<1>2. CASE \E rank : store' = [id \in DOMAIN store |-> [store[id] EXCEPT !.pagerank = rank[id]]]
  <2>1. PICK rank : store' = [id \in DOMAIN store |-> [store[id] EXCEPT !.pagerank = rank[id]]]
    BY <1>2
  <2>2. DOMAIN store = 0..Len(added) - 1 /\ DOMAIN store' = DOMAIN store
    BY <2>1 DEF PagesAdded
  <2>3. ASSUME NEW i \in 1..Len(added) PROVE \E new : store'[i - 1] = Document(added[i], new)
    <3>1. i - 1 \in DOMAIN store
      <4>1. Len(added) \in Nat
        OBVIOUS
      <4> QED  BY <2>2, <4>1
    <3>2. PICK old : store[i - 1] = Document(added[i], old)
      BY DEF PagesAdded
    <3>3. store'[i - 1] = [Document(added[i], old) EXCEPT !.pagerank = rank[i - 1]]
      BY <2>1, <3>1, <3>2
    <3>4. store'[i - 1] = Document(added[i], rank[i - 1])
      BY <3>3 DEF Document
    <3> QED  BY <3>4
  <2> QED  BY <2>2, <2>3 DEF PagesAdded
<1> QED  BY <1>1, <1>2

LEMMA ParserKept ==
  ASSUME NEW k, AtPage(k), UNCHANGED parser_vars
  PROVE  AtPage(k)'
<1>1. /\ dump' = dump /\ events' = events /\ at' = at /\ current_element' = current_element
      /\ title' = title /\ text' = text /\ in_page' = in_page /\ in_revision' = in_revision
  BY DEF parser_vars
<1>2. \A s : IsAhead(s) => IsAhead(s)'
  BY <1>1 DEF IsAhead
<1>3. \A s : Noisy(s) => Noisy(s)'
  BY <1>2 DEF Noisy
<1>4. Quiet => Quiet'
  BY <1>1 DEF Quiet
<1>5. Trailing => Trailing'
  BY <1>1, <1>2, <1>4 DEF Trailing
<1>6. \A s : Outside(s) => Outside(s)'
  BY <1>1, <1>3, <1>4 DEF Outside
<1>7. ASSUME NEW p, NEW r, Inside(p, r) PROVE Inside(p, r)'
  <2>1. BeforeTitle(p, r) => BeforeTitle(p, r)'
    BY <1>1, <1>3, <1>4 DEF BeforeTitle
  <2>2. InTitle(p, r) => InTitle(p, r)'
    BY <1>1, <1>2 DEF InTitle, Gathered
  <2>3. BeforeRevision(p, r) => BeforeRevision(p, r)'
    BY <1>1, <1>3, <1>4 DEF BeforeRevision
  <2>4. BeforeText(p, r) => BeforeText(p, r)'
    BY <1>1, <1>3, <1>4 DEF BeforeText
  <2>5. InText(p, r) => InText(p, r)'
    BY <1>1, <1>2 DEF InText, Gathered
  <2>6. BeforeRevisionEnd(p, r) => BeforeRevisionEnd(p, r)'
    BY <1>1, <1>3, <1>4 DEF BeforeRevisionEnd
  <2>7. BeforePageEnd(p, r) => BeforePageEnd(p, r)'
    BY <1>1, <1>3, <1>4 DEF BeforePageEnd
  <2> QED  BY <1>7, <2>1, <2>2, <2>3, <2>4, <2>5, <2>6, <2>7, Zenon DEF Inside
<1> QED  BY <1>1, <1>5, <1>6, <1>7 DEF AtPage

\* Everything but parsing.
LEMMA OtherStep ==
  ASSUME Inv, UNCHANGED <<parser_vars, max_docs, doc_id, title_to_id, titles_by_id, raw_links>>,
         \/ store' = store
         \/ \E rank : store' = [id \in DOMAIN store |-> [store[id] EXCEPT !.pagerank = rank[id]]],
         status' \in {"parsing", "failed", "parsed", "saved", "done"},
         status' \in {"parsed", "saved", "done"} => Finished
  PROVE  Inv'
<1>1. PICK pages \in Seq(Pages) : pages = dump
  BY DEF Inv
<1>2. dump' = dump /\ (Finished => Finished') /\ stop_requested' = stop_requested
  BY DEF parser_vars, Finished
<1>3. PICK k \in 1..Len(pages) + 1 : AtPage(k) /\ PagesAdded(Firsts(pages)[k - 1])
  BY <1>1 DEF Inv, Progress
<1>4. PICK added \in Seq(Pages) : added = Firsts(pages)[k - 1]
  <2>1. k - 1 \in 0..Len(pages)
    OBVIOUS
  <2> QED  BY <2>1, FirstPages
<1>5. AtPage(k)'
  BY <1>3, ParserKept
<1>6. PagesAdded(added)'
  BY <1>3, <1>4, KeptStep
<1>7. Progress'
  BY <1>1, <1>2, <1>4, <1>5, <1>6 DEF Progress
<1>8. Limited'
  BY <1>2 DEF Inv, Limited, Unstopped
<1> QED  BY <1>2, <1>7, <1>8 DEF Inv

LEMMA EveryStep ==
  ASSUME Inv, [Next]_vars
  PROVE  Inv'
<1>1. CASE Parse
  BY <1>1, ParseStep
<1>2. CASE ParseFails
  BY <1>2, OtherStep DEF ParseFails, NoPage
<1>3. CASE ParseEnds
  BY <1>3, OtherStep DEF ParseEnds, NoPage
<1>4. CASE SaveGraph
  <2>1. Finished
    BY <1>4 DEF SaveGraph, Inv
  <2> QED  BY <1>4, <2>1, OtherStep DEF SaveGraph, NoPage
<1>5. CASE RankPages
  <2>1. Finished
    BY <1>5 DEF RankPages, Inv
  <2>2. \E rank : store' = [id \in DOMAIN store |-> [store[id] EXCEPT !.pagerank = rank[id]]]
    BY <1>5, Zenon DEF RankPages
  <2> QED  BY <1>5, <2>1, <2>2, OtherStep DEF RankPages
<1>6. CASE UNCHANGED vars
  BY <1>6, OtherStep DEF vars, Inv
<1> QED  BY <1>1, <1>2, <1>3, <1>4, <1>5, <1>6 DEF Next, Done

\* However the text is cut, the parser is where the dump says it is, and the pages
\* that the callback has had are those of the dump that it has passed.
THEOREM ParserFollowsDump == Spec => []Inv
<1>1. Init => Inv
  BY Initially
<1>2. Inv /\ [Next]_vars => Inv'
  BY EveryStep
<1> QED  BY <1>1, <1>2, PTL DEF Spec

-----------------------------------------------------------------------------
(* What follows from it.                                                   *)

LEMMA SomethingAhead ==
  ASSUME NEW s \in EventSeqs, NEW e, NEW r \in EventSeqs, e \in AllEvents,
         IsAhead(Chained(s, Chained(<<e>>, r)))
  PROVE  at <= Len(events)
<1>1. s \in Seq(AllEvents) /\ r \in Seq(AllEvents) /\ <<e>> \in Seq(AllEvents)
  BY DEF EventSeqs
<1> DEFINE u == <<e>> \o r
<1>2. u \in Seq(AllEvents) /\ Len(u) = Len(r) + 1
  BY <1>1
<1> HIDE DEF u
<1>3. Len(s \o u) = Len(s) + Len(u)
  BY <1>1, <1>2, ConcatProperties
<1>4. Len(s) \in Nat /\ Len(r) \in Nat
  BY <1>1, LenProperties
<1>5. Len(s \o u) + at = Len(events) + 1 /\ at \in Nat /\ Len(events) \in Nat
  BY DEF IsAhead, EventSeqs, Chained, u
<1> QED  BY <1>2, <1>3, <1>4, <1>5

LEMMA NotAtTheEnd ==
  ASSUME NEW p \in Pages, NEW r \in EventSeqs, Outside(FromPage(p, r)) \/ Inside(p, r)
  PROVE  at <= Len(events)
<1>1. ASSUME NEW e \in AllEvents, NEW t \in EventSeqs, Noisy(Chained(<<e>>, t))
      PROVE  at <= Len(events)
  <2>1. PICK s \in Seq(Noise) : IsAhead(Chained(s, Chained(<<e>>, t)))
    BY <1>1 DEF Noisy
  <2>2. s \in EventSeqs
    BY NoiseIsEvents
  <2> QED  BY <2>1, <2>2, SomethingAhead
<1>2. ASSUME NEW pieces \in Pieces, NEW j \in 0..Len(pieces), NEW e \in AllEvents,
             NEW t \in EventSeqs, IsAhead(Chained(Text(PiecesFrom(pieces, j)), Chained(<<e>>, t)))
      PROVE  at <= Len(events)
  <2>1. Text(PiecesFrom(pieces, j)) \in EventSeqs
    BY PiecesFromThere, TextEvents DEF EventSeqs
  <2> QED  BY <1>2, <2>1, SomethingAhead
<1>3. /\ Between \in EventSeqs /\ Contributor \in EventSeqs /\ Namespace \in EventSeqs
      /\ p.title \in Pieces /\ p.text \in Pieces
      /\ Text(p.title) \in EventSeqs /\ Text(p.text) \in EventSeqs
  BY OneEvent, NoisyElements, TextEvents DEF EventSeqs, Pages
<1>4. CASE Outside(FromPage(p, r))
  <2>1. FromPage(p, r) = Chained(<<EventOf("start", "page")>>, Chained(Between, FromTitle(p, r)))
    BY NamedEvents DEF FromPage
  <2>2. Chained(Between, FromTitle(p, r)) \in EventSeqs
    BY <1>3, PlacesOfAPage, Chaining
  <2> QED  BY <1>1, <1>4, <2>1, <2>2, NamedEvents DEF Outside
<1>5. CASE BeforeTitle(p, r)
  <2>1. FromTitle(p, r)
          = Chained(<<EventOf("start", "title")>>, Chained(Text(p.title), FromTitleEnd(p, r)))
    BY NamedEvents DEF FromTitle
  <2>2. Chained(Text(p.title), FromTitleEnd(p, r)) \in EventSeqs
    BY <1>3, PlacesOfAPage, Chaining
  <2> QED  BY <1>1, <1>5, <2>1, <2>2, NamedEvents DEF BeforeTitle
<1>6. CASE InTitle(p, r)
  <2>1. FromTitleEnd(p, r)
          = Chained(<<EventOf("end", "title")>>, Chained(Namespace, FromRevision(p, r)))
    BY NamedEvents DEF FromTitleEnd
  <2>2. Chained(Namespace, FromRevision(p, r)) \in EventSeqs
    BY <1>3, PlacesOfAPage, Chaining
  <2> QED  BY <1>2, <1>3, <1>6, <2>1, <2>2, NamedEvents DEF InTitle
<1>7. CASE BeforeRevision(p, r)
  <2>1. FromRevision(p, r)
          = Chained(<<EventOf("start", "revision")>>, Chained(Contributor, FromText(p, r)))
    BY NamedEvents DEF FromRevision
  <2>2. Chained(Contributor, FromText(p, r)) \in EventSeqs
    BY <1>3, PlacesOfAPage, Chaining
  <2> QED  BY <1>1, <1>7, <2>1, <2>2, NamedEvents DEF BeforeRevision
<1>8. CASE BeforeText(p, r)
  <2>1. FromText(p, r)
          = Chained(<<EventOf("start", "text")>>, Chained(Text(p.text), FromTextEnd(r)))
    BY NamedEvents DEF FromText
  <2>2. Chained(Text(p.text), FromTextEnd(r)) \in EventSeqs
    BY <1>3, PlacesOfAPage, Chaining
  <2> QED  BY <1>1, <1>8, <2>1, <2>2, NamedEvents DEF BeforeText
<1>9. CASE InText(p, r)
  <2>1. FromTextEnd(r)
          = Chained(<<EventOf("end", "text")>>, Chained(Between, FromRevisionEnd(r)))
    BY NamedEvents DEF FromTextEnd
  <2>2. Chained(Between, FromRevisionEnd(r)) \in EventSeqs
    BY <1>3, PlacesOfAPage, Chaining
  <2> QED  BY <1>2, <1>3, <1>9, <2>1, <2>2, NamedEvents DEF InText
<1>10. CASE BeforeRevisionEnd(p, r)
  <2>1. FromRevisionEnd(r)
          = Chained(<<EventOf("end", "revision")>>, Chained(Between, FromPageEnd(r)))
    BY NamedEvents DEF FromRevisionEnd
  <2>2. Chained(Between, FromPageEnd(r)) \in EventSeqs
    BY <1>3, PlacesOfAPage, Chaining
  <2> QED  BY <1>1, <1>10, <2>1, <2>2, NamedEvents DEF BeforeRevisionEnd
<1>11. CASE BeforePageEnd(p, r)
  <2>1. FromPageEnd(r) = Chained(<<EventOf("end", "page")>>, Chained(Between, r))
    BY NamedEvents DEF FromPageEnd
  <2>2. Chained(Between, r) \in EventSeqs
    BY <1>3, Chaining
  <2> QED  BY <1>1, <1>11, <2>1, <2>2, NamedEvents DEF BeforePageEnd
<1> QED  BY <1>4, <1>5, <1>6, <1>7, <1>8, <1>9, <1>10, <1>11 DEF Inside

LEMMA PlaceInEvents ==
  ASSUME Inv
  PROVE  /\ at \in 1..Len(events) + 1
         /\ in_page \in BOOLEAN /\ in_revision \in BOOLEAN /\ stop_requested \in BOOLEAN
<1>1. PICK k \in 1..Len(dump) + 1 : AtPage(k)
  BY DEF Inv, Progress
<1>2. ASSUME NEW r, IsAhead(r) PROVE at \in 1..Len(events) + 1
  <2>1. Len(r) \in Nat /\ Len(events) \in Nat /\ at \in Nat \ {0} /\ Len(r) + at = Len(events) + 1
    BY <1>2 DEF IsAhead, EventSeqs
  <2> QED  BY <2>1
<1>3. ASSUME NEW r, Noisy(r) PROVE at \in 1..Len(events) + 1
  BY <1>2, <1>3 DEF Noisy
<1>4. at \in 1..Len(events) + 1 /\ in_page \in BOOLEAN /\ in_revision \in BOOLEAN
  <2>1. CASE Trailing
    BY <1>2, <2>1 DEF Trailing
  <2>2. CASE Outside(Rests(dump)[k])
    BY <1>3, <2>2 DEF Outside
  <2>3. CASE Inside(dump[k], Rests(dump)[k + 1])
    BY <1>2, <1>3, <2>3 DEF Inside, BeforeTitle, InTitle, BeforeRevision, BeforeText, InText,
       BeforeRevisionEnd, BeforePageEnd
  <2> QED  BY <1>1, <2>1, <2>2, <2>3 DEF AtPage
<1>5. stop_requested \in BOOLEAN
  BY DEF Inv, Limited, Unstopped
<1> QED  BY <1>4, <1>5

\* The pages added are the first that may be indexed, and all of them at the end.
LEMMA WhatIsAdded ==
  ASSUME Inv, NEW S, dump \in Seq(S)
  PROVE  /\ Indexable \in Seq(S) /\ doc_id \in Nat /\ doc_id <= Len(Indexable)
         /\ Finished /\ Unstopped => doc_id = Len(Indexable)
         /\ \E added \in Seq(S) :
              /\ PagesAdded(added) /\ Len(added) = doc_id
              /\ \A i \in 1..doc_id : added[i] = Indexable[i]
<1>1. PICK k \in 1..Len(dump) + 1 : AtPage(k) /\ PagesAdded(Firsts(dump)[k - 1])
  BY DEF Inv, Progress
<1>2. dump \in Seq(Pages) /\ Len(dump) \in Nat
  BY DEF Inv
<1>3. /\ k - 1 \in 0..Len(dump) /\ Len(dump) \in 0..Len(dump)
  BY <1>2
<1> DEFINE added == Firsts(dump)[k - 1]
<1>4. added \in Seq(S) /\ Firsts(dump)[Len(dump)] \in Seq(S)
  BY <1>3, FirstPages
<1>5. Indexable \in Seq(S)
  BY <1>4, IndexableIsLast
<1>6. /\ Len(added) <= Len(Indexable)
      /\ \A i \in 1..Len(added) : added[i] = Indexable[i]
  BY <1>2, <1>3, FirstPagesStay, IndexableIsLast
<1>7. doc_id = Len(added) /\ doc_id \in Nat
  BY <1>1, <1>4 DEF PagesAdded
<1>8. ASSUME Finished, Unstopped PROVE doc_id = Len(Indexable)
  <2>1. ~(at <= Len(events))
    <3>1. at \in 1..Len(events) + 1 /\ at > Len(events)
      BY <1>8, PlaceInEvents DEF Finished, Unstopped
    <3>2. PICK r : IsAhead(r)
      BY <1>1 DEF AtPage, Trailing, Outside, Noisy, Inside, BeforeTitle, InTitle,
         BeforeRevision, BeforeText, InText, BeforeRevisionEnd, BeforePageEnd
    <3>3. Len(events) \in Nat
      BY <3>2 DEF IsAhead, EventSeqs
    <3> QED  BY <3>1, <3>3
  <2>2. k = Len(dump) + 1
    <3> SUFFICES ASSUME k # Len(dump) + 1 PROVE FALSE
      OBVIOUS
    <3>1. k \in 1..Len(dump)
      BY <1>2
    <3>2. PICK p \in Pages, r \in EventSeqs :
            p = dump[k] /\ r = Rests(dump)[k + 1] /\ Rests(dump)[k] = FromPage(p, r)
      BY <1>2, <3>1, PageRests
    <3>3. Outside(FromPage(p, r)) \/ Inside(p, r)
      BY <1>1, <3>2 DEF AtPage
    <3> QED  BY <2>1, <3>3, NotAtTheEnd
  <2>3. k - 1 = Len(dump)
    BY <1>2, <2>2
  <2> QED  BY <1>7, <2>3, IndexableIsLast
<1> HIDE DEF added
<1>9. PagesAdded(added)
  BY <1>1 DEF added
<1> QED  BY <1>4, <1>5, <1>6, <1>7, <1>8, <1>9

LEMMA TypesFollow ==
  ASSUME Inv
  PROVE  TypeOK
<1>1. dump \in Seq(Pages) /\ max_docs \in Limits /\ max_docs \in Nat
  BY IngestionAssumption DEF Inv
<1>2. PICK added \in Seq(Pages) : PagesAdded(added) /\ Len(added) = doc_id /\ doc_id \in Nat
  BY <1>1, WhatIsAdded
<1>3. max_docs = 0 \/ doc_id <= max_docs
  BY <1>1, <1>2 DEF Inv, Limited
<1>4. DOMAIN store = 0..doc_id - 1 /\ Len(titles_by_id) = doc_id /\ Len(raw_links) = doc_id
  BY <1>2 DEF PagesAdded
<1>5. ASSUME NEW t \in DOMAIN title_to_id
      PROVE  title_to_id[t] \in DOMAIN store /\ store[title_to_id[t]].title = t
  <2> DEFINE id == title_to_id[t]
  <2>1. id \in 0..doc_id - 1 /\ TitleOf(added[id + 1]) = t
    BY <1>2 DEF PagesAdded
  <2>2. id + 1 \in 1..doc_id /\ (id + 1) - 1 = id
    BY <1>2, <2>1
  <2> HIDE DEF id
  <2>3. PICK rank : store[id] = Document(added[id + 1], rank)
    BY <1>2, <2>2 DEF PagesAdded
  <2>4. store[id].title = t
    BY <2>1, <2>3 DEF Document
  <2> QED  BY <1>4, <2>1, <2>4 DEF id
<1>6. status \in {"parsing", "failed", "parsed", "saved", "done"}
  BY DEF Inv
<1>7. at \in 1..(Len(events) + 1) /\ {in_page, in_revision, stop_requested} \subseteq BOOLEAN
  BY PlaceInEvents
<1> QED  BY <1>1, <1>2, <1>3, <1>4, <1>5, <1>6, <1>7 DEF TypeOK

\* The types, dense ids, one title, one list of links and one document for each, and
\* --max-docs (main.cpp's callback), for dumps of any size.
THEOREM TypesOfIndexing == Spec => []TypeOK
<1>1. Inv => TypeOK
  BY TypesFollow
<1> QED  BY <1>1, ParserFollowsDump, PTL

\* Page by page what the stripper makes of a text that is never seen in one piece: the
\* callback gets each page once, whole, in the order of the dump, as many as there
\* are or as --max-docs allows.
PagesAsStripped ==
  /\ doc_id <= Expected
  /\ titles_by_id = [i \in 1..doc_id |-> TitleOf(Indexable[i])]
  /\ raw_links = [i \in 1..doc_id |-> CleanOf(Indexable[i]).internal_links]
  /\ \A i \in 1..doc_id : \E rank : store[i - 1] = Document(Indexable[i], rank)
  /\ status = "parsed" => doc_id = Expected

LEMMA PagesFollow ==
  ASSUME Inv
  PROVE  PagesAsStripped
<1>1. dump \in Seq(Pages) /\ max_docs \in Nat
  BY IngestionAssumption DEF Inv
<1>2. /\ Indexable \in Seq(Pages) /\ doc_id \in Nat /\ doc_id <= Len(Indexable)
      /\ Finished /\ Unstopped => doc_id = Len(Indexable)
  BY <1>1, WhatIsAdded
<1>3. PICK added \in Seq(Pages) :
        /\ PagesAdded(added) /\ Len(added) = doc_id
        /\ \A i \in 1..doc_id : added[i] = Indexable[i]
  BY <1>1, WhatIsAdded
<1>4. doc_id <= Expected
  <2>1. max_docs = 0 \/ doc_id <= max_docs
    BY <1>1, <1>2 DEF Inv, Limited
  <2> QED  BY <1>1, <1>2, <2>1 DEF Expected
<1>5. ASSUME status = "parsed" PROVE doc_id = Expected
  <2>1. Finished /\ Len(Indexable) \in Nat
    BY <1>2, <1>5 DEF Inv
  <2>2. CASE Unstopped /\ (max_docs = 0 \/ doc_id < max_docs)
    BY <1>1, <1>2, <2>1, <2>2 DEF Expected
  <2>3. CASE max_docs # 0 /\ doc_id = max_docs
    BY <1>1, <1>2, <2>1, <2>3 DEF Expected
  <2> QED  BY <2>2, <2>3 DEF Inv, Limited
<1>6. titles_by_id = [i \in 1..doc_id |-> TitleOf(Indexable[i])]
  BY <1>3 DEF PagesAdded
<1>7. raw_links = [i \in 1..doc_id |-> CleanOf(Indexable[i]).internal_links]
  BY <1>3 DEF PagesAdded
<1>8. \A i \in 1..doc_id : \E rank : store[i - 1] = Document(Indexable[i], rank)
  BY <1>3 DEF PagesAdded
<1> QED  BY <1>4, <1>5, <1>6, <1>7, <1>8 DEF PagesAsStripped

\* What the callback gets and keeps is the dump's, whatever expat makes of it.
THEOREM PagesFollowDump == Spec => []PagesAsStripped
<1>1. Inv => PagesAsStripped
  BY PagesFollow
<1> QED  BY <1>1, ParserFollowsDump, PTL

\* The stripper finds the links that a reader sees, in the pages of the dumps that
\* have no broken markup and no link inside of another.
LinksAreRead ==
  \A d \in Dumps : \A i \in 1..Len(d) :
    Readable(d[i]) => Clean(FlattenSeq(d[i].text)).internal_links = d[i].links

LEMMA LinksFollow ==
  ASSUME LinksAreRead, Inv, dump \in Dumps
  PROVE  PagesAsWritten
<1> DEFINE S == {p \in Pages : Readable(p) => CleanOf(p).internal_links = p.links}
<1>1. dump \in Seq(Pages)
  BY DEF Inv
<1>2. dump \in Seq(S)
  <2>1. \A i \in 1..Len(dump) : dump[i] \in S
    BY <1>1 DEF LinksAreRead, CleanOf
  <2> HIDE DEF S
  <2> QED  BY <1>1, <2>1
<1>3. Indexable \in Seq(S) /\ doc_id \in Nat /\ doc_id <= Len(Indexable)
  <2> HIDE DEF S
  <2> QED  BY <1>2, WhatIsAdded
<1>4. PagesAsStripped
  BY PagesFollow
<1>5. ASSUME NEW i \in 1..doc_id
      PROVE  /\ Readable(Indexable[i]) => raw_links[i] = Indexable[i].links
             /\ store[i - 1].title = titles_by_id[i]
  <2>1. Indexable[i] \in S
    <3> HIDE DEF S
    <3> QED  BY <1>3
  <2>2. raw_links[i] = CleanOf(Indexable[i]).internal_links
        /\ titles_by_id[i] = TitleOf(Indexable[i])
    BY <1>4 DEF PagesAsStripped
  <2>3. store[i - 1].title = TitleOf(Indexable[i])
    <3>1. PICK rank : store[i - 1] = Document(Indexable[i], rank)
      BY <1>4 DEF PagesAsStripped
    <3> QED  BY <3>1 DEF Document
  <2> QED  BY <2>1, <2>2, <2>3
<1>6. titles_by_id = [i \in 1..doc_id |-> FlattenSeq(Indexable[i].title)]
  BY <1>4 DEF PagesAsStripped, TitleOf
<1>7. doc_id <= Expected /\ (status = "parsed" => doc_id = Expected)
  BY <1>4 DEF PagesAsStripped
<1> QED  BY <1>5, <1>6, <1>7 DEF PagesAsWritten

LEMMA OneDump ==
  Spec => [](dump \in Dumps)
<1>1. Init => dump \in Dumps
  BY DEF Init, ParserInit
<1>2. dump \in Dumps /\ [Next]_vars => (dump \in Dumps)'
  <2> SUFFICES ASSUME dump \in Dumps, [Next]_vars PROVE dump' = dump
    OBVIOUS
  <2>1. CASE Parse
    BY <2>1, AnyEvent
  <2>2. CASE ~Parse
    BY <2>2 DEF Next, ParseFails, ParseEnds, SaveGraph, RankPages, Done, vars, parser_vars
  <2> QED  BY <2>1, <2>2
<1> QED  BY <1>1, <1>2, PTL DEF Spec

\* With a stripper that reads such pages right, titles and links are the dump's
\* own, page by page: none is lost, mixed up with the next or added twice.
THEOREM PagesComeAsWritten ==
  ASSUME LinksAreRead
  PROVE  Spec => []PagesAsWritten
<1>1. Inv /\ dump \in Dumps => PagesAsWritten
  BY LinksFollow
<1> QED  BY <1>1, ParserFollowsDump, OneDump, PTL

-----------------------------------------------------------------------------
(* The index of a list of documents.                                       *)

\* The elements of a set that are larger than so many others of it.
OfRank(S, k) == {x \in S : Cardinality({y \in S : y < x}) = k - 1}

LEMMA SortedByRank ==
  ASSUME NEW S
  PROVE  Sorted(S) = [k \in 1..Cardinality(S) |-> CHOOSE x : x \in OfRank(S, k)]
BY DEF Sorted, Ordered, OfRank

LEMMA SortedNothing == Sorted({}) = << >>
BY SortedByRank, FS_EmptySet

\* A number above all others comes last.
LEMMA SortedMore ==
  ASSUME NEW n \in Nat, NEW S \in SUBSET (0..n - 1), NEW m \in Nat, n <= m
  PROVE  /\ Sorted(S \cup {m}) = Append(Sorted(S), m)
         /\ Cardinality(S) \in Nat /\ Cardinality(S \cup {m}) = Cardinality(S) + 1
<1> DEFINE c == Cardinality(S)
           more == S \cup {m}
<1>1. IsFiniteSet(S) /\ c \in Nat
  <2>1. IsFiniteSet(0..n - 1)
    BY FS_Interval
  <2> QED  BY <2>1, FS_Subset, FS_CardinalityType
<1>2. m \notin S /\ ~(m < m) /\ \A x \in S : x < m /\ ~(m < x) /\ ~(x < x)
  OBVIOUS
<1>3. Cardinality(more) = c + 1
  BY <1>1, <1>2, FS_AddElement
<1>4. ASSUME NEW k \in 1..c PROVE OfRank(more, k) = OfRank(S, k)
  <2>1. {y \in more : y < m} = S
    BY <1>2, Zenon
  <2>2. m \notin OfRank(more, k)
    <3>1. c # k - 1
      BY <1>1
    <3> QED  BY <2>1, <3>1 DEF OfRank
  <2>3. \A x \in S : {y \in more : y < x} = {y \in S : y < x}
    BY <1>2
  <2> HIDE DEF c
  <2> QED  BY <2>2, <2>3 DEF OfRank
<1>5. OfRank(more, c + 1) = {m}
  <2>1. {y \in more : y < m} = S
    BY <1>2, Zenon
  <2>2. ASSUME NEW x \in S PROVE Cardinality({y \in more : y < x}) # c
    <3> DEFINE below == {y \in more : y < x}
    <3>1. below \subseteq S /\ below # S
      BY <1>2
    <3> HIDE DEF below
    <3>2. IsFiniteSet(below) /\ Cardinality(below) <= c /\ Cardinality(below) # c
      BY <1>1, <3>1, FS_Subset
    <3>3. Cardinality(below) \in Nat
      BY <3>2, FS_CardinalityType
    <3> QED  BY <1>1, <3>2, <3>3 DEF below
  <2>3. (c + 1) - 1 = c
    BY <1>1
  <2> QED  BY <1>2, <2>1, <2>2, <2>3 DEF OfRank
<1>6. Sorted(S) = [k \in 1..c |-> CHOOSE x : x \in OfRank(S, k)]
  BY SortedByRank
<1>7. Sorted(more) = [k \in 1..c + 1 |-> CHOOSE x : x \in OfRank(more, k)]
  BY <1>3, SortedByRank
<1> HIDE DEF c, more
<1>8. Sorted(more) = [k \in 1..c + 1 |-> IF k = c + 1 THEN m ELSE Sorted(S)[k]]
  <2>1. ASSUME NEW k \in 1..c + 1
        PROVE  (CHOOSE x : x \in OfRank(more, k)) = IF k = c + 1 THEN m ELSE Sorted(S)[k]
    <3>1. CASE k = c + 1
      BY <1>5, <3>1
    <3>2. CASE k # c + 1
      <4>1. k \in 1..c
        BY <1>1, <3>2
      <4> QED  BY <1>4, <1>6, <3>2, <4>1
    <3> QED  BY <3>1, <3>2
  <2> QED  BY <1>7, <2>1
<1>9. Append(Sorted(S), m) = [k \in 1..c + 1 |-> IF k = c + 1 THEN m ELSE Sorted(S)[k]]
  <2> DEFINE s == Sorted(S)
  <2>1. s = [k \in 1..c |-> s[k]]
    BY <1>6
  <2> HIDE DEF s
  <2>2. Len(s) = c
    BY <1>1, <2>1
  <2>3. Append(s, m) = [k \in 1..c + 1 |-> IF k = c + 1 THEN m ELSE s[k]]
    BY <1>1, <2>1, <2>2
  <2> QED  BY <2>3 DEF s
<1> QED  BY <1>1, <1>3, <1>8, <1>9 DEF c, more

LEMMA SortedOfNumbers ==
  ASSUME NEW n \in Nat, NEW S \in SUBSET (0..n - 1)
  PROVE  Sorted(S) \in Seq(S) /\ Len(Sorted(S)) = Cardinality(S)
<1> DEFINE T == {m \in Nat : \A X \in SUBSET (0..m - 1) : Sorted(X) \in Seq(X)}
<1>1. 0 \in T
  <2>1. 0..0 - 1 = {}
    OBVIOUS
  <2>2. ASSUME NEW X \in SUBSET {} PROVE Sorted(X) \in Seq(X)
    <3>1. X = {} /\ << >> \in Seq(X)
      OBVIOUS
    <3> QED  BY <3>1, SortedNothing
  <2> QED  BY <2>1, <2>2
<1>2. ASSUME NEW m \in Nat, m \in T PROVE m + 1 \in T
  <2> SUFFICES ASSUME NEW X \in SUBSET (0..m) PROVE Sorted(X) \in Seq(X)
    <3>1. (m + 1) - 1 = m
      OBVIOUS
    <3> QED  BY <3>1
  <2>1. CASE m \notin X
    <3>1. X \in SUBSET (0..m - 1)
      BY <2>1
    <3> QED  BY <1>2, <3>1
  <2>2. CASE m \in X
    <3> DEFINE Y == X \ {m}
    <3>1. Y \in SUBSET (0..m - 1) /\ X = Y \cup {m}
      BY <2>2
    <3>2. Sorted(Y) \in Seq(Y)
      BY <1>2, <3>1
    <3>3. Sorted(X) = Append(Sorted(Y), m)
      <4>1. m <= m
        OBVIOUS
      <4> QED  BY <3>1, <4>1, SortedMore
    <3>4. Sorted(Y) \in Seq(X)
      BY <3>2
    <3> QED  BY <2>2, <3>3, <3>4, AppendProperties
  <2> QED  BY <2>1, <2>2
<1>3. n \in T
  <2> HIDE DEF T
  <2> QED  BY <1>1, <1>2, Induction
<1>4. Sorted(S) \in Seq(S)
  BY <1>3
<1>5. Len(Sorted(S)) = Cardinality(S)
  <2>1. IsFiniteSet(0..n - 1)
    BY FS_Interval
  <2>2. Cardinality(S) \in Nat
    BY <2>1, FS_Subset, FS_CardinalityType
  <2>3. DOMAIN Sorted(S) = 1..Cardinality(S)
    BY SortedByRank
  <2> QED  BY <2>2, <2>3, <1>4
<1> QED  BY <1>4, <1>5

LEMMA WhereMore ==
  ASSUME NEW W, NEW s \in Seq(W), NEW e \in W, NEW term
  PROVE  /\ Where(term, s) \in SUBSET (0..Len(s) - 1)
         /\ Where(term, Append(s, e)) = IF e = term THEN Where(term, s) \cup {Len(s)}
                                        ELSE Where(term, s)
<1>1. /\ Len(s) \in Nat /\ DOMAIN s = 1..Len(s) /\ Len(Append(s, e)) = Len(s) + 1
      /\ DOMAIN Append(s, e) = 1..Len(s) + 1 /\ Append(s, e)[Len(s) + 1] = e
      /\ \A i \in 1..Len(s) : Append(s, e)[i] = s[i]
  BY AppendProperties
<1> DEFINE n == Len(s)
           more == Append(s, e)
<1>2. Where(term, s) = {i - 1 : i \in {j \in 1..n : s[j] = term}}
  BY <1>1 DEF Where
<1>3. Where(term, more) = {i - 1 : i \in {j \in 1..n + 1 : more[j] = term}}
  BY <1>1 DEF Where
<1>4. {j \in 1..n + 1 : more[j] = term}
        = IF e = term THEN {j \in 1..n : s[j] = term} \cup {n + 1} ELSE {j \in 1..n : s[j] = term}
  <2>1. 1..n + 1 = (1..n) \cup {n + 1}
    BY <1>1
  <2> HIDE DEF n, more
  <2> QED  BY <1>1, <2>1 DEF n, more
<1>5. (n + 1) - 1 = n
  BY <1>1
<1>6. Where(term, s) \in SUBSET (0..n - 1)
  BY <1>1, <1>2
<1> HIDE DEF n, more
<1>7. Where(term, more) = IF e = term THEN Where(term, s) \cup {n} ELSE Where(term, s)
  <2>1. CASE e = term
    BY <1>2, <1>3, <1>4, <1>5, <2>1
  <2>2. CASE e # term
    BY <1>2, <1>3, <1>4, <2>2
  <2> QED  BY <2>1, <2>2
<1> QED  BY <1>6, <1>7 DEF n, more

\* The posting of a document.
OfDocument(term, doc, id) ==
  [doc_id |-> id, term_freq |-> Cardinality(Where(term, doc)),
   positions |-> Sorted(Where(term, doc))]

LEMMA HavingMore ==
  ASSUME NEW D, NEW docs \in Seq(D), NEW doc \in D, NEW term
  PROVE  /\ Having(term, docs) \in SUBSET (0..Len(docs) - 1)
         /\ Having(term, Append(docs, doc)) =
              IF Where(term, doc) = {} THEN Having(term, docs)
              ELSE Having(term, docs) \cup {Len(docs)}
<1>1. /\ Len(docs) \in Nat /\ DOMAIN docs = 1..Len(docs)
      /\ DOMAIN Append(docs, doc) = 1..Len(docs) + 1 /\ Append(docs, doc)[Len(docs) + 1] = doc
      /\ \A i \in 1..Len(docs) : Append(docs, doc)[i] = docs[i]
  BY AppendProperties
<1> DEFINE n == Len(docs)
           more == Append(docs, doc)
           HasIt(d) == Where(term, d) # {}
<1>2. Having(term, docs) = {i - 1 : i \in {j \in 1..n : HasIt(docs[j])}}
  BY <1>1 DEF Having
<1>3. Having(term, more) = {i - 1 : i \in {j \in 1..n + 1 : HasIt(more[j])}}
  BY <1>1 DEF Having
<1> HIDE DEF HasIt
<1>4. {j \in 1..n + 1 : HasIt(more[j])}
        = IF HasIt(doc) THEN {j \in 1..n : HasIt(docs[j])} \cup {n + 1}
          ELSE {j \in 1..n : HasIt(docs[j])}
  <2>1. 1..n + 1 = (1..n) \cup {n + 1}
    BY <1>1
  <2> HIDE DEF n, more
  <2> QED  BY <1>1, <2>1 DEF n, more
<1>5. (n + 1) - 1 = n
  BY <1>1
<1>6. Having(term, docs) \in SUBSET (0..n - 1)
  BY <1>1, <1>2
<1> HIDE DEF n, more
<1>7. Having(term, more) = IF HasIt(doc) THEN Having(term, docs) \cup {n} ELSE Having(term, docs)
  <2>1. CASE HasIt(doc)
    BY <1>2, <1>3, <1>4, <1>5, <2>1
  <2>2. CASE ~HasIt(doc)
    BY <1>2, <1>3, <1>4, <2>2
  <2> QED  BY <2>1, <2>2
<1> QED  BY <1>6, <1>7 DEF n, more, HasIt

\* The list of a term: one posting for each document that has it, in their order.
LEMMA ListOfDocuments ==
  ASSUME NEW D, NEW docs \in Seq(D), NEW term
  PROVE  /\ Sorted(Having(term, docs)) \in Seq(Having(term, docs))
         /\ ListOf(term, docs) =
              [doc_freq |-> Len(Sorted(Having(term, docs))),
               postings |-> [i \in 1..Len(Sorted(Having(term, docs))) |->
                 OfDocument(term, docs[Sorted(Having(term, docs))[i] + 1],
                            Sorted(Having(term, docs))[i])]]
<1>1. Having(term, docs) \in SUBSET (0..Len(docs) - 1) /\ Len(docs) \in Nat
  <2>1. Len(docs) \in Nat /\ DOMAIN docs = 1..Len(docs)
    OBVIOUS
  <2> QED  BY <2>1 DEF Having
<1> DEFINE ids == Sorted(Having(term, docs))
<1>2. ids \in Seq(Having(term, docs))
  BY <1>1, SortedOfNumbers
<1>3. DOMAIN ids = 1..Len(ids)
  BY <1>2
<1>4. ListOf(term, docs) = [doc_freq |-> Len(ids),
                            postings |-> [i \in DOMAIN ids |-> PostingOf(term, docs, ids[i])]]
  BY DEF ListOf
<1> HIDE DEF ids
<1>5. [i \in DOMAIN ids |-> PostingOf(term, docs, ids[i])]
        = [i \in 1..Len(ids) |-> OfDocument(term, docs[ids[i] + 1], ids[i])]
  BY <1>3 DEF PostingOf, OfDocument
<1> QED  BY <1>2, <1>4, <1>5 DEF ids

\* Lists are finite, and their postings are those of earlier documents.
ListShape(list, n, id) ==
  /\ list = [doc_freq |-> list.doc_freq, postings |-> list.postings]
  /\ DOMAIN list.postings = 1..n /\ Len(list.postings) = n
  /\ list.postings = [i \in 1..n |-> list.postings[i]]
  /\ \A i \in 1..n : list.postings[i].doc_id # id

LEMMA ListsHaveShape ==
  ASSUME NEW D, NEW docs \in Seq(D), NEW term
  PROVE  \E n \in Nat : ListShape(ListOf(term, docs), n, Len(docs))
<1> DEFINE had == Having(term, docs)
           ids == Sorted(had)
           c == Len(ids)
           k == Len(docs)
           list == ListOf(term, docs)
           old == [i \in 1..c |-> OfDocument(term, docs[ids[i] + 1], ids[i])]
<1>1. ids \in Seq(had) /\ list = [doc_freq |-> c, postings |-> old]
  BY ListOfDocuments
<1>2. k \in Nat /\ had \in SUBSET (0..k - 1)
  <2>1. Len(docs) \in Nat /\ DOMAIN docs = 1..Len(docs)
    OBVIOUS
  <2> QED  BY <2>1 DEF Having
<1>3. c \in Nat /\ \A i \in 1..c : ids[i] # k
  BY <1>1, <1>2
<1>4. Len(old) = c /\ DOMAIN old = 1..c /\ old = [i \in 1..c |-> old[i]]
  BY <1>3
<1>5. \A i \in 1..c : old[i].doc_id # k
  BY <1>3 DEF OfDocument
<1> HIDE DEF old, ids, c, k, list
<1>6. list.doc_freq = c /\ list.postings = old
         /\ list = [doc_freq |-> list.doc_freq, postings |-> list.postings]
  BY <1>1
<1>7. ListShape(list, c, k)
  BY <1>4, <1>5, <1>6 DEF ListShape
<1> QED  BY <1>3, <1>7 DEF list, k

LEMMA ListMore ==
  ASSUME NEW D, NEW docs \in Seq(D), NEW doc \in D, NEW term
  PROVE  ListOf(term, Append(docs, doc)) =
           IF Where(term, doc) = {} THEN ListOf(term, docs)
           ELSE [doc_freq |-> ListOf(term, docs).doc_freq + 1,
                 postings |-> Append(ListOf(term, docs).postings,
                                     OfDocument(term, doc, Len(docs)))]
<1> DEFINE had == Having(term, docs)
           ids == Sorted(had)
           c == Len(ids)
           k == Len(docs)
           more == Append(docs, doc)
           list == ListOf(term, docs)
           new == Sorted(Having(term, more))
<1>1. /\ ids \in Seq(had) /\ had \in SUBSET (0..k - 1) /\ k \in Nat
      /\ list = [doc_freq |-> c, postings |-> [i \in 1..c |->
                   OfDocument(term, docs[ids[i] + 1], ids[i])]]
  BY ListOfDocuments, HavingMore
<1>2. /\ c \in Nat /\ \A i \in 1..c : ids[i] \in had
  BY <1>1
<1>3. \A i \in 1..c : ids[i] \in 0..k - 1 /\ ids[i] + 1 \in 1..k /\ ids[i] # k
  BY <1>1, <1>2
<1>4. /\ Having(term, more) = IF Where(term, doc) = {} THEN had ELSE had \cup {k}
      /\ more \in Seq(D) /\ more[k + 1] = doc /\ \A i \in 1..k : more[i] = docs[i]
  BY HavingMore, AppendProperties
<1>5. ListOf(term, more) = [doc_freq |-> Len(new), postings |-> [i \in 1..Len(new) |->
                              OfDocument(term, more[new[i] + 1], new[i])]]
  BY <1>4, ListOfDocuments
<1>6. CASE Where(term, doc) = {}
  <2>1. new = ids /\ Len(new) = c
    BY <1>4, <1>6
  <2> HIDE DEF ids, c, k, more, new, list
  <2>2. [i \in 1..c |-> OfDocument(term, more[ids[i] + 1], ids[i])]
          = [i \in 1..c |-> OfDocument(term, docs[ids[i] + 1], ids[i])]
    BY <1>3, <1>4
  <2>3. ListOf(term, more) = list
    BY <1>1, <1>5, <2>1, <2>2
  <2> QED  BY <1>6, <2>3 DEF more, list, k
<1>7. CASE Where(term, doc) # {}
  <2>1. new = Append(ids, k)
    <3>1. k <= k
      BY <1>1
    <3> QED  BY <1>1, <1>4, <1>7, <3>1, SortedMore
  <2>2. Len(new) = c + 1 /\ new[c + 1] = k /\ \A i \in 1..c : new[i] = ids[i]
    <3>1. ids \in Seq(Nat) /\ k \in Nat
      BY <1>1
    <3> HIDE DEF ids, k, new
    <3> QED  BY <2>1, <3>1, AppendProperties
  <2> DEFINE old == [i \in 1..c |-> OfDocument(term, docs[ids[i] + 1], ids[i])]
             e == OfDocument(term, doc, k)
  <2>3. Len(old) = c /\ old = [i \in 1..c |-> old[i]]
    BY <1>2
  <2> HIDE DEF ids, c, k, more, new, list
  <2>4. \A i \in 1..c + 1 : OfDocument(term, more[new[i] + 1], new[i])
                              = IF i = c + 1 THEN e ELSE old[i]
    <3>1. ASSUME NEW i \in 1..c + 1, i # c + 1
          PROVE  OfDocument(term, more[new[i] + 1], new[i]) = old[i]
      <4>1. i \in 1..c
        BY <1>2, <3>1
      <4> QED  BY <1>3, <1>4, <2>2, <4>1
    <3>2. OfDocument(term, more[new[c + 1] + 1], new[c + 1]) = e
      BY <1>4, <2>2
    <3> QED  BY <3>1, <3>2
  <2> HIDE DEF old, e
  <2>5. Append(old, e) = [i \in 1..c + 1 |-> IF i = c + 1 THEN e ELSE old[i]]
    BY <1>2, <2>3
  <2>6. ListOf(term, more) = [doc_freq |-> c + 1, postings |-> Append(old, e)]
    BY <1>5, <2>2, <2>4, <2>5
  <2>7. list.doc_freq = c /\ list.postings = old
    BY <1>1 DEF old
  <2> QED  BY <1>7, <2>6, <2>7 DEF more, list, e, k
<1> QED  BY <1>6, <1>7

\* The longer document has the term in one place more, behind the others.
OnceMore(term, doc, longer, pos) ==
  /\ Cardinality(Where(term, longer)) = Cardinality(Where(term, doc)) + 1
  /\ Sorted(Where(term, longer)) = Append(Sorted(Where(term, doc)), pos)

LEMMA CountedDocument ==
  ASSUME NEW term, NEW doc, NEW longer, NEW id, NEW pos, OnceMore(term, doc, longer, pos)
  PROVE  /\ OfDocument(term, doc, id).doc_id = id
         /\ Counted(OfDocument(term, doc, id), pos) = OfDocument(term, longer, id)
<1> DEFINE freq == Cardinality(Where(term, doc))
           positions == Sorted(Where(term, doc))
           posting == [doc_id |-> id, term_freq |-> freq, positions |-> positions]
           next == [doc_id |-> id, term_freq |-> freq + 1, positions |-> positions]
           more == Append(positions, pos)
<1>1. posting = OfDocument(term, doc, id)
  BY DEF OfDocument
<1>2. OfDocument(term, longer, id) = [doc_id |-> id, term_freq |-> freq + 1, positions |-> more]
  BY DEF OfDocument, OnceMore
<1>3. Counted(posting, pos)
        = [[posting EXCEPT !.term_freq = @ + 1] EXCEPT !.positions = Append(@, pos)]
  BY Zenon DEF Counted
<1> HIDE DEF freq, positions
<1>4. [posting EXCEPT !.term_freq = @ + 1] = next /\ posting.doc_id = id
  OBVIOUS
<1>5. [next EXCEPT !.positions = Append(@, pos)] = [next EXCEPT !.positions = more]
  OBVIOUS
<1>6. [next EXCEPT !.positions = more]
        = [doc_id |-> id, term_freq |-> freq + 1, positions |-> more]
  <2> HIDE DEF more
  <2> QED  OBVIOUS
<1> HIDE DEF posting, next, more
<1> QED  BY <1>1, <1>2, <1>3, <1>4, <1>5, <1>6

LEMMA NewPostings ==
  ASSUME NEW freq, NEW postings, NEW new
  PROVE  [[doc_freq |-> freq, postings |-> postings] EXCEPT !.postings = new]
           = [doc_freq |-> freq, postings |-> new]
OBVIOUS

\* One more occurrence of a term at the end of the last document.
LEMMA OccurrenceMore ==
  ASSUME NEW W, NEW docs \in Seq(Seq(W)), NEW doc \in Seq(W), NEW term \in W
  PROVE  WithOccurrence(ListOf(term, Append(docs, doc)), Len(docs), Len(doc))
           = ListOf(term, Append(docs, Append(doc, term)))
<1> DEFINE k == Len(docs)
           n == Len(doc)
           longer == Append(doc, term)
           list == ListOf(term, docs)
           places == Where(term, doc)
           old == OfDocument(term, doc, k)
           new == OfDocument(term, longer, k)
<1>1. n \in Nat /\ k \in Nat /\ longer \in Seq(W) /\ places \in SUBSET (0..n - 1)
  BY AppendProperties, WhereMore
<1>2. Where(term, longer) = places \cup {n}
  BY WhereMore
<1>3. /\ Cardinality(Where(term, longer)) = Cardinality(Where(term, doc)) + 1
      /\ Sorted(Where(term, longer)) = Append(Sorted(Where(term, doc)), n)
  <2>1. n <= n
    BY <1>1
  <2> QED  BY <1>1, <1>2, <2>1, SortedMore, ZenonT(60)
<1>4. ListOf(term, Append(docs, longer))
        = [doc_freq |-> list.doc_freq + 1, postings |-> Append(list.postings, new)]
  <2> DEFINE D == Seq(W)
  <2>1. Where(term, longer) # {} /\ longer \in D /\ docs \in Seq(D)
    BY <1>1, <1>2
  <2> HIDE DEF D, longer
  <2>2. ListOf(term, Append(docs, longer))
          = [doc_freq |-> ListOf(term, docs).doc_freq + 1,
             postings |-> Append(ListOf(term, docs).postings,
                                 OfDocument(term, longer, Len(docs)))]
    BY <2>1, ListMore
  <2> QED  BY <2>2
<1>5. PICK m \in Nat : ListShape(list, m, k)
  BY ListsHaveShape
<1>6. /\ list = [doc_freq |-> list.doc_freq, postings |-> list.postings]
      /\ DOMAIN list.postings = 1..m /\ Len(list.postings) = m
      /\ list.postings = [i \in 1..m |-> list.postings[i]]
      /\ \A i \in 1..m : list.postings[i].doc_id # k
  BY <1>5 DEF ListShape
<1>7. CASE places = {}
  <2>1. ListOf(term, Append(docs, doc)) = list
    BY <1>7, ListMore
  <2>2. ~AtDocument(list, k)
    <3> SUFFICES ASSUME list.postings # << >> PROVE Last(list.postings).doc_id # k
      BY DEF AtDocument
    <3>1. m # 0
      <4> SUFFICES ASSUME m = 0 PROVE list.postings = << >>
        OBVIOUS
      <4> DEFINE p == list.postings
      <4>1. p = [i \in 1..m |-> p[i]] /\ 1..m = {}
        BY <1>6
      <4> HIDE DEF p
      <4>2. p = << >>
        BY <4>1
      <4> QED  BY <4>2 DEF p
    <3>2. Last(list.postings) = list.postings[m] /\ m \in 1..m
      BY <1>6, <3>1 DEF Last
    <3> QED  BY <1>6, <3>2
  <2>3. new = NewPosting(k, n)
    <3>1. Cardinality(Where(term, doc)) = 0 /\ Sorted(Where(term, doc)) = << >>
      BY <1>7, SortedNothing, FS_EmptySet
    <3>2. Cardinality(Where(term, longer)) = 1 /\ Sorted(Where(term, longer)) = <<n>>
      <4> HIDE DEF n, longer
      <4> QED  BY <1>3, <3>1
    <3> QED  BY <3>2 DEF NewPosting, OfDocument
  <2> HIDE DEF list, new
  <2> QED  BY <1>4, <2>1, <2>2, <2>3 DEF WithOccurrence
<1>8. CASE places # {}
  <2> DEFINE more == Append(list.postings, old)
  <2>1. ListOf(term, Append(docs, doc))
          = [doc_freq |-> list.doc_freq + 1, postings |-> more]
    BY <1>8, ListMore
  <2> HIDE DEF list, new, old, places, k, n
  <2>2. /\ more = [i \in 1..m + 1 |-> IF i = m + 1 THEN old ELSE list.postings[i]]
        /\ Append(list.postings, new)
             = [i \in 1..m + 1 |-> IF i = m + 1 THEN new ELSE list.postings[i]]
    BY <1>6
  <2> HIDE DEF more
  <2>3. /\ Len(more) = m + 1 /\ DOMAIN more = 1..m + 1 /\ more[m + 1] = old /\ more # << >>
        /\ Last(more) = old
    <3>1. Len(more) = m + 1 /\ DOMAIN more = 1..m + 1 /\ m + 1 \in 1..m + 1
      BY <1>6, <2>2
    <3>2. more[m + 1] = old
      BY <2>2, <3>1
    <3> QED  BY <3>1, <3>2 DEF Last
  <2>4. old.doc_id = k /\ Counted(old, n) = new
    <3> HIDE DEF longer
    <3>1. /\ OfDocument(term, doc, k).doc_id = k
          /\ Counted(OfDocument(term, doc, k), n) = OfDocument(term, longer, k)
      <4>1. OnceMore(term, doc, longer, n)
        BY <1>3 DEF OnceMore
      <4> QED  BY <4>1, CountedDocument
    <3> QED  BY <3>1, Zenon DEF old, new
  <2>5. [more EXCEPT ![m + 1] = new] = Append(list.postings, new)
    BY <2>2
  <2> DEFINE have == [doc_freq |-> list.doc_freq + 1, postings |-> more]
  <2>6. AtDocument(have, k)
    BY <2>3, <2>4 DEF AtDocument
  <2>7. WithOccurrence(have, k, n)
          = [have EXCEPT !.postings[Len(have.postings)] = Counted(@, n)]
    BY <2>6 DEF WithOccurrence
  <2>8. [have EXCEPT !.postings[Len(have.postings)] = Counted(@, n)]
          = [doc_freq |-> list.doc_freq + 1, postings |-> [more EXCEPT ![m + 1] = new]]
    <3>1. have.postings = more /\ have.doc_freq = list.doc_freq + 1
      OBVIOUS
    <3>2. Counted(have.postings[m + 1], n) = new
      BY <2>3, <2>4, <3>1
    <3>3. [have EXCEPT !.postings = [have.postings EXCEPT ![m + 1] = new]]
            = [doc_freq |-> list.doc_freq + 1, postings |-> [have.postings EXCEPT ![m + 1] = new]]
      BY NewPostings
    <3> HIDE DEF have
    <3>4. [have EXCEPT !.postings[Len(have.postings)] = Counted(@, n)]
            = [have EXCEPT !.postings = [have.postings EXCEPT ![Len(have.postings)] =
                 Counted(have.postings[Len(have.postings)], n)]]
      OBVIOUS
    <3>5. Len(have.postings) = m + 1
      BY <2>3, <3>1
    <3> QED  BY <3>1, <3>2, <3>3, <3>4, <3>5
  <2> QED  BY <1>4, <2>1, <2>5, <2>7, <2>8 DEF k, n, list
<1> QED  BY <1>7, <1>8

TermsOf(docs) == UNION {Range(docs[i]) : i \in DOMAIN docs}

ListsOf(docs) == [term \in TermsOf(docs) |-> ListOf(term, docs)]

LEMMA TermsOfDocuments ==
  ASSUME NEW D, NEW docs \in Seq(D), NEW doc \in D
  PROVE  TermsOf(Append(docs, doc)) = TermsOf(docs) \cup Range(doc)
<1>1. Len(docs) \in Nat /\ DOMAIN docs = 1..Len(docs)
  OBVIOUS
<1> DEFINE k == Len(docs)
           more == Append(docs, doc)
<1>2. /\ DOMAIN more = 1..k + 1 /\ more[k + 1] = doc
      /\ \A i \in 1..k : more[i] = docs[i]
  BY AppendProperties
<1>3. 1..k + 1 = (1..k) \cup {k + 1}
  BY <1>1
<1> HIDE DEF k, more
<1> QED  BY <1>1, <1>2, <1>3 DEF TermsOf, k, more

LEMMA TermsMore ==
  ASSUME NEW W, NEW docs \in Seq(Seq(W)), NEW doc \in Seq(W), NEW term \in W
  PROVE  TermsOf(Append(docs, Append(doc, term))) = TermsOf(Append(docs, doc)) \cup {term}
<1>1. ASSUME NEW d \in Seq(W) PROVE TermsOf(Append(docs, d)) = TermsOf(docs) \cup Range(d)
  BY TermsOfDocuments
<1>2. Append(doc, term) \in Seq(W) /\ Range(Append(doc, term)) = Range(doc) \cup {term}
  <2>1. Len(doc) \in Nat /\ DOMAIN doc = 1..Len(doc)
    OBVIOUS
  <2> DEFINE k == Len(doc)
             more == Append(doc, term)
  <2>2. /\ DOMAIN more = 1..k + 1 /\ more[k + 1] = term /\ more \in Seq(W)
        /\ \A i \in 1..k : more[i] = doc[i]
    BY AppendProperties
  <2>3. 1..k + 1 = (1..k) \cup {k + 1}
    BY <2>1
  <2> HIDE DEF k, more
  <2> QED  BY <2>1, <2>2, <2>3 DEF Range, k, more
<1> QED  BY <1>1, <1>2

\* A term that no document has.
LEMMA ListOfOther ==
  ASSUME NEW W, NEW docs \in Seq(Seq(W)), NEW term, term \notin TermsOf(docs)
  PROVE  ListOf(term, docs) = NoPostings
<1>1. Having(term, docs) = {}
  BY DEF TermsOf, Having, Where, Range
<1>2. Sorted(Having(term, docs)) = << >>
  BY <1>1, SortedNothing
<1>3. [i \in DOMAIN << >> |-> PostingOf(term, docs, << >>[i])] = << >>
  OBVIOUS
<1> QED  BY <1>2, <1>3 DEF ListOf, NoPostings

\* The body of addDocument's loop.
LEMMA TokenMore ==
  ASSUME NEW W, NEW docs \in Seq(Seq(W)), NEW doc \in Seq(W), NEW token \in W
  PROVE  WithToken(ListsOf(Append(docs, doc)), token, Len(docs), Len(doc))
           = ListsOf(Append(docs, Append(doc, token)))
<1> DEFINE now == Append(docs, doc)
           next == Append(docs, Append(doc, token))
<1>1. TermsOf(next) = TermsOf(now) \cup {token} /\ DOMAIN ListsOf(now) = TermsOf(now)
  BY TermsMore DEF ListsOf
<1>2. now \in Seq(Seq(W)) /\ Append(doc, token) \in Seq(W)
  BY AppendProperties
<1>3. PostingListOf(ListsOf(now), token) = ListOf(token, now)
  BY <1>2, ListOfOther DEF PostingListOf, ListsOf
<1>4. WithOccurrence(PostingListOf(ListsOf(now), token), Len(docs), Len(doc))
        = ListOf(token, next)
  BY <1>3, OccurrenceMore
<1>5. ASSUME NEW term \in TermsOf(now), term # token
      PROVE  ListsOf(now)[term] = ListOf(term, next)
  <2>1. Where(term, Append(doc, token)) = Where(term, doc)
    BY <1>5, WhereMore
  <2>2. OfDocument(term, Append(doc, token), Len(docs)) = OfDocument(term, doc, Len(docs))
    BY <2>1 DEF OfDocument
  <2>3. ListOf(term, next) = ListOf(term, now)
    <3> DEFINE D == Seq(W)
               longer == Append(doc, token)
    <3>1. longer \in D /\ doc \in D /\ docs \in Seq(D)
      BY <1>2
    <3> HIDE DEF D, longer
    <3>2. \A d \in D : ListOf(term, Append(docs, d)) =
            IF Where(term, d) = {} THEN ListOf(term, docs)
            ELSE [doc_freq |-> ListOf(term, docs).doc_freq + 1,
                  postings |-> Append(ListOf(term, docs).postings,
                                      OfDocument(term, d, Len(docs)))]
      BY <3>1, ListMore
    <3>3. Where(term, longer) = Where(term, doc)
          /\ OfDocument(term, longer, Len(docs)) = OfDocument(term, doc, Len(docs))
      BY <2>1, <2>2 DEF longer
    <3>4. ListOf(term, Append(docs, longer)) = ListOf(term, Append(docs, doc))
      BY <3>1, <3>2, <3>3
    <3> QED  BY <3>4 DEF longer
  <2> QED  BY <2>3 DEF ListsOf
<1> HIDE DEF now, next
<1>6. WithToken(ListsOf(now), token, Len(docs), Len(doc))
        = [term \in TermsOf(next) |-> ListOf(term, next)]
  <2>1. \A term \in TermsOf(next) :
          (IF term = token
           THEN WithOccurrence(PostingListOf(ListsOf(now), term), Len(docs), Len(doc))
           ELSE ListsOf(now)[term]) = ListOf(term, next)
    BY <1>1, <1>4, <1>5
  <2> QED  BY <1>1, <2>1 DEF WithToken
<1> QED  BY <1>6 DEF now, next, ListsOf

\* The tokens of a document, one after the other.
LEMMA DocumentMore ==
  ASSUME NEW W, NEW docs \in Seq(Seq(W)), NEW tokens \in Seq(W)
  PROVE  AddDocument(IndexOf(docs), Len(docs), tokens).index = ListsOf(Append(docs, tokens))
<1> DEFINE n == Len(tokens)
           k == Len(docs)
           Upto(m) == SubSeq(tokens, 1, m)
           IsIndex(g) == g = [m \in 0..n |->
             IF m = 0 THEN IndexOf(docs).index ELSE WithToken(g[m - 1], tokens[m], k, m - 1)]
           right == [m \in 0..n |-> ListsOf(Append(docs, Upto(m)))]
           F == CHOOSE g : IsIndex(g)
<1>1. n \in Nat /\ \A m \in 1..n : tokens[m] \in W
  OBVIOUS
<1>2. ASSUME NEW m \in 0..n PROVE Upto(m) \in Seq(W) /\ Len(Upto(m)) = m
  <2>1. \A i \in 1..m : tokens[i] \in W
    BY <1>1
  <2> QED  BY <1>1, <2>1
<1>3. Upto(0) = << >> /\ Upto(n) = tokens
  BY <1>1
<1>4. ASSUME NEW m \in 1..n PROVE Upto(m) = Append(Upto(m - 1), tokens[m])
  BY <1>1
<1>5. IndexOf(docs).index = ListsOf(docs)
  BY DEF IndexOf, ListsOf, TermsOf
<1>6. ListsOf(Append(docs, << >>)) = ListsOf(docs)
  <2>1. TermsOf(Append(docs, << >>)) = TermsOf(docs)
    <3> DEFINE D == Seq(W)
               none == << >>
    <3>1. Range(none) = {} /\ none \in D /\ docs \in Seq(D)
      BY DEF Range
    <3> HIDE DEF none, D
    <3>2. TermsOf(Append(docs, none)) = TermsOf(docs) \cup Range(none)
      BY <3>1, TermsOfDocuments
    <3> QED  BY <3>1, <3>2 DEF none
  <2>2. ASSUME NEW term PROVE ListOf(term, Append(docs, << >>)) = ListOf(term, docs)
    <3>1. Where(term, << >>) = {} /\ << >> \in Seq(W)
      BY DEF Where
    <3> QED  BY <3>1, ListMore
  <2> QED  BY <2>1, <2>2 DEF ListsOf
<1> HIDE DEF n, k, Upto
<1>7. IsIndex(right)
  <2>1. ASSUME NEW m \in 0..n
        PROVE  right[m] = IF m = 0 THEN IndexOf(docs).index
                          ELSE WithToken(right[m - 1], tokens[m], k, m - 1)
    <3>1. CASE m = 0
      BY <1>3, <1>5, <1>6, <3>1
    <3>2. CASE m # 0
      <4>1. m - 1 \in 0..n /\ m \in 1..n
        BY <1>1, <3>2
      <4>2. right[m - 1] = ListsOf(Append(docs, Upto(m - 1)))
            /\ right[m] = ListsOf(Append(docs, Upto(m)))
        BY <4>1
      <4>3. WithToken(ListsOf(Append(docs, Upto(m - 1))), tokens[m], k, m - 1)
              = ListsOf(Append(docs, Append(Upto(m - 1), tokens[m])))
        BY <1>1, <1>2, <4>1, TokenMore DEF k
      <4> QED  BY <1>4, <3>2, <4>1, <4>2, <4>3
    <3> QED  BY <3>1, <3>2
  <2>2. DOMAIN right = 0..n /\ right = [m \in 0..n |-> right[m]]
    OBVIOUS
  <2> HIDE DEF right
  <2> QED  BY <2>1, <2>2
<1>8. IsIndex(F)
  <2> HIDE DEF IsIndex
  <2> QED  BY <1>7
<1> HIDE DEF F
<1>9. F[n] = right[n]
  <2> DEFINE T == {m \in Nat : m \in 0..n => F[m] = right[m]}
  <2> HIDE DEF right
  <2>1. \A m \in 0..n : /\ F[m] = IF m = 0 THEN IndexOf(docs).index
                                  ELSE WithToken(F[m - 1], tokens[m], k, m - 1)
                        /\ right[m] = IF m = 0 THEN IndexOf(docs).index
                                      ELSE WithToken(right[m - 1], tokens[m], k, m - 1)
    BY <1>7, <1>8
  <2>2. ASSUME NEW m \in Nat, m \in T, m + 1 \in 0..n PROVE F[m + 1] = right[m + 1]
    <3>1. (m + 1) - 1 = m /\ m + 1 # 0 /\ m \in 0..n
      BY <1>1, <2>2
    <3> QED  BY <2>1, <2>2, <3>1
  <2>3. 0 \in T /\ \A m \in Nat : m \in T => m + 1 \in T
    BY <1>1, <2>1, <2>2
  <2> HIDE DEF T
  <2>4. Nat \subseteq T
    BY <2>3, Induction
  <2> QED  BY <1>1, <2>4 DEF T
<1>10. AddDocument(IndexOf(docs), k, tokens).index = F[n]
  BY DEF AddDocument, F, n
<1> QED  BY <1>1, <1>3, <1>9, <1>10 DEF k

LEMMA LengthMore ==
  ASSUME NEW W, NEW seqs \in Seq(Seq(W)), NEW s \in Seq(W)
  PROVE  Len(FlattenSeq(Append(seqs, s))) = Len(FlattenSeq(seqs)) + Len(s)
<1> DEFINE n == Len(seqs)
           more == Append(seqs, s)
<1>1. /\ n \in Nat /\ more \in Seq(Seq(W)) /\ Len(more) = n + 1 /\ more[n + 1] = s
      /\ \A i \in 1..n : more[i] = seqs[i]
  BY AppendProperties
<1>2. PICK f \in [0..n -> Seq(W)] : Joins(f, seqs) /\ FlattenSeq(seqs) = f[n]
  BY Flattening
<1>3. PICK g \in [0..n + 1 -> Seq(W)] : Joins(g, more) /\ FlattenSeq(more) = g[n + 1]
  BY <1>1, Flattening
<1>4. g[n] = f[n]
  <2> DEFINE T == {m \in Nat : m \in 0..n => g[m] = f[m]}
  <2>1. 0 \in T
    BY <1>2, <1>3 DEF Joins
  <2>2. ASSUME NEW m \in Nat, m \in T, m + 1 \in 0..n PROVE g[m + 1] = f[m + 1]
    <3>1. (m + 1) - 1 = m /\ m \in 0..n /\ m + 1 \in 1..n /\ m + 1 \in 1..n + 1
      <4>1. n \in Nat
        BY <1>1
      <4> HIDE DEF n
      <4> QED  BY <2>2, <4>1
    <3>2. f[m + 1] = f[m] \o seqs[m + 1]
      BY <1>2, <3>1 DEF Joins
    <3>3. g[m + 1] = g[m] \o more[m + 1]
      BY <1>1, <1>3, <3>1 DEF Joins
    <3> QED  BY <1>1, <2>2, <3>1, <3>2, <3>3
  <2>3. \A m \in Nat : m \in T => m + 1 \in T
    BY <2>2
  <2> HIDE DEF T
  <2>4. Nat \subseteq T
    BY <2>1, <2>3, Induction
  <2> QED  BY <1>1, <2>4, SMTT(30) DEF T
<1>5. g[n + 1] = g[n] \o s
  <2>1. (n + 1) - 1 = n /\ n + 1 \in 1..n + 1
    BY <1>1
  <2> QED  BY <1>1, <1>3, <2>1 DEF Joins
<1>6. g[n] \in Seq(W) /\ Len(g[n] \o s) = Len(g[n]) + Len(s)
  <2>1. g[n] \in Seq(W)
    BY <1>1
  <2> QED  BY <2>1
<1> QED  BY <1>2, <1>3, <1>4, <1>5, <1>6

\* Adding a document with the next id to the index of the documents before it.
LEMMA IndexMore ==
  ASSUME NEW W, NEW docs \in Seq(Seq(W)), NEW tokens \in Seq(W)
  PROVE  AddDocument(IndexOf(docs), Len(docs), tokens) = IndexOf(Append(docs, tokens))
<1> DEFINE k == Len(docs)
           more == Append(docs, tokens)
           next == AddDocument(IndexOf(docs), k, tokens)
           lengths == [id \in {i - 1 : i \in DOMAIN more} |-> Len(more[id + 1])]
           count == Len(FlattenSeq(docs))
<1>1. /\ k \in Nat /\ DOMAIN docs = 1..k /\ Len(more) = k + 1 /\ DOMAIN more = 1..k + 1
      /\ more[k + 1] = tokens /\ \A i \in 1..k : more[i] = docs[i]
  BY AppendProperties
<1>2. next.index = ListsOf(more)
  BY DocumentMore
<1>3. [d \in DOMAIN IndexOf(docs).doc_lengths \cup {k} |->
         IF d = k THEN Len(tokens) ELSE IndexOf(docs).doc_lengths[d]] = lengths
  <2> DEFINE old == [id \in {i - 1 : i \in DOMAIN docs} |-> Len(docs[id + 1])]
  <2> HIDE DEF k, more
  <2>1. IndexOf(docs).doc_lengths = old
    BY DEF IndexOf
  <2>2. {i - 1 : i \in DOMAIN docs} = 0..k - 1 /\ {i - 1 : i \in DOMAIN more} = 0..k
    <3>1. \A i \in 1..k : i - 1 \in 0..k - 1
      BY <1>1
    <3>2. \A i \in 0..k - 1 : i + 1 \in 1..k /\ (i + 1) - 1 = i
      BY <1>1
    <3>3. \A i \in 1..k + 1 : i - 1 \in 0..k
      BY <1>1
    <3>4. \A i \in 0..k : i + 1 \in 1..k + 1 /\ (i + 1) - 1 = i
      BY <1>1
    <3>5. {i - 1 : i \in 1..k} = 0..k - 1
      BY <3>1, <3>2
    <3>6. {i - 1 : i \in 1..k + 1} = 0..k
      BY <3>3, <3>4
    <3> QED  BY <1>1, <3>5, <3>6
  <2>3. (0..k - 1) \cup {k} = 0..k
    BY <1>1
  <2>4. ASSUME NEW d \in 0..k
        PROVE  (IF d = k THEN Len(tokens) ELSE old[d]) = Len(more[d + 1])
    <3>1. CASE d = k
      BY <1>1, <3>1
    <3>2. CASE d # k
      <4>1. d \in 0..k - 1 /\ d + 1 \in 1..k
        BY <1>1, <3>2
      <4>2. old[d] = Len(docs[d + 1])
        BY <2>2, <4>1
      <4> QED  BY <1>1, <3>2, <4>1, <4>2
    <3> QED  BY <3>1, <3>2
  <2>5. DOMAIN old = 0..k - 1
    BY <2>2
  <2> HIDE DEF old
  <2> QED  BY <2>1, <2>2, <2>3, <2>4, <2>5
<1>4. Len(FlattenSeq(more)) = count + Len(tokens)
  BY LengthMore
<1> HIDE DEF more, k, lengths
<1>5. next = [index |-> ListsOf(more), doc_lengths |-> lengths, total_docs |-> k + 1,
              total_token_count |-> count + Len(tokens)]
  <2>1. /\ IndexOf(docs).total_docs = k /\ IndexOf(docs).total_token_count = count
    BY DEF IndexOf, k
  <2>2. next = [index |-> next.index,
                doc_lengths |-> [d \in DOMAIN IndexOf(docs).doc_lengths \cup {k} |->
                  IF d = k THEN Len(tokens) ELSE IndexOf(docs).doc_lengths[d]],
                total_docs |-> IndexOf(docs).total_docs + 1,
                total_token_count |-> IndexOf(docs).total_token_count + Len(tokens)]
    BY DEF AddDocument
  <2> HIDE DEF next, count
  <2> QED  BY <1>2, <1>3, <2>1, <2>2
<1>6. IndexOf(more) = [index |-> ListsOf(more), doc_lengths |-> lengths,
                       total_docs |-> Len(more), total_token_count |-> Len(FlattenSeq(more))]
  BY DEF IndexOf, ListsOf, TermsOf, lengths
<1>7. Len(more) = k + 1
  BY <1>1
<1> HIDE DEF next, count
<1> QED  BY <1>4, <1>5, <1>6, <1>7 DEF next, k, more

LEMMA IndexOfNothing == IndexOf(<< >>) = EmptyIndex
<1>1. TermsOf(<< >>) = {} /\ {i - 1 : i \in DOMAIN << >>} = {}
  BY DEF TermsOf
<1>2. FlattenSeq(<< >>) = << >>
  BY DEF FlattenSeq
<1>3. IndexOf(<< >>)
        = [index |-> [term \in {} |-> ListOf(term, << >>)],
           doc_lengths |-> [id \in {} |-> Len((<< >>)[id + 1])],
           total_docs |-> 0, total_token_count |-> 0]
  BY <1>1, <1>2 DEF IndexOf, TermsOf
<1> QED  BY <1>3 DEF EmptyIndex

-------------------------------------------------------------------
(* Recursion over the places of a text, from the last to the first.        *)

\* What is so of a place if it is so of all behind it, is so of all places.
LEMMA Downward ==
  ASSUME NEW n \in Nat, NEW T, n + 1 \in T,
         \A p \in 1..n : (\A q \in p + 1..n + 1 : q \in T) => p \in T
  PROVE  1..n + 1 \subseteq T
<1> DEFINE U == {m \in Nat : m <= n => \A q \in n + 1 - m..n + 1 : q \in T}
<1>1. 0 \in U
  <2>1. \A q \in n + 1 - 0..n + 1 : q = n + 1
    OBVIOUS
  <2> QED  BY <2>1
<1>2. ASSUME NEW m \in Nat, m \in U, m + 1 <= n,
             NEW q \in n + 1 - (m + 1)..n + 1
      PROVE  q \in T
  <2>1. \A r \in n + 1 - m..n + 1 : r \in T
    BY <1>2
  <2>2. CASE q \in n + 1 - m..n + 1
    BY <2>1, <2>2
  <2>3. CASE q = n - m
    <3>1. q \in 1..n /\ q + 1 = n + 1 - m
      BY <1>2, <2>3
    <3> QED  BY <2>1, <3>1
  <2>4. q \in n + 1 - m..n + 1 \/ q = n - m
    BY <1>2
  <2> QED  BY <2>2, <2>3, <2>4
<1>3. \A m \in Nat : m \in U => m + 1 \in U
  BY <1>2
<1>4. n \in U
  <2> HIDE DEF U
  <2> QED  BY <1>1, <1>3, Induction
<1>5. n + 1 - n = 1
  OBVIOUS
<1> QED  BY <1>4, <1>5

GoesBack(f, last, n, next, step) ==
  f[n + 1] = last /\ \A p \in 1..n : f[p] = step[p][f[next[p]]]

\* A function is defined by its value behind the last place and by what it has for a
\* place in terms of one behind that.
LEMMA Backwards ==
  ASSUME NEW States, NEW last \in States, NEW n \in Nat,
         NEW next \in [1..n -> 1..n + 1], \A p \in 1..n : next[p] > p,
         NEW step \in [1..n -> [States -> States]]
  PROVE  \E f \in [1..n + 1 -> States] : GoesBack(f, last, n, next, step)
<1> DEFINE Goes(m, f) == /\ f \in [n + 1 - m..n + 1 -> States] /\ f[n + 1] = last
                         /\ \A p \in n + 1 - m..n : f[p] = step[p][f[next[p]]]
           T == {m \in Nat : m <= n => \E f : Goes(m, f)}
<1>1. 0 \in T
  <2>1. Goes(0, [p \in n + 1..n + 1 |-> last])
    OBVIOUS
  <2> QED  BY <2>1
<1>2. ASSUME NEW m \in Nat, m + 1 <= n, NEW f, Goes(m, f) PROVE \E g : Goes(m + 1, g)
  <2> DEFINE here == n - m
             g == [p \in here..n + 1 |-> IF p = here THEN step[p][f[next[p]]] ELSE f[p]]
  <2>1. here \in 1..n /\ n + 1 - m = here + 1 /\ n + 1 - (m + 1) = here
    BY <1>2
  <2> HIDE DEF here
  <2>2. /\ f \in [here + 1..n + 1 -> States] /\ f[n + 1] = last
        /\ \A p \in here + 1..n : f[p] = step[p][f[next[p]]]
    BY <1>2, <2>1
  <2>3. next[here] \in here + 1..n + 1 /\ step[here] \in [States -> States]
    BY <2>1
  <2>4. step[here][f[next[here]]] \in States
    BY <2>2, <2>3
  <2>5. g \in [here..n + 1 -> States]
    <3> SUFFICES ASSUME NEW p \in here..n + 1 PROVE g[p] \in States
      OBVIOUS
    <3>1. CASE p = here
      BY <2>4, <3>1
    <3>2. CASE p # here
      <4>1. p \in here + 1..n + 1
        BY <2>1, <3>2
      <4> QED  BY <2>2, <3>2, <4>1
    <3> QED  BY <3>1, <3>2
  <2>6. \A p \in here + 1..n + 1 : p \in here..n + 1 /\ p # here /\ g[p] = f[p]
    BY <2>1
  <2>7. g[n + 1] = last
    <3>1. n + 1 \in here + 1..n + 1
      BY <2>1
    <3> QED  BY <2>2, <2>6, <3>1
  <2>8. ASSUME NEW p \in here..n PROVE g[p] = step[p][g[next[p]]]
    <3>1. p \in 1..n /\ next[p] \in p + 1..n + 1
      BY <2>1
    <3>2. next[p] \in here + 1..n + 1
      BY <2>1, <3>1
    <3>3. g[next[p]] = f[next[p]]
      BY <2>6, <3>2
    <3>4. CASE p = here
      <4>1. g[p] = step[p][f[next[p]]]
        BY <2>1, <3>4
      <4> QED  BY <3>3, <4>1
    <3>5. CASE p # here
      <4>1. p \in here + 1..n /\ p \in here + 1..n + 1
        BY <2>1, <3>5
      <4> QED  BY <2>2, <2>6, <3>3, <4>1
    <3> QED  BY <3>4, <3>5
  <2> HIDE DEF g
  <2>9. Goes(m + 1, g)
    BY <2>1, <2>5, <2>7, <2>8
  <2> QED  BY <2>9
<1>3. \A m \in Nat : m \in T => m + 1 \in T
  <2> HIDE DEF Goes
  <2> QED  BY <1>2
<1>4. n \in T
  <2> HIDE DEF T
  <2> QED  BY <1>1, <1>3, Induction
<1>5. PICK f : Goes(n, f)
  <2> HIDE DEF Goes
  <2> QED  BY <1>4
<1>6. n + 1 - n = 1
  OBVIOUS
<1> QED  BY <1>5, <1>6 DEF GoesBack

-----------------------------------------------------------------------------
(* Places in a text.                                                       *)

LEMMA LeastNumber ==
  ASSUME NEW n \in Nat, NEW S \in SUBSET (1..n), S # {}
  PROVE  Min(S) \in S /\ \A y \in S : Min(S) <= y
<1> DEFINE HasMin(X) == \E x \in X : \A y \in X : x <= y
           T == {p \in 1..n + 1 : \A X \in SUBSET (p..n) : X # {} => HasMin(X)}
<1>1. n + 1 \in T
  <2>1. n + 1..n = {} /\ n + 1 \in 1..n + 1
    OBVIOUS
  <2>2. \A X \in SUBSET (n + 1..n) : X = {}
    BY <2>1
  <2> HIDE DEF HasMin
  <2> QED  BY <2>1, <2>2
<1>2. ASSUME NEW p \in 1..n, \A q \in p + 1..n + 1 : q \in T PROVE p \in T
  <2> SUFFICES ASSUME NEW X \in SUBSET (p..n), X # {} PROVE HasMin(X)
    OBVIOUS
  <2>1. CASE p \in X
    BY <2>1
  <2>2. CASE p \notin X
    <3>1. X \in SUBSET (p + 1..n) /\ p + 1 \in p + 1..n + 1
      BY <2>2
    <3> QED  BY <1>2, <3>1
  <2> QED  BY <2>1, <2>2
<1>3. 1 \in T
  <2> HIDE DEF T
  <2>1. 1..n + 1 \subseteq T
    BY <1>1, <1>2, Downward
  <2> QED  BY <2>1
<1>4. \E x \in S : \A y \in S : x <= y
  BY <1>3
<1> QED  BY <1>4 DEF Min

\* The first place of a text with, or without, a character.
LEMMA FirstPlace ==
  ASSUME NEW n \in Nat, NEW S \in SUBSET (1..n), NEW p, p = IF S # {} THEN Min(S) ELSE 0
  PROVE  p \in 0..n /\ (p # 0 => p \in S) /\ \A i \in 1..n : i \in S => p # 0 /\ p <= i
<1>1. CASE S = {}
  BY <1>1
<1>2. CASE S # {}
  <2>1. p \in S /\ \A y \in S : p <= y
    BY <1>2, LeastNumber
  <2> QED  BY <2>1
<1> QED  BY <1>1, <1>2

\* What std::string::find finds.
LEMMA Found ==
  ASSUME NEW C, NEW t \in Seq(C), NEW token, NEW from \in Int, from >= 1,
         NEW p, p = Find(t, token, from)
  PROVE  \/ p = NPos
         \/ /\ p \in from..Len(t) /\ StartsWithAt(t, p, token)
            /\ p + Len(token) - 1 <= Len(t)
<1> DEFINE S == {pos \in from..Len(t) : StartsWithAt(t, pos, token)}
<1>1. CASE S = {}
  BY <1>1 DEF Find
<1>2. CASE S # {}
  <2>1. Len(t) \in Nat /\ S \in SUBSET (1..Len(t))
    OBVIOUS
  <2>2. p = Min(S)
    BY <1>2 DEF Find
  <2>3. p \in S
    <3> HIDE DEF S
    <3> QED  BY <1>2, <2>1, <2>2, LeastNumber
  <2> QED  BY <2>3 DEF StartsWithAt
<1> QED  BY <1>1, <1>2

\* findMatchingDoubleClose finds nothing, or a place behind the opening token.
MatchStep(t, open_token, close_token, p, d, ahead) ==
  IF StartsWithAt(t, p, open_token) THEN ahead[d + 1]
  ELSE IF ~StartsWithAt(t, p, close_token) THEN ahead[d]
  ELSE IF d = 1 THEN p
  ELSE ahead[d - 1]

IsMatch(g, t, open_token, close_token) ==
  g = [p \in 1..Len(t) + 1 |->
        [d \in Int |->
           IF p > Len(t) THEN NPos
           ELSE IF StartsWithAt(t, p, open_token) THEN g[p + 2][d + 1]
           ELSE IF ~StartsWithAt(t, p, close_token) THEN g[p + 1][d]
           ELSE IF d = 1 THEN p
           ELSE g[p + 2][d - 1]]]

LEMMA MatchExists ==
  ASSUME NEW C, NEW t \in Seq(C), NEW open_token, NEW close_token,
         Len(open_token) = 2, Len(close_token) = 2
  PROVE  \E f : IsMatch(f, t, open_token, close_token)
<1> DEFINE n == Len(t)
           States == [Int -> Nat]
           last == [d \in Int |-> 0]
           Opens(p) == StartsWithAt(t, p, open_token)
           Closes(p) == StartsWithAt(t, p, close_token)
           next == [p \in 1..n |-> IF ~Opens(p) /\ ~Closes(p) THEN p + 1 ELSE p + 2]
           Here(p, v) == [d \in Int |-> MatchStep(t, open_token, close_token, p, d, v)]
           step == [p \in 1..n |-> [v \in States |-> Here(p, v)]]
<1>1. n \in Nat /\ last \in States
  OBVIOUS
<1>2. ASSUME NEW p \in 1..n, NEW v \in States PROVE Here(p, v) \in States
  <2>1. ASSUME NEW d \in Int PROVE MatchStep(t, open_token, close_token, p, d, v) \in Nat
    <3>1. d + 1 \in Int /\ d - 1 \in Int /\ p \in Nat
      OBVIOUS
    <3>2. \A e \in Int : v[e] \in Nat
      BY Zenon
    <3> QED  BY <3>1, <3>2, Zenon DEF MatchStep
  <2> QED  BY <2>1
<1>3. step \in [1..n -> [States -> States]]
  <2> HIDE DEF Here, States
  <2> QED  BY <1>2
<1>4. next \in [1..n -> 1..n + 1] /\ \A p \in 1..n : next[p] > p
  <2> SUFFICES ASSUME NEW p \in 1..n PROVE next[p] \in p + 1..n + 1
    OBVIOUS
  <2>1. Opens(p) \/ Closes(p) => p + 1 <= n
    BY DEF StartsWithAt
  <2>2. next[p] = IF ~Opens(p) /\ ~Closes(p) THEN p + 1 ELSE p + 2
    <3> HIDE DEF Opens, Closes
    <3> QED  OBVIOUS
  <2> HIDE DEF Opens, Closes, next
  <2> QED  BY <1>1, <2>1, <2>2
<1>5. PICK f \in [1..n + 1 -> States] :
        f[n + 1] = last /\ \A p \in 1..n : f[p] = step[p][f[next[p]]]
  <2> HIDE DEF step, next, States, last, n
  <2>1. n \in Nat /\ last \in States /\ next \in [1..n -> 1..n + 1]
        /\ step \in [1..n -> [States -> States]]
    BY <1>1, <1>3, <1>4
  <2>2. \A p \in 1..n : next[p] > p
    BY <1>4
  <2>3. \E f \in [1..n + 1 -> States] : GoesBack(f, last, n, next, step)
    BY <2>1, <2>2, Backwards
  <2> QED  BY <2>3 DEF GoesBack
<1>6. ASSUME NEW p \in 1..n + 1
      PROVE  f[p] = [d \in Int |->
                       IF p > n THEN NPos
                       ELSE IF Opens(p) THEN f[p + 2][d + 1]
                       ELSE IF ~Closes(p) THEN f[p + 1][d]
                       ELSE IF d = 1 THEN p
                       ELSE f[p + 2][d - 1]]
  <2>1. CASE p = n + 1
    <3>1. p > n /\ f[p] = last
      BY <1>1, <1>5, <2>1
    <3> HIDE DEF n, Opens, Closes
    <3> QED  BY <3>1, Zenon DEF NPos, last
  <2>2. CASE p # n + 1
    <3>1. p \in 1..n /\ ~(p > n)
      BY <1>1, <2>2
    <3>2. next[p] \in 1..n + 1 /\ f[next[p]] \in States
      <4> HIDE DEF next, States
      <4> QED  BY <1>4, <1>5, <3>1
    <3>3. f[p] = Here(p, f[next[p]])
      <4>1. f[p] = step[p][f[next[p]]]
        BY <1>5, <3>1
      <4>2. step[p][f[next[p]]] = Here(p, f[next[p]])
        <5> HIDE DEF Here, next, States
        <5> QED  BY <3>1, <3>2
      <4> QED  BY <4>1, <4>2, Zenon
    <3>4. next[p] = IF ~Opens(p) /\ ~Closes(p) THEN p + 1 ELSE p + 2
      <4> HIDE DEF Opens, Closes
      <4> QED  BY <3>1, Zenon
    <3>5. CASE Opens(p)
      <4>1. f[p] = [d \in Int |-> f[p + 2][d + 1]]
        <5>1. next[p] = p + 2
          BY <3>4, <3>5, Zenon
        <5> HIDE DEF next
        <5> QED  BY <3>3, <3>5, <5>1, Zenon DEF MatchStep
      <4> HIDE DEF n
      <4> QED  BY <3>1, <3>5, <4>1, Zenon
    <3>6. CASE ~Opens(p) /\ ~Closes(p)
      <4>1. f[p] = [d \in Int |-> f[p + 1][d]]
        <5>1. next[p] = p + 1
          BY <3>4, <3>6, Zenon
        <5> HIDE DEF next
        <5> QED  BY <3>3, <3>6, <5>1, Zenon DEF MatchStep
      <4> HIDE DEF n
      <4> QED  BY <3>1, <3>6, <4>1, Zenon
    <3>7. CASE ~Opens(p) /\ Closes(p)
      <4>1. f[p] = [d \in Int |-> IF d = 1 THEN p ELSE f[p + 2][d - 1]]
        <5>1. next[p] = p + 2
          BY <3>4, <3>7, Zenon
        <5> HIDE DEF next
        <5> QED  BY <3>3, <3>7, <5>1, Zenon DEF MatchStep
      <4> HIDE DEF n
      <4> QED  BY <3>1, <3>7, <4>1, Zenon
    <3> QED  BY <3>5, <3>6, <3>7
  <2> QED  BY <2>1, <2>2
<1>7. f = [p \in 1..n + 1 |-> f[p]]
  <2> HIDE DEF States, n
  <2> QED  BY <1>5
<1>8. IsMatch(f, t, open_token, close_token)
  <2>1. [p \in 1..n + 1 |-> f[p]] =
        [p \in 1..n + 1 |->
           [d \in Int |->
              IF p > n THEN NPos
              ELSE IF Opens(p) THEN f[p + 2][d + 1]
              ELSE IF ~Closes(p) THEN f[p + 1][d]
              ELSE IF d = 1 THEN p
              ELSE f[p + 2][d - 1]]]
    <3> HIDE DEF n, Opens, Closes
    <3> QED  BY <1>6, Zenon
  <2> QED  BY <1>7, <2>1, Zenon DEF IsMatch
<1> QED  BY <1>8

LEMMA MatchingClose ==
  ASSUME NEW C, NEW t \in Seq(C), NEW open_token, NEW close_token,
         Len(open_token) = 2, Len(close_token) = 2, NEW open \in 1..Len(t),
         NEW close, close = FindMatchingDoubleClose(t, open, open_token, close_token)
  PROVE  close = NPos \/ close \in open..Len(t) - 1
<1> DEFINE n == Len(t)
           F == CHOOSE g : IsMatch(g, t, open_token, close_token)
           Opens(p) == StartsWithAt(t, p, open_token)
           Closes(p) == StartsWithAt(t, p, close_token)
           Right(p) == \A d \in Int : F[p][d] = 0 \/ F[p][d] \in p..n - 1
           T == {p \in 1..n + 1 : Right(p)}
<1>1. close = F[open][0]
  <2>1. FindMatchingDoubleClose(t, open, open_token, close_token) = F[open][0]
    BY Zenon DEF FindMatchingDoubleClose, IsMatch
  <2> QED  BY <2>1
<1>2. IsMatch(F, t, open_token, close_token)
  <2> HIDE DEF F
  <2>1. \E f : IsMatch(f, t, open_token, close_token)
    BY MatchExists
  <2> QED  BY <2>1, Zenon DEF F
<1> HIDE DEF F
<1>3. ASSUME NEW p \in 1..n + 1, NEW d \in Int
      PROVE  F[p][d] = IF p > n THEN NPos
                       ELSE IF Opens(p) THEN F[p + 2][d + 1]
                       ELSE IF ~Closes(p) THEN F[p + 1][d]
                       ELSE IF d = 1 THEN p
                       ELSE F[p + 2][d - 1]
  <2>1. F[p] = [e \in Int |->
                  IF p > n THEN NPos
                  ELSE IF Opens(p) THEN F[p + 2][e + 1]
                  ELSE IF ~Closes(p) THEN F[p + 1][e]
                  ELSE IF e = 1 THEN p
                  ELSE F[p + 2][e - 1]]
    <3> HIDE DEF Opens, Closes
    <3> QED  BY <1>2, Zenon DEF IsMatch, Opens, Closes
  <2> HIDE DEF n, Opens, Closes
  <2> QED  BY <2>1, Zenon
<1>4. n \in Nat
  OBVIOUS
<1>5. n + 1 \in T
  <2>1. n + 1 > n /\ n + 1 \in 1..n + 1
    BY <1>4
  <2>2. \A d \in Int : F[n + 1][d] = 0
    <3> HIDE DEF Opens, Closes, n
    <3> QED  BY <1>3, <2>1 DEF NPos
  <2> QED  BY <2>1, <2>2
<1>6. ASSUME NEW p \in 1..n, \A q \in p + 1..n + 1 : q \in T PROVE p \in T
  <2>1. Opens(p) \/ Closes(p) => p + 1 <= n
    BY DEF StartsWithAt
  <2> HIDE DEF Opens, Closes
  <2>2. p \in 1..n + 1 /\ ~(p > n)
    BY <1>4
  <2> SUFFICES ASSUME NEW d \in Int PROVE F[p][d] = 0 \/ F[p][d] \in p..n - 1
    BY <2>2
  <2> HIDE DEF n
  <2>3. \A q \in p + 1..n + 1 : \A e \in Int : F[q][e] = 0 \/ F[q][e] \in p..n - 1
    BY <1>4, <1>6
  <2>4. d + 1 \in Int /\ d - 1 \in Int
    OBVIOUS
  <2>5. CASE Opens(p)
    <3>1. p + 2 \in p + 1..n + 1
      BY <1>4, <2>1, <2>2, <2>5
    <3>2. F[p][d] = F[p + 2][d + 1]
      BY <1>3, <2>2, <2>5, Zenon
    <3> QED  BY <2>3, <2>4, <3>1, <3>2
  <2>6. CASE ~Opens(p) /\ ~Closes(p)
    <3>1. F[p][d] = F[p + 1][d] /\ p + 1 \in p + 1..n + 1
      BY <1>3, <1>4, <2>2, <2>6
    <3> QED  BY <2>3, <3>1
  <2>7. CASE ~Opens(p) /\ Closes(p) /\ d = 1
    <3>1. F[p][d] = p /\ p \in p..n - 1
      BY <1>3, <1>4, <2>1, <2>2, <2>7
    <3> QED  BY <3>1
  <2>8. CASE ~Opens(p) /\ Closes(p) /\ d # 1
    <3>1. F[p][d] = F[p + 2][d - 1] /\ p + 2 \in p + 1..n + 1
      BY <1>3, <1>4, <2>1, <2>2, <2>8
    <3> QED  BY <2>3, <2>4, <3>1
  <2> QED  BY <2>5, <2>6, <2>7, <2>8
<1>7. 1..n + 1 \subseteq T
  <2> HIDE DEF T, n
  <2> QED  BY <1>4, <1>5, <1>6, Downward
<1>8. open \in T
  BY <1>4, <1>7
<1> QED  BY <1>1, <1>8 DEF NPos

-----------------------------------------------------------------------------
(* What is cut out.                                                        *)

\* Nowhere, or at a place behind the opening token.
Onwards(t, open, next) == next = NPos \/ next \in open + 1..Len(t) + 1

LEMMA CommentsEnd ==
  ASSUME NEW C, NEW t \in Seq(C), NEW open \in 1..Len(t)
  PROVE  Onwards(t, open, BehindComment(t, open))
<1> DEFINE token == <<"-", "-", ">">>
           close == Find(t, token, open + 4)
<1>1. Len(token) = 3 /\ Len(t) \in Nat
  OBVIOUS
<1>2. BehindComment(t, open) = Behind(close, token)
  BY DEF BehindComment
<1> HIDE DEF token
<1>3. close = NPos \/ (close \in open + 4..Len(t) /\ close + 3 - 1 <= Len(t))
  <2> HIDE DEF close
  <2>1. close = Find(t, token, open + 4) /\ open + 4 \in Int /\ open + 4 >= 1
    BY DEF close
  <2> QED  BY <1>1, <2>1, Found
<1> HIDE DEF close
<1>4. Behind(close, token) = IF close = NPos THEN NPos ELSE close + 3
  BY <1>1 DEF Behind
<1> QED  BY <1>1, <1>2, <1>3, <1>4 DEF Onwards, NPos

LEMMA ReferencesEnd ==
  ASSUME NEW C, NEW t \in Seq(C), NEW open \in 1..Len(t)
  PROVE  Onwards(t, open, BehindRef(t, open))
<1> DEFINE bracket == <<">">>
           token == <<"<", "/", "r", "e", "f", ">">>
           tag_end == Find(t, bracket, open + 4)
           close == Find(t, token, tag_end + 1)
           slashed == t[tag_end - 1] = "/"
<1>1. /\ Len(bracket) = 1 /\ Len(t) \in Nat
      /\ Len(token) = 6
  OBVIOUS
<1>2. BehindRef(t, open) = IF tag_end = NPos THEN NPos
                              ELSE IF slashed \/ close = NPos THEN tag_end + 1 ELSE close + 6
  BY Zenon DEF BehindRef
<1> HIDE DEF token, bracket, slashed
<1>3. tag_end = NPos \/ tag_end \in open + 4..Len(t)
  <2> HIDE DEF tag_end
  <2>1. tag_end = Find(t, bracket, open + 4) /\ open + 4 \in Int /\ open + 4 >= 1
    BY DEF tag_end
  <2> QED  BY <1>1, <2>1, Found
<1>4. tag_end # NPos =>
        close = NPos \/ (close \in tag_end + 1..Len(t) /\ close + 6 - 1 <= Len(t))
  <2> SUFFICES ASSUME tag_end # NPos
               PROVE  close = NPos \/ (close \in tag_end + 1..Len(t)
                                       /\ close + 6 - 1 <= Len(t))
    OBVIOUS
  <2>1. tag_end + 1 \in Int /\ tag_end + 1 >= 1
    <3> HIDE DEF tag_end
    <3> QED  BY <1>3
  <2>2. close = Find(t, token, tag_end + 1)
    OBVIOUS
  <2> HIDE DEF tag_end, close
  <2> QED  BY <1>1, <2>1, <2>2, Found
<1> HIDE DEF tag_end, close
<1> QED  BY <1>1, <1>2, <1>3, <1>4 DEF Onwards, NPos

LEMMA PairsEnd ==
  ASSUME NEW C, NEW t \in Seq(C), NEW open \in 1..Len(t),
         NEW open_token, Len(open_token) = 2, NEW close_token, Len(close_token) = 2
  PROVE  Onwards(t, open,
                 Behind(FindMatchingDoubleClose(t, open, open_token, close_token), close_token))
<1> DEFINE close == FindMatchingDoubleClose(t, open, open_token, close_token)
<1> HIDE DEF close
<1>1. close = NPos \/ close \in open..Len(t) - 1
  BY MatchingClose DEF close
<1>2. Behind(close, close_token) = IF close = NPos THEN NPos ELSE close + 2
  BY DEF Behind
<1>3. Len(t) \in Nat
  OBVIOUS
<1>4. Onwards(t, open, Behind(close, close_token))
  BY <1>1, <1>2, <1>3 DEF Onwards, NPos
<1> QED  BY <1>4 DEF close

RestKept(t, open_token, behind, p, open, rest) ==
  IF open = NPos THEN SubSeq(t, p, Len(t))
  ELSE KeptBefore(t, p, open) \o (IF behind[open] = NPos THEN << >> ELSE rest)

IsKept(g, t, open_token, behind) ==
  g = [p \in 1..Len(t) + 1 |->
         LET open == Find(t, open_token, p)
             next == behind[open]
         IN  IF open = NPos THEN SubSeq(t, p, Len(t))
             ELSE KeptBefore(t, p, open) \o (IF next = NPos THEN << >> ELSE g[next])]

LEMMA CutOut ==
  ASSUME NEW C, NEW t \in Seq(C), NEW open_token, NEW behind,
         \A open \in 1..Len(t) : Onwards(t, open, behind[open])
  PROVE  Without(t, open_token, behind) \in Seq(C)
<1> DEFINE n == Len(t)
           States == Seq(C)
           open(p) == Find(t, open_token, p)
           Cuts(p) == open(p) # NPos /\ behind[open(p)] # NPos
           next == [p \in 1..n |-> IF Cuts(p) THEN behind[open(p)] ELSE n + 1]
           Here(p, rest) == RestKept(t, open_token, behind, p, open(p), rest)
           step == [p \in 1..n |-> [rest \in States |-> Here(p, rest)]]
           last == << >>
           F == CHOOSE g : IsKept(g, t, open_token, behind)
<1>1. n \in Nat /\ last \in States
  OBVIOUS
<1>2. ASSUME NEW p \in 1..n + 1 PROVE open(p) = NPos \/ open(p) \in p..n
  <2> DEFINE q == open(p)
  <2>1. q = Find(t, open_token, p) /\ p \in Int /\ p >= 1
    BY <1>1
  <2> HIDE DEF q
  <2>2. q = NPos \/ q \in p..n
    BY <2>1, Found
  <2> QED  BY <2>2 DEF q
<1>3. ASSUME NEW p \in 1..n, NEW rest \in States PROVE Here(p, rest) \in States
  <2> DEFINE q == open(p)
  <2>1. q = NPos \/ q \in p..n
    BY <1>1, <1>2
  <2> HIDE DEF q
  <2>2. SubSeq(t, p, n) \in States
    BY <1>1
  <2>3. CASE q = NPos
    <3>1. RestKept(t, open_token, behind, p, q, rest) \in States
      BY <2>2, <2>3 DEF RestKept
    <3> QED  BY <3>1 DEF q
  <2>4. CASE q # NPos
    <3>1. KeptBefore(t, p, q) \in States
      <4>1. q - 1 <= n /\ q - 1 \in Int
        BY <1>1, <2>1, <2>4
      <4> QED  BY <1>1, <4>1 DEF KeptBefore
    <3>2. RestKept(t, open_token, behind, p, q, rest) \in States
      <4> DEFINE r == IF behind[q] = NPos THEN << >> ELSE rest
      <4>1. r \in States
        BY <1>1
      <4>2. RestKept(t, open_token, behind, p, q, rest) = KeptBefore(t, p, q) \o r
        BY <2>4 DEF RestKept
      <4> HIDE DEF r
      <4> QED  BY <3>1, <4>1, <4>2
    <3> QED  BY <3>2 DEF q
  <2> QED  BY <2>3, <2>4
<1>4. step \in [1..n -> [States -> States]]
  <2> HIDE DEF Here, States
  <2> QED  BY <1>3
<1>5. next \in [1..n -> 1..n + 1] /\ \A p \in 1..n : next[p] > p
  <2> SUFFICES ASSUME NEW p \in 1..n PROVE next[p] \in p + 1..n + 1
    OBVIOUS
  <2> DEFINE q == open(p)
  <2>1. q = NPos \/ q \in p..n
    BY <1>1, <1>2
  <2>2. next[p] = IF q # NPos /\ behind[q] # NPos THEN behind[q] ELSE n + 1
    OBVIOUS
  <2> HIDE DEF q, next
  <2>3. q # NPos => behind[q] = NPos \/ behind[q] \in q + 1..n + 1
    BY <1>1, <2>1 DEF Onwards
  <2> HIDE DEF n
  <2> QED  BY <1>1, <2>1, <2>2, <2>3
<1>6. PICK f \in [1..n + 1 -> States] : GoesBack(f, last, n, next, step)
  <2> HIDE DEF step, next, States, last, n
  <2> QED  BY <1>1, <1>4, <1>5, Backwards
<1>7. ASSUME NEW p \in 1..n + 1
      PROVE  f[p] = IF open(p) = NPos THEN SubSeq(t, p, n)
                    ELSE KeptBefore(t, p, open(p))
                           \o (IF behind[open(p)] = NPos THEN << >> ELSE f[behind[open(p)]])
  <2>1. CASE p = n + 1
    <3>1. open(p) = NPos
      <4> HIDE DEF open
      <4> QED  BY <1>1, <1>2, <2>1
    <3>2. SubSeq(t, n + 1, n) = << >>
      BY <1>1
    <3>3. f[n + 1] = << >>
      BY <1>6 DEF GoesBack
    <3> QED  BY <2>1, <3>1, <3>2, <3>3
  <2>2. CASE p # n + 1
    <3>1. p \in 1..n
      BY <1>1, <2>2
    <3>2. next[p] \in 1..n + 1 /\ f[next[p]] \in States
      <4> HIDE DEF next, States
      <4> QED  BY <1>5, <1>6, <3>1
    <3>3. f[p] = Here(p, f[next[p]])
      <4>1. f[p] = step[p][f[next[p]]]
        BY <1>6, <3>1 DEF GoesBack
      <4>2. step[p][f[next[p]]] = Here(p, f[next[p]])
        <5> HIDE DEF Here, next, States
        <5> QED  BY <3>1, <3>2
      <4> QED  BY <4>1, <4>2, Zenon
    <3>4. next[p] = IF Cuts(p) THEN behind[open(p)] ELSE n + 1
      <4> HIDE DEF Cuts, open
      <4> QED  BY <3>1, Zenon
    <3>5. CASE Cuts(p)
      <4>1. next[p] = behind[open(p)]
        BY <3>4, <3>5, Zenon
      <4> HIDE DEF next, open
      <4> QED  BY <3>3, <3>5, <4>1, Zenon DEF RestKept
    <3>6. CASE ~Cuts(p)
      <4> HIDE DEF next, open
      <4> QED  BY <3>3, <3>6, Zenon DEF RestKept
    <3> QED  BY <3>5, <3>6
  <2> QED  BY <2>1, <2>2
<1>8. f = [p \in 1..n + 1 |-> f[p]]
  <2> HIDE DEF States, n
  <2> QED  BY <1>6
<1>9. IsKept(f, t, open_token, behind)
  <2>1. [p \in 1..n + 1 |-> f[p]] =
        [p \in 1..n + 1 |->
           IF open(p) = NPos THEN SubSeq(t, p, n)
           ELSE KeptBefore(t, p, open(p))
                  \o (IF behind[open(p)] = NPos THEN << >> ELSE f[behind[open(p)]])]
    <3> HIDE DEF n, open
    <3> QED  BY <1>7, Zenon
  <2> QED  BY <1>8, <2>1, Zenon DEF IsKept
<1>10. IsKept(F, t, open_token, behind)
  BY <1>9, Zenon
<1>11. Without(t, open_token, behind) = F[1]
  BY Zenon DEF Without, IsKept
<1> HIDE DEF F
<1>12. ASSUME NEW p \in 1..n + 1
       PROVE  F[p] = IF open(p) = NPos THEN SubSeq(t, p, n)
                     ELSE KeptBefore(t, p, open(p))
                            \o (IF behind[open(p)] = NPos THEN << >> ELSE F[behind[open(p)]])
  <2>1. F = [r \in 1..n + 1 |->
               IF open(r) = NPos THEN SubSeq(t, r, n)
               ELSE KeptBefore(t, r, open(r))
                      \o (IF behind[open(r)] = NPos THEN << >> ELSE F[behind[open(r)]])]
    BY <1>10, Zenon DEF IsKept
  <2> HIDE DEF n, open
  <2> QED  BY <2>1, Zenon
<1> DEFINE T == {p \in 1..n + 1 : F[p] = f[p]}
<1>13. n + 1 \in T
  <2>1. n + 1 \in 1..n + 1 /\ open(n + 1) = NPos
    <3> HIDE DEF open
    <3>1. n + 1 \in 1..n + 1
      BY <1>1
    <3> QED  BY <1>1, <1>2, <3>1
  <2> HIDE DEF open, n
  <2> QED  BY <1>7, <1>12, <2>1, Zenon
<1>14. ASSUME NEW p \in 1..n, \A q \in p + 1..n + 1 : q \in T PROVE p \in T
  <2>1. p \in 1..n + 1
    BY <1>1
  <2>2. CASE Cuts(p)
    <3>1. behind[open(p)] \in p + 1..n + 1
      <4>1. open(p) \in p..n
        BY <1>2, <2>1, <2>2
      <4> HIDE DEF open
      <4>2. behind[open(p)] = NPos \/ behind[open(p)] \in open(p) + 1..n + 1
        BY <1>1, <4>1 DEF Onwards
      <4> QED  BY <1>1, <2>2, <4>1, <4>2
    <3>2. F[behind[open(p)]] = f[behind[open(p)]]
      BY <1>14, <3>1
    <3> HIDE DEF open, n
    <3> QED  BY <1>7, <1>12, <2>1, <2>2, <3>2, Zenon
  <2>3. CASE ~Cuts(p)
    <3> HIDE DEF open, n
    <3> QED  BY <1>7, <1>12, <2>1, <2>3, Zenon
  <2> QED  BY <2>2, <2>3
<1>15. 1..n + 1 \subseteq T
  <2> HIDE DEF T, n
  <2> QED  BY <1>1, <1>13, <1>14, Downward
<1>16. 1 \in 1..n + 1
  BY <1>1
<1>17. F[1] = f[1] /\ f[1] \in Seq(C)
  <2> HIDE DEF n
  <2> QED  BY <1>6, <1>15, <1>16
<1> QED  BY <1>11, <1>17

LEMMA PassesCut ==
  ASSUME NEW C, NEW t \in Seq(C)
  PROVE  /\ StripComments(t) \in Seq(C) /\ StripRefTags(t) \in Seq(C)
         /\ StripTemplates(t) \in Seq(C) /\ StripTables(t) \in Seq(C)
<1>0. DOMAIN t = 1..Len(t)
  OBVIOUS
<1>1. StripComments(t) \in Seq(C)
  <2> DEFINE behind == [open \in DOMAIN t |-> BehindComment(t, open)]
  <2>1. \A open \in 1..Len(t) : Onwards(t, open, behind[open])
    BY <1>0, CommentsEnd
  <2> HIDE DEF behind
  <2>2. \A token : Without(t, token, behind) \in Seq(C)
    BY <2>1, CutOut
  <2> QED  BY <2>2 DEF StripComments, behind
<1>2. StripRefTags(t) \in Seq(C)
  <2> DEFINE behind == [open \in DOMAIN t |-> BehindRef(t, open)]
  <2>1. \A open \in 1..Len(t) : Onwards(t, open, behind[open])
    BY <1>0, ReferencesEnd
  <2> HIDE DEF behind
  <2>2. \A token : Without(t, token, behind) \in Seq(C)
    BY <2>1, CutOut
  <2> QED  BY <2>2 DEF StripRefTags, behind
<1>3. StripTemplates(t) \in Seq(C)
  <2> DEFINE behind == [open \in DOMAIN t |-> BehindTemplate(t, open)]
  <2>1. \A open \in 1..Len(t) : Onwards(t, open, BehindTemplate(t, open))
    <3>1. Len(<<"{", "{">>) = 2 /\ Len(<<"}", "}">>) = 2
      OBVIOUS
    <3> QED  BY <3>1, PairsEnd DEF BehindTemplate
  <2>2. \A open \in 1..Len(t) : Onwards(t, open, behind[open])
    BY <1>0, <2>1
  <2> HIDE DEF behind
  <2>3. \A token : Without(t, token, behind) \in Seq(C)
    BY <2>2, CutOut
  <2> QED  BY <2>3 DEF StripTemplates, behind
<1>4. StripTables(t) \in Seq(C)
  <2> DEFINE behind == [open \in DOMAIN t |-> BehindTable(t, open)]
  <2>1. \A open \in 1..Len(t) : Onwards(t, open, BehindTable(t, open))
    <3>1. Len(<<"{", "|">>) = 2 /\ Len(<<"|", "}">>) = 2
      OBVIOUS
    <3> QED  BY <3>1, PairsEnd DEF BehindTable
  <2>2. \A open \in 1..Len(t) : Onwards(t, open, behind[open])
    BY <1>0, <2>1
  <2> HIDE DEF behind
  <2>3. \A token : Without(t, token, behind) \in Seq(C)
    BY <2>2, CutOut
  <2> QED  BY <2>3 DEF StripTables, behind
<1> QED  BY <1>1, <1>2, <1>3, <1>4

-----------------------------------------------------------------------------
(* Links.                                                                  *)

\* Tests of a character, each with a name of its own so that the steps which do not
\* depend on which character it is can leave it folded.
IsText(c) == c \notin Space

HasBlank(C) == " " \in C

Renaming(c) == IF c = "_" THEN " " ELSE c

IsSplit(c) == c \in {" ", "\t", NewLine}

LEMMA Trimmed ==
  ASSUME NEW C, NEW t \in Seq(C)
  PROVE  Trim(t) \in Seq(C)
<1> DEFINE S == {i \in 1..Len(t) : IsText(t[i])}
           first == IF S # {} THEN Min(S) ELSE 0
           last == IF S # {} THEN Max(S) ELSE 0
<1>1. Trim(t) = IF ~HasNonWhitespace(t) THEN << >> ELSE SubSeq(t, first, last)
  BY DEF Trim, SelectInSeq, SelectLastInSeq, IsText
<1>2. Len(t) \in Nat /\ DOMAIN t = 1..Len(t) /\ S \in SUBSET (1..Len(t))
  OBVIOUS
<1>3. CASE ~HasNonWhitespace(t)
  BY <1>1, <1>3
<1>4. CASE HasNonWhitespace(t)
  <2>1. S # {}
    BY <1>2, <1>4 DEF HasNonWhitespace, IsText
  <2> HIDE DEF S
  <2>2. first \in 1..Len(t) /\ last \in 1..Len(t)
    <3>1. Min(S) \in S /\ Max(S) \in S
      BY <1>2, <2>1, LeastNumber, LargestNumber
    <3> QED  BY <1>2, <2>1, <3>1
  <2> HIDE DEF first, last
  <2>3. SubSeq(t, first, last) \in Seq(C)
    BY <1>2, <2>2
  <2> QED  BY <1>1, <1>4, <2>3
<1> QED  BY <1>3, <1>4

LEMMA Renamed ==
  ASSUME NEW C, HasBlank(C), NEW t \in Seq(C)
  PROVE  NoUnderscores(t) \in Seq(C) /\ Len(NoUnderscores(t)) = Len(t)
<1>1. NoUnderscores(t) = [i \in DOMAIN t |-> Renaming(t[i])]
  BY Zenon DEF NoUnderscores, Renaming
<1>2. ASSUME NEW c \in C PROVE Renaming(c) \in C
  BY Zenon DEF Renaming, HasBlank
<1>3. DOMAIN t = 1..Len(t) /\ \A i \in 1..Len(t) : Renaming(t[i]) \in C
  BY <1>2
<1> QED  BY <1>1, <1>3

LEMMA Cut ==
  ASSUME NEW C, NEW t \in Seq(C), NEW m \in Nat, m > 0, NEW n \in Int, n <= Len(t)
  PROVE  SubSeq(t, m, n) \in Seq(C)
  OBVIOUS

LEMMA Displayed ==
  ASSUME NEW C, HasBlank(C), NEW t \in Seq(C)
  PROVE  CleanLinkDisplay(t) \in Seq(C)
<1> DEFINE shown == IF t # << >> /\ t[1] = "#" THEN Tail(t) ELSE t
<1>1. shown \in Seq(C)
  OBVIOUS
<1>2. CleanLinkDisplay(t) = Trim(NoUnderscores(shown))
  BY DEF CleanLinkDisplay
<1> HIDE DEF shown
<1> QED  BY <1>1, <1>2, Renamed, Trimmed

LEMMA Normalized ==
  ASSUME NEW C, HasBlank(C), NEW t \in Seq(C)
  PROVE  NormalizeLinkTarget(t) \in Seq(C)
<1> DEFINE target == NoUnderscores(Trim(t))
           named == IF target # << >> /\ target[1] = ":" THEN Trim(Tail(target)) ELSE target
           anchor == Find(named, <<"#">>, 1)
<1>1. NormalizeLinkTarget(t) =
        IF anchor = NPos THEN named ELSE Trim(SubSeq(named, 1, anchor - 1))
  BY DEF NormalizeLinkTarget
<1>2. target \in Seq(C)
  BY Trimmed, Renamed
<1>3. named \in Seq(C)
  <2> HIDE DEF target
  <2>1. target # << >> => Tail(target) \in Seq(C)
    BY <1>2
  <2> QED  BY <1>2, <2>1, Trimmed
<1> HIDE DEF named
<1>4. anchor = NPos \/ anchor \in 1..Len(named)
  <2> DEFINE token == <<"#">>
  <2> HIDE DEF anchor, token
  <2>1. anchor = Find(named, token, 1)
    BY DEF anchor, token
  <2>2. 1 \in Int /\ 1 >= 1
    OBVIOUS
  <2> QED  BY <1>3, <2>1, <2>2, Found
<1> HIDE DEF anchor
<1>5. anchor # NPos => SubSeq(named, 1, anchor - 1) \in Seq(C)
  BY <1>3, <1>4
<1> QED  BY <1>1, <1>3, <1>5, Trimmed

\* Something shown, links, and a place to go on at.
IsPiece(piece, C, next) ==
  piece.shown \in Seq(C) /\ piece.links \in Seq(Seq(C)) /\ piece.next = next

LEMMA InternalPiece ==
  ASSUME NEW C, HasBlank(C), NEW inner \in Seq(C), NEW next
  PROVE  IsPiece(InternalLink(inner, next), C, next)
<1> DEFINE Bar(c) == c = "|"
           S == {i \in 1..Len(inner) : Bar(inner[i])}
           pipe == IF S # {} THEN Min(S) ELSE 0
           behind == (IF S # {} THEN Max(S) ELSE 0) + 1
           target == IF pipe = 0 THEN inner ELSE SubSeq(inner, 1, pipe - 1)
           display == CleanLinkDisplay(SubSeq(inner, behind, Len(inner)))
<1>1. InternalLink(inner, next) =
        Piece(DisplayOr(display, target), Recorded(NormalizeLinkTarget(target)), next)
  BY DEF InternalLink, SelectInSeq, SelectLastInSeq
<1>2. Len(inner) \in Nat /\ S \in SUBSET (1..Len(inner))
  OBVIOUS
<1>3. pipe \in 0..Len(inner) /\ behind \in 1..Len(inner) + 1
  <2> DEFINE last == IF S # {} THEN Max(S) ELSE 0
  <2>1. pipe \in 0..Len(inner)
    <3> HIDE DEF S
    <3> QED  BY <1>2, FirstPlace
  <2>2. last \in 0..Len(inner)
    <3> HIDE DEF S
    <3> QED  BY <1>2, LastPlace
  <2> HIDE DEF last
  <2>3. last + 1 \in 1..Len(inner) + 1
    BY <1>2, <2>2
  <2> QED  BY <2>1, <2>3 DEF last
<1> HIDE DEF pipe, behind
<1>4. target \in Seq(C)
  BY <1>2, <1>3
<1>5. display \in Seq(C)
  <2>1. SubSeq(inner, behind, Len(inner)) \in Seq(C)
    BY <1>2, <1>3
  <2> QED  BY <2>1, Displayed
<1> HIDE DEF target, display
<1>6. DisplayOr(display, target) \in Seq(C)
  BY <1>4, <1>5, Displayed DEF DisplayOr
<1>7. Recorded(NormalizeLinkTarget(target)) \in Seq(Seq(C))
  <2> DEFINE spelt == NormalizeLinkTarget(target)
  <2>1. spelt \in Seq(C)
    BY <1>4, Normalized
  <2> HIDE DEF spelt
  <2>2. Recorded(spelt) \in Seq(Seq(C))
    BY <2>1 DEF Recorded
  <2> QED  BY <2>2 DEF spelt
<1> QED  BY <1>1, <1>6, <1>7 DEF Piece, IsPiece

LEMMA ExternalPiece ==
  ASSUME NEW C, HasBlank(C), NEW inner \in Seq(C), NEW next
  PROVE  IsPiece(ExternalLink(inner, next), C, next)
<1> DEFINE S == {i \in 1..Len(inner) : IsSplit(inner[i])}
           split == IF S # {} THEN Min(S) ELSE 0
           shown == IF split = 0 THEN << >>
                    ELSE CleanLinkDisplay(Trim(SubSeq(inner, split + 1, Len(inner))))
<1>1. ExternalLink(inner, next) = Piece(shown, << >>, next)
  BY Zenon DEF ExternalLink, SelectInSeq, IsSplit
<1>2. Len(inner) \in Nat /\ S \in SUBSET (1..Len(inner))
  OBVIOUS
<1>3. split \in 0..Len(inner)
  <2> HIDE DEF S
  <2> QED  BY <1>2, FirstPlace
<1> HIDE DEF split
<1>4. SubSeq(inner, split + 1, Len(inner)) \in Seq(C)
  BY <1>2, <1>3
<1>5. shown \in Seq(C)
  <2> DEFINE behind == SubSeq(inner, split + 1, Len(inner))
  <2>1. Trim(behind) \in Seq(C)
    BY <1>4, Trimmed
  <2>2. CleanLinkDisplay(Trim(behind)) \in Seq(C)
    <3> HIDE DEF behind
    <3> QED  BY <2>1, Displayed
  <2> QED  BY <2>2
<1> HIDE DEF shown
<1> QED  BY <1>1, <1>5 DEF Piece, IsPiece

LEMMA PieceAt ==
  ASSUME NEW C, HasBlank(C), NEW t \in Seq(C), NEW p \in 1..Len(t)
  PROVE  \E next \in p + 1..Len(t) + 1 : IsPiece(At(t, p), C, next)
<1> DEFINE two == <<"]", "]">>
           one == <<"]">>
           close == Find(t, two, p + 2)
           single == Find(t, one, p + 1)
           opens == StartsWithAt(t, p, <<"[", "[">>)
<1>1. At(t, p) =
        IF opens /\ close # NPos
        THEN InternalLink(SubSeq(t, p + 2, close - 1), close + 2)
        ELSE IF IsExternalLink(t, p, single)
        THEN ExternalLink(Trim(SubSeq(t, p + 1, single - 1)), single + 1)
        ELSE Piece(<<t[p]>>, << >>, p + 1)
  BY Zenon DEF At
<1>2. Len(t) \in Nat /\ Len(two) = 2 /\ Len(one) = 1
  OBVIOUS
<1> HIDE DEF two, one, opens
<1>3. close = NPos \/ (close \in p + 2..Len(t) /\ close + 2 - 1 <= Len(t))
  <2> HIDE DEF close
  <2>1. close = Find(t, two, p + 2) /\ p + 2 \in Int /\ p + 2 >= 1
    BY DEF close
  <2> QED  BY <1>2, <2>1, Found
<1>4. single = NPos \/ single \in p + 1..Len(t)
  <2> HIDE DEF single
  <2>1. single = Find(t, one, p + 1) /\ p + 1 \in Int /\ p + 1 >= 1
    BY DEF single
  <2> QED  BY <1>2, <2>1, Found
<1> HIDE DEF close, single
<1>5. CASE opens /\ close # NPos
  <2>1. SubSeq(t, p + 2, close - 1) \in Seq(C) /\ close + 2 \in p + 1..Len(t) + 1
    BY <1>2, <1>3, <1>5
  <2>2. IsPiece(InternalLink(SubSeq(t, p + 2, close - 1), close + 2), C, close + 2)
    BY <2>1, InternalPiece
  <2> QED  BY <1>1, <1>5, <2>1, <2>2
<1>6. CASE ~(opens /\ close # NPos) /\ IsExternalLink(t, p, single)
  <2>1. single # NPos
    BY <1>6 DEF IsExternalLink
  <2>2. SubSeq(t, p + 1, single - 1) \in Seq(C) /\ single + 1 \in p + 1..Len(t) + 1
    BY <1>2, <1>4, <2>1
  <2>3. Trim(SubSeq(t, p + 1, single - 1)) \in Seq(C)
    BY <2>2, Trimmed
  <2>4. IsPiece(ExternalLink(Trim(SubSeq(t, p + 1, single - 1)), single + 1), C, single + 1)
    BY <2>3, ExternalPiece
  <2> QED  BY <1>1, <1>6, <2>2, <2>4
<1>7. CASE ~(opens /\ close # NPos) /\ ~IsExternalLink(t, p, single)
  <2>1. At(t, p) = Piece(<<t[p]>>, << >>, p + 1)
    BY <1>1, <1>7
  <2>2. t[p] \in C /\ p + 1 \in p + 1..Len(t) + 1
    BY <1>2
  <2>3. IsPiece(Piece(<<t[p]>>, << >>, p + 1), C, p + 1)
    BY <2>2 DEF Piece, IsPiece
  <2> QED  BY <2>1, <2>2, <2>3
<1> QED  BY <1>5, <1>6, <1>7

Results(C) == [cleaned_text : Seq(C), internal_links : Seq(Seq(C))]

Nothing == [cleaned_text |-> << >>, internal_links |-> << >>]

IsProcessed(g, t) ==
  g = [p \in 1..Len(t) + 1 |->
         IF p > Len(t) THEN [cleaned_text |-> << >>, internal_links |-> << >>]
         ELSE FromPiece(At(t, p), g)]

LEMMA LinksProcessed ==
  ASSUME NEW C, HasBlank(C), NEW t \in Seq(C)
  PROVE  ProcessLinks(t) \in Results(C)
<1> DEFINE n == Len(t)
           States == Results(C)
           next == [p \in 1..n |-> At(t, p).next]
           Here(p, rest) == Joined(At(t, p), rest)
           step == [p \in 1..n |-> [rest \in States |-> Here(p, rest)]]
           F == CHOOSE g : IsProcessed(g, t)
<1>1. n \in Nat /\ Nothing \in States
  BY DEF Nothing, Results
<1>2. \A p \in 1..n : \E m \in p + 1..n + 1 : IsPiece(At(t, p), C, m)
  BY PieceAt
<1>3. next \in [1..n -> 1..n + 1] /\ \A p \in 1..n : next[p] > p
  <2> SUFFICES ASSUME NEW p \in 1..n PROVE At(t, p).next \in p + 1..n + 1
    OBVIOUS
  <2> HIDE DEF n
  <2> QED  BY <1>2 DEF IsPiece
<1>4. step \in [1..n -> [States -> States]]
  <2> SUFFICES ASSUME NEW p \in 1..n, NEW rest \in States PROVE Here(p, rest) \in States
    <3> HIDE DEF Here, States
    <3> QED  OBVIOUS
  <2> DEFINE piece == At(t, p)
  <2>1. piece.shown \in Seq(C) /\ piece.links \in Seq(Seq(C))
    BY <1>2 DEF IsPiece
  <2> HIDE DEF piece
  <2>2. Joined(piece, rest) \in States
    <3>1. /\ piece.shown \o rest.cleaned_text \in Seq(C)
          /\ piece.links \o rest.internal_links \in Seq(Seq(C))
      BY <2>1 DEF Results
    <3> QED  BY <3>1 DEF Joined, Results
  <2> QED  BY <2>2 DEF piece
<1>5. PICK f \in [1..n + 1 -> States] : GoesBack(f, Nothing, n, next, step)
  <2> HIDE DEF step, next, States, n
  <2> QED  BY <1>1, <1>3, <1>4, Backwards
<1>6. ASSUME NEW p \in 1..n + 1
      PROVE  f[p] = IF p > n THEN Nothing ELSE FromPiece(At(t, p), f)
  <2>1. CASE p = n + 1
    <3>1. p > n /\ f[p] = Nothing
      BY <1>1, <1>5, <2>1 DEF GoesBack
    <3> QED  BY <3>1
  <2>2. CASE p # n + 1
    <3>1. p \in 1..n /\ ~(p > n)
      BY <1>1, <2>2
    <3>2. next[p] \in 1..n + 1 /\ f[next[p]] \in States
      <4> HIDE DEF next, States
      <4> QED  BY <1>3, <1>5, <3>1
    <3>3. f[p] = Here(p, f[next[p]])
      <4>1. f[p] = step[p][f[next[p]]]
        BY <1>5, <3>1 DEF GoesBack
      <4>2. step[p][f[next[p]]] = Here(p, f[next[p]])
        <5> HIDE DEF Here, next, States
        <5> QED  BY <3>1, <3>2
      <4> QED  BY <4>1, <4>2, Zenon
    <3>4. next[p] = At(t, p).next
      BY <3>1, Zenon
    <3> HIDE DEF next, n
    <3> QED  BY <3>1, <3>3, <3>4, Zenon DEF FromPiece
  <2> QED  BY <2>1, <2>2
<1>7. f = [p \in 1..n + 1 |-> f[p]]
  <2> HIDE DEF States, n
  <2> QED  BY <1>5
<1>8. IsProcessed(f, t)
  <2>1. [p \in 1..n + 1 |-> f[p]] =
        [p \in 1..n + 1 |-> IF p > n THEN Nothing ELSE FromPiece(At(t, p), f)]
    <3> HIDE DEF n
    <3> QED  BY <1>6, Zenon
  <2> QED  BY <1>7, <2>1, Zenon DEF IsProcessed, Nothing
<1>9. IsProcessed(F, t)
  BY <1>8, Zenon
<1>10. ProcessLinks(t) = F[1]
  BY Zenon DEF ProcessLinks, IsProcessed
<1> HIDE DEF F
<1>11. ASSUME NEW p \in 1..n + 1
       PROVE  F[p] = IF p > n THEN Nothing ELSE FromPiece(At(t, p), F)
  <2>1. F = [r \in 1..n + 1 |-> IF r > n THEN Nothing ELSE FromPiece(At(t, r), F)]
    BY <1>9, Zenon DEF IsProcessed, Nothing
  <2> HIDE DEF n
  <2> QED  BY <2>1, Zenon
<1> DEFINE T == {p \in 1..n + 1 : F[p] = f[p]}
<1>12. n + 1 \in T
  <2>1. n + 1 > n /\ n + 1 \in 1..n + 1
    BY <1>1
  <2> HIDE DEF n
  <2> QED  BY <1>6, <1>11, <2>1, Zenon
<1>13. ASSUME NEW p \in 1..n, \A q \in p + 1..n + 1 : q \in T PROVE p \in T
  <2>1. p \in 1..n + 1 /\ ~(p > n)
    BY <1>1
  <2>2. F[At(t, p).next] = f[At(t, p).next]
    <3>1. At(t, p).next \in p + 1..n + 1
      <4> HIDE DEF n
      <4> QED  BY <1>2 DEF IsPiece
    <3> QED  BY <1>13, <3>1
  <2>3. FromPiece(At(t, p), F) = FromPiece(At(t, p), f)
    BY <2>2, Zenon DEF FromPiece
  <2> HIDE DEF n
  <2> QED  BY <1>6, <1>11, <2>1, <2>3, Zenon
<1>14. 1..n + 1 \subseteq T
  <2> HIDE DEF T, n
  <2> QED  BY <1>1, <1>12, <1>13, Downward
<1>15. 1 \in 1..n + 1
  BY <1>1
<1>16. F[1] = f[1] /\ f[1] \in States
  <2> HIDE DEF n, States
  <2> QED  BY <1>5, <1>14, <1>15
<1> QED  BY <1>10, <1>16

-----------------------------------------------------------------------------
(* Quotes, headings and blanks.                                            *)

Picks(t, places, g) ==
  g[0] = << >> /\ \A k \in 1..Len(t) : g[k] = Picked(t, places, g[k - 1], k)

LEMMA SelectedOneByOne ==
  ASSUME NEW C, NEW t \in Seq(C), NEW places
  PROVE  \E g \in [0..Len(t) -> Seq(C)] :
           Picks(t, places, g) /\ Selected(t, places) = g[Len(t)]
<1> DEFINE n == Len(t)
           States == Seq(C)
           step == [g \in States |-> [k \in 1..n |-> Picked(t, places, g, k)]]
           all == [i \in DOMAIN t |-> i]
           IsRead(g) == g = [k \in 0..Len(all) |->
                               IF k = 0 THEN << >> ELSE Picked(t, places, g[k - 1], all[k])]
           F == CHOOSE g : IsRead(g)
           start == << >>
<1>0. n \in Nat /\ start \in States /\ DOMAIN t = 1..n
  OBVIOUS
<1>1. \A g \in States : \A k \in 1..n : Picked(t, places, g, k) \in States
  BY DEF Picked
<1>2. /\ step \in [States -> [1..n -> States]]
      /\ \A g \in States : \A k \in 1..n : step[g][k] = Picked(t, places, g, k)
  BY <1>1
<1>3. Len(all) = n /\ \A k \in 1..n : all[k] = k
  BY <1>0
<1>4. Selected(t, places) = F[Len(all)]
  BY DEF Selected, Reading
<1> HIDE DEF step, States, start, n, all
<1>5. PICK f \in [0..n -> States] : IsRecursive(f, start, n, step)
  BY <1>0, <1>2, Recursion
<1>6. f[0] = << >> /\ \A k \in 1..n : f[k] = Picked(t, places, f[k - 1], k)
  <2>1. \A k \in 1..n : f[k - 1] \in States /\ f[k] = step[f[k - 1]][k]
    BY <1>0, <1>5 DEF IsRecursive
  <2> QED  BY <1>2, <1>5, <2>1 DEF IsRecursive, start
<1>7. f = [k \in 0..n |-> IF k = 0 THEN << >> ELSE Picked(t, places, f[k - 1], all[k])]
  <2>1. \A k \in 1..n : f[k] = Picked(t, places, f[k - 1], all[k])
    BY <1>3, <1>6
  <2>2. \A k \in 0..n : k = 0 \/ k \in 1..n
    BY <1>0
  <2> QED  BY <1>5, <1>6, <2>1, <2>2
<1>8. IsRead(F)
  <2> HIDE DEF IsRead
  <2>1. IsRead(f)
    BY <1>3, <1>7 DEF IsRead
  <2> QED  BY <2>1
<1> HIDE DEF F
<1>9. F[0] = << >> /\ \A k \in 1..n : F[k] = Picked(t, places, F[k - 1], k)
  <2>1. F = [k \in 0..n |-> IF k = 0 THEN << >> ELSE Picked(t, places, F[k - 1], all[k])]
    BY <1>3, <1>8
  <2>2. ASSUME NEW k \in 1..n PROVE F[k] = Picked(t, places, F[k - 1], k)
    <3>1. k \in 0..n /\ k # 0 /\ all[k] = k
      BY <1>0, <1>3
    <3> QED  BY <2>1, <3>1, Zenon
  <2>3. F[0] = << >>
    <3>1. 0 \in 0..n
      BY <1>0
    <3> QED  BY <2>1, <3>1, Zenon
  <2> QED  BY <2>2, <2>3
<1>10. \A k \in 0..n : F[k] = f[k]
  <2>1. Alike(F, f, n)
    BY <1>6, <1>9 DEF Alike
  <2> QED  BY <1>0, <2>1, SameRecursion
<1>11. n \in 0..n
  BY <1>0
<1>12. f \in [0..n -> States] /\ Picks(t, places, f) /\ Selected(t, places) = f[n]
  BY <1>3, <1>4, <1>6, <1>10, <1>11 DEF Picks, n
<1> QED  BY <1>12 DEF n, States

IsBlank(c) == c = " "

IsLines(g, t) ==
  g = [p \in 1..Len(t) + 1 |->
         LET end == Find(t, <<NewLine>>, p)
         IN  IF end = NPos THEN <<SubSeq(t, p, Len(t))>>
             ELSE <<SubSeq(t, p, end - 1)>> \o g[end + 1]]

LineFrom(t, p, end, rest) ==
  IF end = NPos THEN <<SubSeq(t, p, Len(t))>> ELSE <<SubSeq(t, p, end - 1)>> \o rest

LEMMA LinesOfText ==
  ASSUME NEW C, NEW t \in Seq(C)
  PROVE  Lines(t) \in Seq(Seq(C))
<1> DEFINE n == Len(t)
           States == Seq(Seq(C))
           token == <<NewLine>>
           end(p) == Find(t, token, p)
           next == [p \in 1..n |-> IF end(p) = NPos THEN n + 1 ELSE end(p) + 1]
           Here(p, rest) == LineFrom(t, p, end(p), rest)
           step == [p \in 1..n |-> [rest \in States |-> Here(p, rest)]]
           last == <<SubSeq(t, n + 1, n)>>
           F == CHOOSE g : IsLines(g, t)
<1>1. n \in Nat /\ last \in States
  <2>1. n \in Nat /\ SubSeq(t, n + 1, n) \in Seq(C)
    OBVIOUS
  <2> HIDE DEF n
  <2> QED  BY <2>1
<1>2. ASSUME NEW p \in 1..n + 1 PROVE end(p) = NPos \/ end(p) \in p..n
  <2> DEFINE q == end(p)
  <2>1. q = Find(t, token, p) /\ p \in Int /\ p >= 1
    BY <1>1
  <2> HIDE DEF q, token
  <2>2. q = NPos \/ q \in p..n
    BY <2>1, Found
  <2> QED  BY <2>2 DEF q
<1>3. Lines(t) = F[1]
  BY Zenon DEF Lines, IsLines
<1> HIDE DEF F
<1>4. ASSUME NEW p \in 1..n, NEW rest \in States PROVE Here(p, rest) \in States
  <2> DEFINE q == end(p)
  <2>1. q = NPos \/ q \in p..n
    BY <1>1, <1>2
  <2> HIDE DEF q
  <2>2. SubSeq(t, p, n) \in Seq(C)
    BY <1>1
  <2>3. q # NPos => SubSeq(t, p, q - 1) \in Seq(C)
    BY <1>1, <2>1
  <2>4. LineFrom(t, p, q, rest) \in States
    <3> DEFINE a == SubSeq(t, p, n)
               b == SubSeq(t, p, q - 1)
    <3>1. LineFrom(t, p, q, rest) = IF q = NPos THEN <<a>> ELSE <<b>> \o rest
      BY DEF LineFrom
    <3> HIDE DEF a, b
    <3> QED  BY <2>2, <2>3, <3>1 DEF a, b
  <2> QED  BY <2>4 DEF q
<1>5. step \in [1..n -> [States -> States]]
  <2> HIDE DEF Here, States
  <2> QED  BY <1>4
<1>6. next \in [1..n -> 1..n + 1] /\ \A p \in 1..n : next[p] > p
  <2> SUFFICES ASSUME NEW p \in 1..n PROVE next[p] \in p + 1..n + 1
    OBVIOUS
  <2> DEFINE q == end(p)
  <2>1. q = NPos \/ q \in p..n
    BY <1>1, <1>2
  <2>2. next[p] = IF q = NPos THEN n + 1 ELSE q + 1
    OBVIOUS
  <2> HIDE DEF q, next, n
  <2> QED  BY <1>1, <2>1, <2>2
<1>7. PICK f \in [1..n + 1 -> States] : GoesBack(f, last, n, next, step)
  <2> HIDE DEF step, next, States, last, n
  <2> QED  BY <1>1, <1>5, <1>6, Backwards
<1>8. ASSUME NEW p \in 1..n + 1 PROVE f[p] = LineFrom(t, p, end(p), f[end(p) + 1])
  <2>1. CASE p = n + 1
    <3>1. end(p) = NPos
      <4> HIDE DEF end
      <4> QED  BY <1>1, <1>2, <2>1
    <3>2. f[n + 1] = <<SubSeq(t, n + 1, n)>>
      BY <1>7 DEF GoesBack
    <3> HIDE DEF end
    <3> QED  BY <2>1, <3>1, <3>2, Zenon DEF LineFrom
  <2>2. CASE p # n + 1
    <3>1. p \in 1..n
      BY <1>1, <2>2
    <3>2. next[p] \in 1..n + 1 /\ f[next[p]] \in States
      <4> HIDE DEF next, States
      <4> QED  BY <1>6, <1>7, <3>1
    <3>3. f[p] = Here(p, f[next[p]])
      <4>1. f[p] = step[p][f[next[p]]]
        BY <1>7, <3>1 DEF GoesBack
      <4>2. step[p][f[next[p]]] = Here(p, f[next[p]])
        <5> HIDE DEF Here, next, States
        <5> QED  BY <3>1, <3>2
      <4> QED  BY <4>1, <4>2, Zenon
    <3>4. next[p] = IF end(p) = NPos THEN n + 1 ELSE end(p) + 1
      <4> HIDE DEF end
      <4> QED  BY <3>1, Zenon
    <3> HIDE DEF next, end
    <3> QED  BY <3>3, <3>4, Zenon DEF LineFrom
  <2> QED  BY <2>1, <2>2
<1>9. f = [p \in 1..n + 1 |-> f[p]]
  <2> HIDE DEF States, n
  <2> QED  BY <1>7
<1>10. IsLines(f, t)
  <2>1. [p \in 1..n + 1 |-> f[p]] = [p \in 1..n + 1 |-> LineFrom(t, p, end(p), f[end(p) + 1])]
    <3> HIDE DEF n, end
    <3> QED  BY <1>8, Zenon
  <2> QED  BY <1>9, <2>1, Zenon DEF IsLines, LineFrom
<1>11. IsLines(F, t)
  BY <1>10, Zenon DEF F
<1>12. ASSUME NEW p \in 1..n + 1 PROVE F[p] = LineFrom(t, p, end(p), F[end(p) + 1])
  <2>1. F = [r \in 1..n + 1 |-> LineFrom(t, r, end(r), F[end(r) + 1])]
    BY <1>11, Zenon DEF IsLines, LineFrom
  <2> HIDE DEF n, end
  <2> QED  BY <2>1, Zenon
<1> DEFINE T == {p \in 1..n + 1 : F[p] = f[p]}
<1>13. n + 1 \in T
  <2>1. n + 1 \in 1..n + 1
    BY <1>1
  <2>2. end(n + 1) = NPos
    <3> HIDE DEF end
    <3> QED  BY <1>1, <1>2, <2>1
  <2> HIDE DEF end, n
  <2> QED  BY <1>8, <1>12, <2>1, <2>2, Zenon DEF LineFrom
<1>14. ASSUME NEW p \in 1..n, \A q \in p + 1..n + 1 : q \in T PROVE p \in T
  <2>1. p \in 1..n + 1
    BY <1>1
  <2>2. CASE end(p) # NPos
    <3>1. end(p) + 1 \in p + 1..n + 1
      <4> HIDE DEF end
      <4> QED  BY <1>1, <1>2, <2>1, <2>2
    <3>2. F[end(p) + 1] = f[end(p) + 1]
      BY <1>14, <3>1
    <3> HIDE DEF end, n
    <3> QED  BY <1>8, <1>12, <2>1, <3>2, Zenon
  <2>3. CASE end(p) = NPos
    <3> HIDE DEF end, n
    <3> QED  BY <1>8, <1>12, <2>1, <2>3, Zenon DEF LineFrom
  <2> QED  BY <2>2, <2>3
<1>15. 1..n + 1 \subseteq T
  <2> HIDE DEF T, n
  <2> QED  BY <1>1, <1>13, <1>14, Downward
<1>16. 1 \in 1..n + 1
  BY <1>1
<1>17. F[1] = f[1] /\ f[1] \in States
  <2> HIDE DEF n, States
  <2> QED  BY <1>7, <1>15, <1>16
<1> QED  BY <1>3, <1>17

IsEqualSign(c) == c = "="

LEMMA HeadingOff ==
  ASSUME NEW C, NEW line \in Seq(C)
  PROVE  WithoutHeading(line) \in Seq(C)
<1> DEFINE S == {i \in 1..Len(line) : ~IsEqualSign(line[i])}
           first == IF S # {} THEN Min(S) ELSE 0
           last == IF S # {} THEN Max(S) ELSE 0
<1>1. WithoutHeading(line) =
        IF first > 2 /\ Len(line) - last >= 2 THEN Trim(SubSeq(line, first, last)) ELSE line
  BY DEF WithoutHeading, SelectInSeq, SelectLastInSeq, IsEqualSign
<1>2. Len(line) \in Nat /\ S \in SUBSET (1..Len(line))
  OBVIOUS
<1>3. first \in 0..Len(line) /\ last \in 0..Len(line)
  <2> HIDE DEF S
  <2> QED  BY <1>2, FirstPlace, LastPlace
<1> HIDE DEF first, last
<1>4. first > 2 => SubSeq(line, first, last) \in Seq(C)
  BY <1>2, <1>3
<1> QED  BY <1>1, <1>4, Trimmed

LEMMA FormattingOff ==
  ASSUME NEW C, NewLine \in C, NEW t \in Seq(C)
  PROVE  StripFormatting(t) \in Seq(C)
<1> DEFINE lines == Lines(WithoutQuotes(t))
           Ended(line) == Append(WithoutHeading(Trim(line)), NewLine)
           ended == [i \in DOMAIN lines |-> Ended(lines[i])]
<1>1. WithoutQuotes(t) \in Seq(C)
  <2>1. ASSUME NEW places PROVE Selected(t, places) \in Seq(C)
    <3>1. Len(t) \in Nat
      OBVIOUS
    <3>2. PICK g \in [0..Len(t) -> Seq(C)] : Selected(t, places) = g[Len(t)]
      BY SelectedOneByOne
    <3> QED  BY <3>1, <3>2
  <2> QED  BY <2>1 DEF WithoutQuotes
<1>2. lines \in Seq(Seq(C))
  BY <1>1, LinesOfText
<1>3. ASSUME NEW line \in Seq(C) PROVE Ended(line) \in Seq(C)
  BY Trimmed, HeadingOff
<1>4. StripFormatting(t) = FlattenSeq(ended)
  BY Zenon DEF StripFormatting
<1> HIDE DEF lines, Ended
<1>5. ended \in Seq(Seq(C))
  <2>1. DOMAIN lines = 1..Len(lines) /\ Len(lines) \in Nat
    BY <1>2
  <2>2. \A i \in 1..Len(lines) : Ended(lines[i]) \in Seq(C)
    BY <1>2, <1>3
  <2> QED  BY <2>1, <2>2
<1> HIDE DEF ended
<1>6. PICK f \in [0..Len(ended) -> Seq(C)] : FlattenSeq(ended) = f[Len(ended)]
  BY <1>5, Flattening
<1>7. Len(ended) \in 0..Len(ended)
  BY <1>5
<1> QED  BY <1>4, <1>6, <1>7

Blanked(c) == IF c \in Space THEN " " ELSE c

\* Single blanks, and none of them at an end.
Collapsed(t) ==
  \A i \in 1..Len(t) :
    t[i] \in Space => IsBlank(t[i]) /\ i > 1 /\ i < Len(t) /\ t[i + 1] \notin Space

LEMMA BlanksAreSpaces ==
  ASSUME NEW C, HasBlank(C)
  PROVE  /\ \A c \in C : Blanked(c) \in C
         /\ \A c : Blanked(c) \in Space <=> c \in Space
         /\ \A c : c \notin Space => Blanked(c) = c
         /\ \A c : Blanked(c) \in Space => IsBlank(Blanked(c))
         /\ \A c : IsBlank(c) => c \in Space
<1>1. IsBlank(" ") /\ " " \in Space
  BY TextAssumption, Zenon DEF IsBlank
<1> QED  BY <1>1, Zenon DEF Blanked, HasBlank, IsBlank

\* No two blanks in a row, and none at the beginning.
SpacesApart(t) ==
  \A i \in 1..Len(t) :
    t[i] \in Space => i > 1 /\ (i < Len(t) => t[i + 1] \notin Space)

LEMMA SpacesCome ==
  ASSUME NEW C, NEW t \in Seq(C), NEW c \in C, SpacesApart(t),
         c \in Space => t # << >> /\ Last(t) \notin Space
  PROVE  SpacesApart(Append(t, c))
<1> DEFINE u == Append(t, c)
<1>1. /\ u \in Seq(C) /\ Len(u) = Len(t) + 1 /\ u[Len(t) + 1] = c /\ Len(t) \in Nat
      /\ \A i \in 1..Len(t) : u[i] = t[i]
  OBVIOUS
<1>2. t # << >> => Len(t) > 0 /\ Last(t) = t[Len(t)]
  BY DEF Last
<1> HIDE DEF u
<1>3. ASSUME NEW i \in 1..Len(u), u[i] \in Space
      PROVE  i > 1 /\ (i < Len(u) => u[i + 1] \notin Space)
  <2>1. CASE i = Len(t) + 1
    <3>1. t # << >>
      BY <1>1, <1>3, <2>1
    <3> QED  BY <1>1, <1>2, <2>1, <3>1
  <2>2. CASE i = Len(t)
    <3>1. i \in 1..Len(t) /\ t # << >> /\ t[i] \in Space /\ Last(t) \in Space
      BY <1>1, <1>2, <1>3, <2>2
    <3>2. c \notin Space
      BY <3>1
    <3> QED  BY <1>1, <2>2, <3>1, <3>2 DEF SpacesApart
  <2>3. CASE i < Len(t)
    <3>1. i \in 1..Len(t) /\ i + 1 \in 1..Len(t)
      BY <1>1, <2>3
    <3>2. t[i] \in Space /\ u[i + 1] = t[i + 1]
      BY <1>1, <1>3, <3>1
    <3> QED  BY <2>3, <3>1, <3>2 DEF SpacesApart
  <2> QED  BY <1>1, <2>1, <2>2, <2>3
<1>4. SpacesApart(u)
  BY <1>3 DEF SpacesApart
<1> QED  BY <1>4 DEF u

\* What is kept of the first k characters ends with a blank if they do.
EndsAlike(t, kept, k) ==
  IF k = 0 THEN kept = << >>
  ELSE /\ kept = << >> => t[k] \in Space
       /\ kept # << >> => (Last(kept) \in Space <=> t[k] \in Space)

LEMMA SpacesKeptApart ==
  ASSUME NEW C, NEW t \in Seq(C), NEW places,
         \A i \in 1..Len(t) :
           i \in places <=> t[i] \notin Space \/ (i > 1 /\ t[i - 1] \notin Space)
  PROVE  Selected(t, places) \in Seq(C) /\ SpacesApart(Selected(t, places))
<1> DEFINE n == Len(t)
<1>0. n \in Nat
  OBVIOUS
<1>1. PICK g \in [0..n -> Seq(C)] : Picks(t, places, g) /\ Selected(t, places) = g[n]
  BY SelectedOneByOne
<1> DEFINE Good(k) == SpacesApart(g[k]) /\ EndsAlike(t, g[k], k)
           T == {k \in Nat : k <= n => Good(k)}
<1>2. 0 \in T
  <2>1. g[0] = << >>
    BY <1>1 DEF Picks
  <2>2. SpacesApart(<< >>)
    <3>1. Len(<< >>) = 0
      OBVIOUS
    <3> QED  BY <3>1 DEF SpacesApart
  <2> QED  BY <2>1, <2>2 DEF EndsAlike
<1>3. ASSUME NEW k \in Nat, k \in T, k + 1 <= n PROVE Good(k + 1)
  <2> DEFINE s == g[k]
             c == t[k + 1]
             kept == k + 1 \in places
  <2>1. k + 1 \in 1..n /\ (k + 1) - 1 = k /\ k \in 0..n /\ k + 1 # 0 /\ k <= n
    BY <1>0, <1>3
  <2>2. g[k + 1] = IF kept THEN Append(s, c) ELSE s
    BY <1>1, <2>1 DEF Picks, Picked
  <2>3. s \in Seq(C) /\ c \in C /\ SpacesApart(s) /\ EndsAlike(t, s, k)
    BY <1>1, <1>3, <2>1
  <2>4. kept <=> c \notin Space \/ (k + 1 > 1 /\ t[k] \notin Space)
    BY <2>1
  <2>5. /\ k = 0 => s = << >>
        /\ k # 0 => /\ s = << >> => t[k] \in Space
                    /\ s # << >> => (Last(s) \in Space <=> t[k] \in Space)
    BY <2>3 DEF EndsAlike
  <2>6. \A u : EndsAlike(t, u, k + 1)
                 <=> /\ u = << >> => c \in Space
                     /\ u # << >> => (Last(u) \in Space <=> c \in Space)
    BY <2>1 DEF EndsAlike
  <2>7. CASE kept
    <3>1. Append(s, c) # << >> /\ Last(Append(s, c)) = c
      BY <2>3 DEF Last
    <3>2. c \in Space => s # << >> /\ Last(s) \notin Space
      BY <2>4, <2>5, <2>7
    <3>3. SpacesApart(Append(s, c))
      <4> HIDE DEF s, c
      <4> QED  BY <2>3, <3>2, SpacesCome
    <3>4. EndsAlike(t, Append(s, c), k + 1)
      BY <2>6, <3>1
    <3>5. g[k + 1] = Append(s, c)
      BY <2>2, <2>7
    <3> QED  BY <3>3, <3>4, <3>5
  <2>8. CASE ~kept
    <3>1. c \in Space /\ (k + 1 > 1 => t[k] \in Space)
      BY <2>4, <2>8
    <3>2. k # 0 => k + 1 > 1
      OBVIOUS
    <3>3. s # << >> => Last(s) \in Space
      <4> HIDE DEF s, c, kept
      <4> QED  BY <2>5, <3>1, <3>2
    <3>4. EndsAlike(t, s, k + 1)
      <4> HIDE DEF s, c, kept
      <4> QED  BY <2>6, <3>1, <3>3
    <3>5. g[k + 1] = s
      BY <2>2, <2>8
    <3> QED  BY <2>3, <3>4, <3>5
  <2> QED  BY <2>7, <2>8
<1>4. n \in T
  <2>1. \A k \in Nat : k \in T => k + 1 \in T
    <3> HIDE DEF Good
    <3> QED  BY <1>3
  <2> HIDE DEF T, n
  <2> QED  BY <1>0, <1>2, <2>1, Induction
<1>5. n \in 0..n
  BY <1>0
<1> QED  BY <1>0, <1>1, <1>4, <1>5

LEMMA WhitespaceCollapsed ==
  ASSUME NEW C, HasBlank(C), NEW t \in Seq(C)
  PROVE  CollapseWhitespace(t) \in Seq(C) /\ Collapsed(CollapseWhitespace(t))
<1> DEFINE places == {i \in DOMAIN t : t[i] \notin Space
                                            \/ (i > 1 /\ t[i - 1] \notin Space)}
           kept == Selected(t, places)
           u == [i \in DOMAIN kept |-> Blanked(kept[i])]
<1>1. kept \in Seq(C) /\ SpacesApart(kept)
  <2>1. \A i \in 1..Len(t) :
          i \in places <=> t[i] \notin Space \/ (i > 1 /\ t[i - 1] \notin Space)
    OBVIOUS
  <2> HIDE DEF places
  <2> QED  BY <2>1, SpacesKeptApart
<1>2. CollapseWhitespace(t) = WithoutLastSpace(u)
  BY Zenon DEF CollapseWhitespace, Blanked
<1> HIDE DEF kept
<1>3. DOMAIN kept = 1..Len(kept) /\ Len(kept) \in Nat
  BY <1>1
<1>4. /\ u \in Seq(C) /\ Len(u) = Len(kept)
      /\ \A i \in 1..Len(kept) : u[i] = Blanked(kept[i])
  <2>1. \A i \in 1..Len(kept) : Blanked(kept[i]) \in C
    BY <1>1, BlanksAreSpaces
  <2> QED  BY <1>3, <2>1
<1> HIDE DEF u
<1>5. \A i \in 1..Len(u) : /\ u[i] \in Space <=> kept[i] \in Space
                           /\ u[i] \in Space => IsBlank(u[i])
  BY <1>4, BlanksAreSpaces
<1>6. SpacesApart(u)
  <2> SUFFICES ASSUME NEW i \in 1..Len(u), u[i] \in Space
               PROVE  i > 1 /\ (i < Len(u) => u[i + 1] \notin Space)
    BY DEF SpacesApart
  <2>1. kept[i] \in Space /\ i \in 1..Len(kept)
    BY <1>4, <1>5
  <2>2. i > 1 /\ (i < Len(kept) => kept[i + 1] \notin Space)
    BY <1>1, <2>1 DEF SpacesApart
  <2>3. i < Len(u) => i + 1 \in 1..Len(u)
    BY <1>3, <1>4
  <2> QED  BY <1>4, <1>5, <2>2, <2>3
<1>7. WithoutLastSpace(u) = IF u # << >> /\ IsBlank(Last(u)) THEN Front(u) ELSE u
  BY Zenon DEF WithoutLastSpace, IsBlank
<1>8. CASE u # << >> /\ IsBlank(Last(u))
  <2> DEFINE v == Front(u)
             n == Len(u)
  <2>1. /\ n \in Nat /\ n > 0 /\ Last(u) = u[n]
        /\ v \in Seq(C) /\ Len(v) = n - 1 /\ \A i \in 1..n - 1 : v[i] = u[i]
    BY <1>4, <1>8 DEF Front, Last
  <2>2. u[n] \in Space
    BY <1>4, <1>8, <2>1, BlanksAreSpaces
  <2>3. WithoutLastSpace(u) = v
    BY <1>7, <1>8
  <2> HIDE DEF v
  <2>4. ASSUME NEW i \in 1..Len(v), v[i] \in Space
        PROVE  IsBlank(v[i]) /\ i > 1 /\ i < Len(v) /\ v[i + 1] \notin Space
    <3>1. i \in 1..n /\ v[i] = u[i] /\ i < n /\ u[i] \in Space
      BY <2>1, <2>4
    <3>2. IsBlank(u[i]) /\ i > 1 /\ u[i + 1] \notin Space
      BY <1>5, <1>6, <3>1 DEF SpacesApart
    <3>3. i + 1 # n
      BY <2>2, <3>2
    <3>4. i + 1 \in 1..n - 1 /\ i < Len(v)
      <4> HIDE DEF n
      <4> QED  BY <2>1, <3>1, <3>3
    <3> QED  BY <2>1, <3>1, <3>2, <3>4
  <2>5. Collapsed(v)
    BY <2>4 DEF Collapsed
  <2> QED  BY <1>2, <2>1, <2>3, <2>5
<1>9. CASE ~(u # << >> /\ IsBlank(Last(u)))
  <2>1. WithoutLastSpace(u) = u
    BY <1>7, <1>9
  <2>2. ASSUME NEW i \in 1..Len(u), u[i] \in Space
        PROVE  IsBlank(u[i]) /\ i > 1 /\ i < Len(u) /\ u[i + 1] \notin Space
    <3>1. IsBlank(u[i]) /\ i > 1 /\ (i < Len(u) => u[i + 1] \notin Space)
      BY <1>5, <1>6, <2>2 DEF SpacesApart
    <3>2. i # Len(u)
      <4>1. u # << >> /\ Last(u) = u[Len(u)]
        BY <1>4 DEF Last
      <4> QED  BY <1>9, <3>1, <4>1
    <3> QED  BY <1>4, <3>1, <3>2
  <2>3. Collapsed(u)
    BY <2>2 DEF Collapsed
  <2> QED  BY <1>2, <1>4, <2>1, <2>3
<1> QED  BY <1>8, <1>9

\* Whatever the markup, however it is nested or broken: of a text are left a text, in
\* which words are separated by single blanks, and targets of links that are texts
\* (clean in wikitext_stripper.cpp).
THEOREM CleanMakesTexts ==
  \A t \in Seq(Chars) :
    /\ Clean(t).cleaned_text \in Seq(Chars) /\ Collapsed(Clean(t).cleaned_text)
    /\ Clean(t).internal_links \in Seq(Seq(Chars))
<1> SUFFICES ASSUME NEW t \in Seq(Chars)
             PROVE  /\ Clean(t).cleaned_text \in Seq(Chars)
                    /\ Collapsed(Clean(t).cleaned_text)
                    /\ Clean(t).internal_links \in Seq(Seq(Chars))
  OBVIOUS
<1> DEFINE cut == StripTables(StripTemplates(StripRefTags(StripComments(t))))
           result == ProcessLinks(cut)
           plain == StripFormatting(result.cleaned_text)
<1>1. HasBlank(Chars) /\ NewLine \in Chars
  BY TextAssumption, StripperAssumption, Zenon DEF HasBlank
<1>2. cut \in Seq(Chars)
  <2>1. StripComments(t) \in Seq(Chars)
    BY PassesCut
  <2>2. StripRefTags(StripComments(t)) \in Seq(Chars)
    BY <2>1, PassesCut
  <2>3. StripTemplates(StripRefTags(StripComments(t))) \in Seq(Chars)
    BY <2>2, PassesCut
  <2> QED  BY <2>3, PassesCut
<1>3. Clean(t) = [cleaned_text |-> CollapseWhitespace(plain),
                     internal_links |-> result.internal_links]
  BY Zenon DEF Clean
<1> HIDE DEF cut
<1>4. result \in Results(Chars)
  BY <1>1, <1>2, LinksProcessed
<1> HIDE DEF result
<1>5. plain \in Seq(Chars)
  BY <1>1, <1>4, FormattingOff DEF Results
<1> HIDE DEF plain
<1>6. CollapseWhitespace(plain) \in Seq(Chars) /\ Collapsed(CollapseWhitespace(plain))
  BY <1>1, <1>5, WhitespaceCollapsed
<1> QED  BY <1>3, <1>4, <1>6 DEF Results

-----------------------------------------------------------------------------
(* Stems.                                                                  *)

LEMMA ChoppedIsWord ==
  ASSUME NEW C, NEW word \in Seq(C), NEW n \in Nat
  PROVE  Chopped(word, n) \in Seq(C) /\ Front(word) \in Seq(C)
<1>1. Len(word) \in Nat /\ Len(word) - n <= Len(word) /\ Len(word) - 1 <= Len(word)
  OBVIOUS
<1> QED  BY <1>1 DEF Chopped, Front

LEMMA RepairedIsWord ==
  ASSUME NEW C, "e" \in C, NEW word \in Seq(C)
  PROVE  Repaired(word) \in Seq(C)
<1>1. Append(word, "e") \in Seq(C)
  OBVIOUS
<1>2. Front(word) \in Seq(C)
  BY ChoppedIsWord, 0 \in Nat
<1> QED  BY <1>1, <1>2, Zenon DEF Repaired

\* The stem of a word is a word: what the stemmer writes are the letters e and i
\* (stem in porter_stemmer.cpp).
THEOREM PorterStemMakesWords ==
  ASSUME {"e", "i"} \subseteq Chars
  PROVE  \A word \in Seq(Chars) : PorterStem(word) \in Seq(Chars)
<1> SUFFICES ASSUME NEW word \in Seq(Chars) PROVE PorterStem(word) \in Seq(Chars)
  OBVIOUS
<1>1. ASSUME NEW w \in Seq(Chars), NEW n \in Nat PROVE Chopped(w, n) \in Seq(Chars)
  BY ChoppedIsWord
<1>2. ASSUME NEW w \in Seq(Chars) PROVE Step1a(w) \in Seq(Chars)
  <2>1. Chopped(w, 2) \in Seq(Chars) /\ Chopped(w, 1) \in Seq(Chars)
    BY <1>1
  <2> QED  BY <2>1, Zenon DEF Step1a
<1>3. ASSUME NEW w \in Seq(Chars) PROVE Step1b(w) \in Seq(Chars)
  <2>1. /\ Chopped(w, 1) \in Seq(Chars)
        /\ Repaired(Chopped(w, 2)) \in Seq(Chars) /\ Repaired(Chopped(w, 3)) \in Seq(Chars)
    BY <1>1, RepairedIsWord
  <2> QED  BY <2>1, Zenon DEF Step1b
<1>4. ASSUME NEW w \in Seq(Chars) PROVE Step1c(w) \in Seq(Chars)
  <2>1. Front(w) \in Seq(Chars)
    BY ChoppedIsWord, 0 \in Nat
  <2>2. Append(Front(w), "i") \in Seq(Chars)
    BY <2>1
  <2> QED  BY <2>2, Zenon DEF Step1c
<1>5. Step1c(Step1b(Step1a(word))) \in Seq(Chars)
  <2>1. Step1a(word) \in Seq(Chars)
    BY <1>2
  <2>2. Step1b(Step1a(word)) \in Seq(Chars)
    BY <1>3, <2>1
  <2> QED  BY <1>4, <2>2
<1> QED  BY <1>5, Zenon DEF PorterStem

-----------------------------------------------------------------------------
(* The tokenizer, character after character of a text.                     *)

StemmedWords == {Stem(w) : w \in Seq(Chars)}

Tokenizing == [tokens : Seq(StemmedWords), current : Seq(Chars)]

IsTokenizing(f, t) ==
  f[0] = NoTokens /\ \A i \in 1..Len(t) : f[i] = TokenizeChar(f[i - 1], t[i])

Begins(s, t) == Len(s) <= Len(t) /\ \A k \in 1..Len(s) : s[k] = t[k]

LEMMA BeginsIsPrefix ==
  ASSUME NEW X, NEW s \in Seq(X), NEW t \in Seq(X), Begins(s, t)
  PROVE  IsPrefix(s, t)
<1>1. Len(s) \in Nat /\ Len(t) \in Nat /\ Len(s) <= Len(t)
  BY DEF Begins
<1>2. SubSeq(s, 1, Len(s)) = [k \in 1..Len(s) |-> s[k]]
  BY <1>1
<1>3. SubSeq(t, 1, Len(s)) = [k \in 1..Len(s) |-> t[k]]
  BY <1>1
<1>4. [k \in 1..Len(s) |-> s[k]] = [k \in 1..Len(s) |-> t[k]]
  BY DEF Begins
<1> QED  BY <1>1, <1>2, <1>3, <1>4 DEF IsPrefix

LEMMA FlushingAdds ==
  ASSUME NEW r \in Tokenizing
  PROVE  /\ Flushed(r) \in Tokenizing /\ Flushed(r).current = << >>
         /\ Begins(r.tokens, Flushed(r).tokens)
<1> DEFINE word == Stem(r.current)
           before == r.tokens
           more == Flushed(r).tokens
<1>1. before \in Seq(StemmedWords) /\ word \in StemmedWords
  BY DEF Tokenizing, StemmedWords
<1>2. Flushed(r) = [tokens |-> more, current |-> << >>]
  BY DEF Flushed
<1>3. more = before \/ more = Append(before, word)
  BY DEF Flushed
<1> HIDE DEF more, before, word
<1>4. more \in Seq(StemmedWords) /\ Begins(before, more)
  <2>1. CASE more = before
    BY <1>1, <2>1 DEF Begins
  <2>2. CASE more = Append(before, word)
    <3>1. /\ more \in Seq(StemmedWords) /\ Len(before) \in Nat /\ Len(more) = Len(before) + 1
          /\ \A k \in 1..Len(before) : more[k] = before[k]
      BY <1>1, <2>2, Appended
    <3> QED  BY <3>1 DEF Begins
  <2> QED  BY <1>3, <2>1, <2>2
<1>5. Flushed(r) \in Tokenizing /\ Flushed(r).current = << >> /\ Flushed(r).tokens = more
  BY <1>2, <1>4 DEF Tokenizing
<1> QED  BY <1>4, <1>5 DEF before

LEMMA OneCharacter ==
  ASSUME NEW r \in Tokenizing, NEW c
  PROVE  TokenizeChar(r, c) \in Tokenizing /\ Begins(r.tokens, TokenizeChar(r, c).tokens)
<1>1. CASE c \in CharAlnum
  <2>1. Lower[c] \in Chars
    BY <1>1, TextAssumption
  <2>2. TokenizeChar(r, c) = [r EXCEPT !.current = Append(@, Lower[c])]
    BY <1>1 DEF TokenizeChar
  <2>3. r.tokens \in Seq(StemmedWords) /\ r.current \in Seq(Chars)
        /\ r = [tokens |-> r.tokens, current |-> r.current]
    BY DEF Tokenizing
  <2>4. TokenizeChar(r, c) = [tokens |-> r.tokens, current |-> Append(r.current, Lower[c])]
    BY <2>2, <2>3
  <2>5. Append(r.current, Lower[c]) \in Seq(Chars) /\ Begins(r.tokens, r.tokens)
    BY <2>1, <2>3 DEF Begins
  <2> QED  BY <2>3, <2>4, <2>5 DEF Tokenizing
<1>2. CASE c \notin CharAlnum
  BY <1>2, FlushingAdds DEF TokenizeChar
<1> QED  BY <1>1, <1>2

LEMMA TokenizingOneByOne ==
  ASSUME NEW C, NEW t \in Seq(C)
  PROVE  \E f \in [0..Len(t) -> Tokenizing] :
           IsTokenizing(f, t) /\ Tokenize(t) = Flushed(f[Len(t)]).tokens
<1> DEFINE step == [r \in Tokenizing |-> [i \in 1..Len(t) |-> TokenizeChar(r, t[i])]]
           IsRead(g) == g = [i \in 0..Len(t) |->
                               IF i = 0 THEN NoTokens ELSE TokenizeChar(g[i - 1], t[i])]
           F == CHOOSE g : IsRead(g)
<1>0. Len(t) \in Nat /\ NoTokens \in Tokenizing
  BY DEF NoTokens, Tokenizing
<1>1. \A r \in Tokenizing : \A i \in 1..Len(t) : TokenizeChar(r, t[i]) \in Tokenizing
  BY OneCharacter
<1>2. /\ step \in [Tokenizing -> [1..Len(t) -> Tokenizing]]
      /\ \A r \in Tokenizing : \A i \in 1..Len(t) : step[r][i] = TokenizeChar(r, t[i])
  BY <1>1
<1> HIDE DEF step
<1>3. PICK f \in [0..Len(t) -> Tokenizing] : IsRecursive(f, NoTokens, Len(t), step)
  BY <1>0, <1>2, Recursion
<1>4. f[0] = NoTokens /\ \A i \in 1..Len(t) : f[i] = TokenizeChar(f[i - 1], t[i])
  <2>1. \A i \in 1..Len(t) : f[i - 1] \in Tokenizing /\ f[i] = step[f[i - 1]][i]
    BY <1>0, <1>3 DEF IsRecursive
  <2> QED  BY <1>2, <1>3, <2>1 DEF IsRecursive
<1>5. f = [i \in 0..Len(t) |-> IF i = 0 THEN NoTokens ELSE TokenizeChar(f[i - 1], t[i])]
  BY <1>3, <1>4
<1>6. IsRead(F)
  <2> HIDE DEF IsRead
  <2>1. IsRead(f)
    BY <1>5 DEF IsRead
  <2> QED  BY <2>1
<1>7. Tokenize(t) = Flushed(F[Len(t)]).tokens
  BY DEF Tokenize, Reading
<1> HIDE DEF F
<1>8. F[0] = NoTokens /\ \A i \in 1..Len(t) : F[i] = TokenizeChar(F[i - 1], t[i])
  <2>1. F = [i \in 0..Len(t) |-> IF i = 0 THEN NoTokens ELSE TokenizeChar(F[i - 1], t[i])]
    BY <1>6
  <2>2. ASSUME NEW i \in 1..Len(t) PROVE F[i] = TokenizeChar(F[i - 1], t[i])
    <3>1. i \in 0..Len(t) /\ i # 0
      BY <1>0
    <3> QED  BY <2>1, <3>1, Zenon
  <2>3. F[0] = NoTokens
    <3>1. 0 \in 0..Len(t)
      BY <1>0
    <3> QED  BY <2>1, <3>1, Zenon
  <2> QED  BY <2>2, <2>3
<1>9. \A i \in 0..Len(t) : F[i] = f[i]
  <2>1. Alike(F, f, Len(t))
    BY <1>4, <1>8 DEF Alike
  <2> QED  BY <1>0, <2>1, SameRecursion
<1>10. Len(t) \in 0..Len(t)
  BY <1>0
<1> QED  BY <1>3, <1>4, <1>7, <1>9, <1>10 DEF IsTokenizing

-----------------------------------------------------------------------------
(* The index of the pages added.                                           *)

\* What the stripper leaves of a page and of the targets of its links are texts.
LEMMA TextsOfPages ==
  ASSUME NEW p \in Pages
  PROVE  /\ CleanOf(p).cleaned_text \in Seq(Chars)
         /\ CleanOf(p).internal_links \in Seq(Seq(Chars))
<1>1. FlattenSeq(p.text) \in Seq(Chars)
  BY SomethingGathered DEF Pages
<1> QED  BY <1>1, CleanMakesTexts DEF CleanOf

TokensOf(p) == Tokenize(CleanOf(p).cleaned_text)

\* The stem of a word is a word.
StemsMakeWords == \A word \in Seq(Chars) : Stem(word) \in Seq(Chars)

LEMMA TokensOfPages ==
  ASSUME StemsMakeWords, NEW p \in Pages
  PROVE  TokensOf(p) \in Seq(Seq(Chars))
<1> DEFINE t == CleanOf(p).cleaned_text
<1>1. t \in Seq(Chars)
  BY TextsOfPages
<1> HIDE DEF t
<1>2. PICK f \in [0..Len(t) -> Tokenizing] : Tokenize(t) = Flushed(f[Len(t)]).tokens
  BY <1>1, TokenizingOneByOne
<1>3. f[Len(t)] \in Tokenizing
  BY <1>1
<1>4. Tokenize(t) \in Seq(StemmedWords)
  BY <1>2, <1>3, FlushingAdds DEF Tokenizing
<1>5. StemmedWords \subseteq Seq(Chars)
  BY DEF StemmedWords, StemsMakeWords
<1> QED  BY <1>4, <1>5 DEF TokensOf, t

\* A step of the parser adds the next page, as the stripper reads it, or none.
LEMMA PageOrNone ==
  ASSUME Inv, Parse
  PROVE  \/ index' = index /\ doc_id' = doc_id
         \/ /\ doc_id + 1 \in 1..Len(Indexable) /\ doc_id' = doc_id + 1
            /\ IsComplete(Indexable[doc_id + 1])
            /\ index' = AddDocument(index, doc_id, TokensOf(Indexable[doc_id + 1]))
<1>1. PICK pages \in Seq(Pages) : pages = dump
  BY DEF Inv
<1>2. Unstopped /\ Len(pages) \in Nat
  <2>1. ~Finished
    BY AnyEvent
  <2> QED  BY <1>1, <2>1 DEF Inv, Limited, Finished, Unstopped
<1>3. PICK k \in 1..Len(pages) + 1 : AtPage(k) /\ PagesAdded(Firsts(pages)[k - 1])
  BY <1>1 DEF Inv, Progress
<1>4. ASSUME NoPage PROVE index' = index /\ doc_id' = doc_id
  BY <1>4 DEF NoPage
<1>5. CASE k = Len(pages) + 1
  BY <1>1, <1>2, <1>3, <1>4, <1>5, TrailingStep DEF AtPage
<1>6. CASE k # Len(pages) + 1
  <2>1. k \in 1..Len(pages) /\ k - 1 \in 0..Len(pages) /\ k \in 0..Len(pages)
    BY <1>2, <1>6
  <2>2. PICK p \in Pages, r \in EventSeqs :
          p = pages[k] /\ r = Rests(pages)[k + 1] /\ Rests(pages)[k] = FromPage(p, r)
    BY <2>1, PageRests
  <2>3. Outside(FromPage(p, r)) \/ Inside(p, r)
    BY <1>1, <1>3, <1>6, <2>2 DEF AtPage
  <2>4. \/ NoPage
        \/ text = FlattenSeq(p.text) /\ IsComplete(p) /\ AddPage
    BY <1>2, <2>3, InsideStep
  <2>5. ASSUME text = FlattenSeq(p.text), IsComplete(p), AddPage
        PROVE  /\ doc_id + 1 \in 1..Len(Indexable) /\ doc_id' = doc_id + 1
               /\ IsComplete(Indexable[doc_id + 1])
               /\ index' = AddDocument(index, doc_id, TokensOf(Indexable[doc_id + 1]))
    <3> DEFINE added == Firsts(pages)[k - 1]
               more == Firsts(pages)[k]
    <3>1. added \in Seq(Pages) /\ more = Append(added, p) /\ doc_id = Len(added)
      <4>1. added \in Seq(Pages)
        BY <2>1, FirstPages
      <4>2. more = Append(added, p)
        BY <2>1, <2>2, <2>5, FirstPages
      <4>3. doc_id = Len(added)
        BY <1>3 DEF PagesAdded
      <4> QED  BY <4>1, <4>2, <4>3
    <3>2. Len(more) = doc_id + 1 /\ more[doc_id + 1] = p /\ doc_id \in Nat
      <4> HIDE DEF added, more
      <4> QED  BY <3>1, AppendProperties
    <3>3. /\ Len(more) <= Len(Indexable)
          /\ \A i \in 1..Len(more) : more[i] = Indexable[i]
      BY <1>1, <2>1, FirstPagesStay, IndexableIsLast
    <3>4. Indexable \in Seq(Pages)
      BY <1>1, WhatIsAdded
    <3> HIDE DEF more
    <3>5. doc_id + 1 \in 1..Len(Indexable) /\ Indexable[doc_id + 1] = p
      BY <3>2, <3>3, <3>4
    <3>6. doc_id' = doc_id + 1 /\ index' = AddDocument(index, doc_id, TokensOf(p))
      BY <2>5, Zenon DEF AddPage, CleanOf, TokensOf
    <3> QED  BY <2>5, <3>5, <3>6
  <2> QED  BY <1>4, <2>4, <2>5
<1> QED  BY <1>5, <1>6

Documents == [i \in 1..doc_id |-> TokensOf(Indexable[i])]

\* The index is that of the tokens of the pages added.
IndexAsStripped ==
  /\ \A i \in 1..doc_id : IsComplete(Indexable[i])
  /\ index = IndexOf(Documents)
  /\ IsFiniteSet(TermsOf(Documents))

\* What is so of the pages of a dump is so of those that are indexed.
LEMMA PagesOfSort ==
  ASSUME Inv, NEW S, \A i \in 1..Len(dump) : dump[i] \in S
  PROVE  Indexable \in Seq(S) /\ doc_id \in Nat /\ doc_id <= Len(Indexable)
<1>1. dump \in Seq(Pages)
  BY DEF Inv
<1>2. dump \in Seq(S)
  BY <1>1
<1> QED  BY <1>2, WhatIsAdded

LEMMA DocumentsAreWords ==
  ASSUME StemsMakeWords, Inv
  PROVE  /\ \A i \in 1..Len(Indexable) : TokensOf(Indexable[i]) \in Seq(Seq(Chars))
         /\ doc_id \in Nat /\ doc_id <= Len(Indexable) /\ Len(Indexable) \in Nat
         /\ Documents \in Seq(Seq(Seq(Chars))) /\ Len(Documents) = doc_id
<1>1. \A i \in 1..Len(dump) : dump[i] \in Pages
  BY DEF Inv
<1>2. Indexable \in Seq(Pages) /\ doc_id \in Nat /\ doc_id <= Len(Indexable)
  BY <1>1, PagesOfSort
<1>3. Len(Indexable) \in Nat /\ \A i \in 1..Len(Indexable) : Indexable[i] \in Pages
  BY <1>2
<1>4. \A i \in 1..Len(Indexable) : TokensOf(Indexable[i]) \in Seq(Seq(Chars))
  BY <1>3, TokensOfPages
<1>5. Documents \in Seq(Seq(Seq(Chars))) /\ Len(Documents) = doc_id
  <2> DEFINE D == Seq(Seq(Chars))
             d == Documents
  <2>1. \A i \in 1..doc_id : TokensOf(Indexable[i]) \in D
    BY <1>2, <1>3, <1>4
  <2>2. d = [i \in 1..doc_id |-> d[i]] /\ \A i \in 1..doc_id : d[i] \in D
    BY <2>1 DEF Documents
  <2> HIDE DEF D, d
  <2>3. d \in Seq(D) /\ Len(d) = doc_id
    BY <1>2, <2>2
  <2> QED  BY <2>3 DEF D, d
<1> QED  BY <1>2, <1>3, <1>4, <1>5

LEMMA SameDump ==
  ASSUME [Next]_vars
  PROVE  dump' = dump /\ Indexable' = Indexable
<1>1. dump' = dump
  BY AnyEvent DEF Next, ParseFails, ParseEnds, SaveGraph, RankPages, Done, vars, parser_vars
<1> QED  BY <1>1 DEF Indexable

LEMMA FiniteRange ==
  ASSUME NEW W, NEW s \in Seq(W)
  PROVE  IsFiniteSet(Range(s))
<1> DEFINE n == Len(s)
           T == Range(s)
<1>1. n \in Nat /\ s \in [1..n -> T] /\ \A t \in T : \E i \in 1..n : s[i] = t
  BY DEF Range
<1> HIDE DEF n, T
<1>2. s \in Surjection(1..n, T)
  BY <1>1, Fun_IsSurj
<1>3. IsFiniteSet(T)
  BY <1>1, <1>2, FS_NatSurjection DEF ExistsSurjection
<1> QED  BY <1>3 DEF T

LEMMA IndexStep ==
  ASSUME StemsMakeWords, Inv, IndexAsStripped, [Next]_vars
  PROVE  IndexAsStripped'
<1>1. /\ doc_id \in Nat /\ Documents \in Seq(Seq(Seq(Chars))) /\ Len(Documents) = doc_id
      /\ Indexable' = Indexable
  BY DocumentsAreWords, SameDump
<1>2. ASSUME index' = index, doc_id' = doc_id PROVE IndexAsStripped'
  <2>1. Documents' = Documents
    BY <1>1, <1>2 DEF Documents
  <2> QED  BY <1>1, <1>2, <2>1 DEF IndexAsStripped
<1>3. CASE Parse
  <2> DEFINE next == Indexable[doc_id + 1]
             tokens == TokensOf(next)
             W == Seq(Chars)
  <2>1. CASE /\ doc_id + 1 \in 1..Len(Indexable) /\ doc_id' = doc_id + 1
             /\ IsComplete(next) /\ index' = AddDocument(index, doc_id, tokens)
    <3>1. tokens \in Seq(W)
      BY <2>1, DocumentsAreWords
    <3>2. Documents' = Append(Documents, tokens)
      <4> DEFINE g == [i \in 1..doc_id + 1 |-> TokensOf(Indexable[i])]
      <4>1. Documents' = g /\ g = [i \in 1..doc_id + 1 |-> g[i]] /\ DOMAIN g = 1..doc_id + 1
        BY <1>1, <2>1 DEF Documents
      <4>2. doc_id + 1 \in 1..doc_id + 1 /\ \A i \in 1..doc_id : i \in 1..doc_id + 1
        BY <1>1
      <4>3. Documents = [i \in 1..doc_id |-> g[i]] /\ g[doc_id + 1] = tokens
        BY <4>2 DEF Documents
      <4> DEFINE docs == Documents
      <4> HIDE DEF g, docs, tokens
      <4>4. Append(docs, g[doc_id + 1]) = [i \in 1..doc_id + 1 |-> g[i]]
        BY <1>1, <4>1, <4>3, AppendMapped DEF docs
      <4> QED  BY <4>1, <4>3, <4>4 DEF docs
    <3> DEFINE docs == Documents
    <3>3. docs \in Seq(Seq(W)) /\ Len(docs) = doc_id /\ index = IndexOf(docs)
          /\ IsFiniteSet(TermsOf(docs))
      BY <1>1 DEF IndexAsStripped
    <3>4. AddDocument(index, doc_id, tokens) = IndexOf(Append(docs, tokens))
      <4> HIDE DEF W, docs, tokens
      <4> QED  BY <3>1, <3>3, IndexMore
    <3>5. IsFiniteSet(TermsOf(Append(docs, tokens)))
      <4> DEFINE D == Seq(W)
      <4>1. docs \in Seq(D) /\ tokens \in D
        BY <3>1, <3>3
      <4>2. IsFiniteSet(Range(tokens))
        BY <3>1, FiniteRange
      <4> HIDE DEF D, docs, tokens
      <4>3. TermsOf(Append(docs, tokens)) = TermsOf(docs) \cup Range(tokens)
        BY <4>1, TermsOfDocuments
      <4> QED  BY <3>3, <4>2, <4>3, FS_Union
    <3>6. \A i \in 1..doc_id' : IsComplete(Indexable'[i])
      <4>1. \A i \in 1..doc_id' : i \in 1..doc_id \/ i = doc_id + 1
        BY <1>1, <2>1
      <4> QED  BY <1>1, <2>1, <4>1 DEF IndexAsStripped
    <3> HIDE DEF tokens
    <3> QED  BY <2>1, <3>2, <3>4, <3>5, <3>6 DEF IndexAsStripped, docs
  <2> QED  BY <1>2, <1>3, <2>1, PageOrNone
<1>4. CASE ~Parse
  <2>1. index' = index /\ doc_id' = doc_id
    BY <1>4 DEF Next, ParseFails, ParseEnds, SaveGraph, RankPages, Done, vars, NoPage
  <2> QED  BY <1>2, <2>1
<1> QED  BY <1>3, <1>4

\* The index is at all times that of what stripper and tokenizer make of the pages
\* added (addDocument): postings in the order of the ids, every place of a term in
\* each, in order, and frequencies, lengths and totals that agree with them.
THEOREM IndexFollowsDump ==
  ASSUME StemsMakeWords
  PROVE  Spec => []IndexAsStripped
<1>1. Init => IndexAsStripped
  <2> SUFFICES ASSUME Init PROVE IndexAsStripped
    OBVIOUS
  <2>1. doc_id = 0 /\ index = EmptyIndex
    BY DEF Init
  <2>2. Documents = << >> /\ TermsOf(<< >>) = {}
    BY <2>1 DEF Documents, TermsOf
  <2> QED  BY <2>1, <2>2, IndexOfNothing, FS_EmptySet DEF IndexAsStripped
<1>2. Inv /\ IndexAsStripped /\ [Next]_vars => IndexAsStripped'
  BY IndexStep
<1> QED  BY <1>1, <1>2, ParserFollowsDump, PTL DEF Spec

-----------------------------------------------------------------------------
(* Suggestions.                                                            *)

IsOrder(R, W) ==
  /\ \A x \in W : <<x, x>> \notin R
  /\ \A x, y, z \in W : <<x, y>> \in R /\ <<y, z>> \in R => <<x, z>> \in R
  /\ \A x, y \in W : x = y \/ <<x, y>> \in R \/ <<y, x>> \in R

Before(R, S, x) == {y \in S : <<y, x>> \in R}

Listed(R, S) ==
  [k \in 1..Cardinality(S) |-> CHOOSE x \in S : Cardinality(Before(R, S, x)) = k - 1]

LEMMA RankGrows ==
  ASSUME NEW R, NEW W, IsOrder(R, W), NEW S \in SUBSET W, IsFiniteSet(S), NEW x \in S
  PROVE  /\ Cardinality(Before(R, S, x)) \in 0..Cardinality(S) - 1
         /\ \A y \in S : <<x, y>> \in R =>
              Cardinality(Before(R, S, x)) < Cardinality(Before(R, S, y))
<1>1. ASSUME NEW T \in SUBSET S, NEW U \in SUBSET T, U # T
      PROVE  Cardinality(U) \in Nat /\ Cardinality(T) \in Nat /\ Cardinality(U) < Cardinality(T)
  <2>1. IsFiniteSet(T)
    BY FS_Subset
  <2>2. IsFiniteSet(U) /\ Cardinality(U) <= Cardinality(T) /\ Cardinality(U) # Cardinality(T)
    BY <1>1, <2>1, FS_Subset
  <2>3. Cardinality(U) \in Nat /\ Cardinality(T) \in Nat
    BY <2>1, <2>2, FS_CardinalityType
  <2> QED  BY <2>2, <2>3
<1>2. x \in W /\ x \notin Before(R, S, x) /\ Before(R, S, x) \in SUBSET S
  BY DEF IsOrder, Before
<1>3. Cardinality(Before(R, S, x)) \in 0..Cardinality(S) - 1
  <2> DEFINE U == Before(R, S, x)
  <2>1. U \in SUBSET S /\ S \in SUBSET S /\ U # S
    BY <1>2
  <2> HIDE DEF U
  <2>2. Cardinality(U) \in Nat /\ Cardinality(S) \in Nat /\ Cardinality(U) < Cardinality(S)
    BY <1>1, <2>1
  <2> QED  BY <2>2 DEF U
<1>4. ASSUME NEW y \in S, <<x, y>> \in R
      PROVE  Cardinality(Before(R, S, x)) < Cardinality(Before(R, S, y))
  <2> DEFINE U == Before(R, S, x)
             T == Before(R, S, y)
  <2>1. T \in SUBSET S /\ U \in SUBSET T
    BY <1>4 DEF IsOrder, Before
  <2>2. x \in T /\ x \notin U
    BY <1>2, <1>4 DEF Before
  <2> HIDE DEF U, T
  <2>3. Cardinality(U) < Cardinality(T)
    BY <1>1, <2>1, <2>2
  <2> QED  BY <2>3 DEF U, T
<1> QED  BY <1>3, <1>4

\* Each element is listed at its rank, and nothing else is.
LEMMA ListedByRank ==
  ASSUME NEW R, NEW W, IsOrder(R, W), NEW S \in SUBSET W, IsFiniteSet(S)
  PROVE  /\ \A x \in S : /\ Cardinality(Before(R, S, x)) + 1 \in 1..Cardinality(S)
                         /\ Listed(R, S)[Cardinality(Before(R, S, x)) + 1] = x
         /\ \A k \in 1..Cardinality(S) :
              /\ Listed(R, S)[k] \in S
              /\ Cardinality(Before(R, S, Listed(R, S)[k])) = k - 1
<1> DEFINE c == Cardinality(S)
           rank == [x \in S |-> Cardinality(Before(R, S, x))]
           ranks == 0..c - 1
<1>1. c \in Nat /\ IsFiniteSet(ranks) /\ Cardinality(ranks) = c
  <2>1. c \in Nat
    BY FS_CardinalityType
  <2> HIDE DEF c
  <2>2. 0 \in Int /\ c - 1 \in Int
    BY <2>1
  <2>3. IsFiniteSet(ranks) /\ Cardinality(ranks) = IF 0 > c - 1 THEN 0 ELSE (c - 1) - 0 + 1
    BY <2>2, FS_Interval
  <2> QED  BY <2>1, <2>3
<1>2. \A x \in S : rank[x] \in ranks /\ \A y \in S : <<x, y>> \in R => rank[x] < rank[y]
  BY RankGrows
<1>3. \A x, y \in S : x = y \/ <<x, y>> \in R \/ <<y, x>> \in R
  BY DEF IsOrder
<1>4. rank = [x \in S |-> rank[x]]
  OBVIOUS
<1>5. \A k : Listed(R, S)[k] = [i \in 1..c |-> CHOOSE x \in S : rank[x] = i - 1][k]
  <2>1. Listed(R, S) = [i \in 1..c |-> CHOOSE x \in S : rank[x] = i - 1]
    BY DEF Listed
  <2> QED  BY <2>1
<1>6. \A x \in S : Cardinality(Before(R, S, x)) = rank[x]
  OBVIOUS
<1> HIDE DEF c, rank, ranks
<1>7. \A x, y \in S : rank[x] = rank[y] => x = y
  <2> SUFFICES ASSUME NEW x \in S, NEW y \in S, rank[x] = rank[y], x # y PROVE FALSE
    OBVIOUS
  <2>1. rank[x] < rank[y] \/ rank[y] < rank[x]
    BY <1>2, <1>3
  <2>2. rank[x] \in Nat
    BY <1>1, <1>2 DEF ranks
  <2> QED  BY <2>1, <2>2
<1>8. rank \in [S -> ranks]
  BY <1>2, <1>4
<1>9. rank \in Surjection(S, ranks)
  <2>1. rank \in Injection(S, ranks)
    BY <1>7, <1>8, Fun_IsInj
  <2> QED  BY <1>1, <2>1, FS_Injection DEF c
<1>10. ASSUME NEW k \in 1..c, NEW x \in S, rank[x] = k - 1 PROVE Listed(R, S)[k] = x
  <2>1. (CHOOSE y \in S : rank[y] = k - 1) = x
    BY <1>7, <1>10
  <2> QED  BY <1>5, <2>1
<1>11. ASSUME NEW x \in S PROVE rank[x] + 1 \in 1..c /\ Listed(R, S)[rank[x] + 1] = x
  <2>1. rank[x] + 1 \in 1..c /\ (rank[x] + 1) - 1 = rank[x]
    BY <1>1, <1>2 DEF ranks
  <2> QED  BY <1>10, <2>1
<1>12. ASSUME NEW k \in 1..c
       PROVE  Listed(R, S)[k] \in S /\ rank[Listed(R, S)[k]] = k - 1
  <2>1. k - 1 \in ranks
    BY <1>1 DEF ranks
  <2>2. PICK x \in S : rank[x] = k - 1
    BY <1>9, <2>1, Fun_SurjectionProperties
  <2> QED  BY <1>10, <2>2
<1> QED  BY <1>6, <1>11, <1>12 DEF c

\* What stays when others go has the place that is left to it, which is no later.
LEMMA PlaceLeft ==
  ASSUME NEW R, NEW W, IsOrder(R, W), NEW S \in SUBSET W, IsFiniteSet(S), NEW T \in SUBSET S,
         NEW k \in 1..Cardinality(S), Listed(R, S)[k] \in T
  PROVE  LET place == Cardinality({j \in 1..k : Listed(R, S)[j] \in T})
         IN  /\ place \in 1..k /\ place <= Cardinality(T)
             /\ Listed(R, T)[place] = Listed(R, S)[k]
<1> DEFINE x == Listed(R, S)[k]
           left == {j \in 1..k : Listed(R, S)[j] \in T}
           front == Before(R, T, x) \cup {x}
           f == [j \in left |-> Listed(R, S)[j]]
<1>1. /\ Cardinality(S) \in Nat /\ IsFiniteSet(T) /\ T \in SUBSET W
      /\ IsFiniteSet(1..k) /\ Cardinality(1..k) = k
  <2>1. 1 \in Int /\ k \in Int /\ ~(1 > k)
    OBVIOUS
  <2>2. IsFiniteSet(1..k) /\ Cardinality(1..k) = k - 1 + 1
    BY <2>1, FS_Interval
  <2> QED  BY <2>2, FS_CardinalityType, FS_Subset
<1>2. /\ \A y \in S : /\ Cardinality(Before(R, S, y)) + 1 \in 1..Cardinality(S)
                      /\ Listed(R, S)[Cardinality(Before(R, S, y)) + 1] = y
      /\ \A j \in 1..Cardinality(S) :
              /\ Listed(R, S)[j] \in S
              /\ Cardinality(Before(R, S, Listed(R, S)[j])) = j - 1
  BY ListedByRank
<1>3. \A j \in 1..k : j \in 1..Cardinality(S)
  BY <1>1
<1>4. x \in S /\ x \in T /\ Cardinality(Before(R, S, x)) = k - 1
  BY <1>2
<1>5. ASSUME NEW j \in 1..k, Listed(R, S)[j] \in T PROVE Listed(R, S)[j] \in front
  <2> DEFINE y == Listed(R, S)[j]
  <2>1. y \in S /\ Cardinality(Before(R, S, y)) = j - 1
    BY <1>2, <1>3
  <2>2. ~(<<x, y>> \in R)
    <3> SUFFICES ASSUME <<x, y>> \in R PROVE FALSE
      OBVIOUS
    <3>1. Cardinality(Before(R, S, x)) < Cardinality(Before(R, S, y))
      BY <1>4, <2>1, RankGrows
    <3>2. k - 1 < j - 1
      BY <1>4, <2>1, <3>1
    <3> QED  BY <3>2
  <2>3. x = y \/ <<y, x>> \in R
    BY <1>4, <2>1, <2>2 DEF IsOrder
  <2> QED  BY <1>5, <2>3 DEF Before
<1>6. ASSUME NEW y \in front PROVE \E j \in left : Listed(R, S)[j] = y
  <2> DEFINE r == Cardinality(Before(R, S, y))
  <2>1. y \in T /\ y \in S
    BY <1>4 DEF Before
  <2>2. r + 1 \in 1..Cardinality(S) /\ Listed(R, S)[r + 1] = y /\ r \in Nat
    <3>1. r \in 0..Cardinality(S) - 1
      BY <2>1, RankGrows
    <3> QED  BY <1>2, <2>1, <3>1
  <2>3. r + 1 <= k
    <3>1. CASE y = x
      BY <1>4, <3>1
    <3>2. CASE y # x
      <4>1. <<y, x>> \in R
        BY <3>2 DEF Before
      <4>2. r < k - 1
        BY <1>4, <2>1, <4>1, RankGrows
      <4> QED  BY <2>2, <4>2
    <3> QED  BY <3>1, <3>2
  <2> HIDE DEF r
  <2>4. r + 1 \in left
    BY <2>1, <2>2, <2>3
  <2> QED  BY <2>2, <2>4
<1>7. \A i, j \in left : Listed(R, S)[i] = Listed(R, S)[j] => i = j
  <2> SUFFICES ASSUME NEW i \in 1..k, NEW j \in 1..k, Listed(R, S)[i] = Listed(R, S)[j]
               PROVE  i = j
    OBVIOUS
  <2>1. i - 1 = j - 1
    BY <1>2, <1>3
  <2> QED  BY <2>1
<1>8. Cardinality(left) = Cardinality(front) /\ IsFiniteSet(left)
  <2>1. IsFiniteSet(left)
    BY <1>1, FS_Subset
  <2>2. f \in Bijection(left, front)
    <3>1. \A j \in left : f[j] = Listed(R, S)[j] /\ f[j] \in front
      BY <1>5
    <3>2. f = [j \in left |-> f[j]]
      OBVIOUS
    <3> HIDE DEF f, left, front
    <3>3. f \in [left -> front]
      BY <3>1, <3>2
    <3>4. \A i, j \in left : f[i] = f[j] => i = j
      BY <1>7, <3>1
    <3>5. \A y \in front : \E j \in left : f[j] = y
      BY <1>6, <3>1
    <3> QED  BY <3>3, <3>4, <3>5, Fun_IsBij
  <2>3. ExistsBijection(left, front)
    BY <2>2 DEF ExistsBijection
  <2> QED  BY <2>1, <2>3, FS_Bijection
<1>9. Cardinality(front) = Cardinality(Before(R, T, x)) + 1
  <2>1. x \notin Before(R, T, x) /\ Before(R, T, x) \in SUBSET T
    BY <1>4 DEF Before, IsOrder
  <2> HIDE DEF x
  <2>2. IsFiniteSet(Before(R, T, x))
    BY <1>1, <2>1, FS_Subset
  <2> QED  BY <2>1, <2>2, FS_AddElement
<1>10. /\ Cardinality(left) \in 1..Cardinality(T)
       /\ Listed(R, T)[Cardinality(left)] = x
  <2> HIDE DEF x, left, front
  <2>1. /\ Cardinality(Before(R, T, x)) + 1 \in 1..Cardinality(T)
        /\ Listed(R, T)[Cardinality(Before(R, T, x)) + 1] = x
    BY <1>1, <1>4, ListedByRank
  <2> QED  BY <1>8, <1>9, <2>1
<1>11. Cardinality(left) \in 1..k /\ Cardinality(left) <= Cardinality(T)
  <2>1. left \in SUBSET (1..k)
    OBVIOUS
  <2> HIDE DEF left
  <2>2. Cardinality(left) <= k
    BY <1>1, <2>1, FS_Subset
  <2>3. Cardinality(T) \in Nat
    BY <1>1, FS_CardinalityType
  <2> QED  BY <1>10, <2>2, <2>3
<1> QED  BY <1>10, <1>11 DEF x, left

\* operator< of strings.
TermsAreOrdered ==
  \A s, t, u \in Seq(Chars) :
    /\ ~TermBefore(s, s)
    /\ TermBefore(s, t) /\ TermBefore(t, u) => TermBefore(s, u)
    /\ s = t \/ TermBefore(s, t) \/ TermBefore(t, s)

\* The order of suggestions.
Leading(ix) ==
  {p \in (DOMAIN ix.index) \X (DOMAIN ix.index) : Leads(ix, p[1], p[2])}

LEMMA LeadingIsOrder ==
  ASSUME TermsAreOrdered, NEW ix, DOMAIN ix.index \subseteq Seq(Chars),
         \A t \in DOMAIN ix.index : ix.index[t].doc_freq \in Nat
  PROVE  IsOrder(Leading(ix), DOMAIN ix.index)
<1> DEFINE W == DOMAIN ix.index
           freq(t) == ix.index[t].doc_freq
           R == Leading(ix)
<1>1. \A s, t \in W :
        <<s, t>> \in R <=> freq(s) > freq(t) \/ (freq(s) = freq(t) /\ TermBefore(s, t))
  BY DEF Leading, Leads
<1>2. \A t \in W : freq(t) \in Nat
  OBVIOUS
<1>3. \A s, t, u \in W :
        /\ ~TermBefore(s, s)
        /\ TermBefore(s, t) /\ TermBefore(t, u) => TermBefore(s, u)
        /\ s = t \/ TermBefore(s, t) \/ TermBefore(t, s)
  BY Zenon DEF TermsAreOrdered
<1> HIDE DEF W, R, freq
<1>4. \A x \in W : <<x, x>> \notin R
  BY <1>1, <1>2, <1>3
<1>5. \A x, y \in W : x = y \/ <<x, y>> \in R \/ <<y, x>> \in R
  <2> SUFFICES ASSUME NEW x \in W, NEW y \in W, x # y PROVE <<x, y>> \in R \/ <<y, x>> \in R
    OBVIOUS
  <2>1. freq(x) > freq(y) \/ freq(y) > freq(x) \/ freq(x) = freq(y)
    BY <1>2
  <2> QED  BY <1>1, <1>3, <2>1
<1>6. \A x, y, z \in W : <<x, y>> \in R /\ <<y, z>> \in R => <<x, z>> \in R
  <2> SUFFICES ASSUME NEW x \in W, NEW y \in W, NEW z \in W, <<x, y>> \in R, <<y, z>> \in R
               PROVE  <<x, z>> \in R
    OBVIOUS
  <2>1. freq(x) > freq(y) \/ (freq(x) = freq(y) /\ TermBefore(x, y))
    BY <1>1
  <2>2. freq(y) > freq(z) \/ (freq(y) = freq(z) /\ TermBefore(y, z))
    BY <1>1
  <2>3. CASE freq(x) = freq(y) /\ TermBefore(x, y) /\ freq(y) = freq(z) /\ TermBefore(y, z)
    <3>1. freq(x) = freq(z) /\ TermBefore(x, z)
      BY <1>3, <2>3
    <3> QED  BY <1>1, <3>1
  <2>4. CASE freq(x) > freq(y) \/ freq(y) > freq(z)
    <3>1. freq(x) > freq(z)
      <4>1. freq(x) \in Nat /\ freq(y) \in Nat /\ freq(z) \in Nat
        BY <1>2
      <4>2. (freq(x) > freq(y) \/ freq(x) = freq(y)) /\ (freq(y) > freq(z) \/ freq(y) = freq(z))
        BY <2>1, <2>2
      <4> QED  BY <2>4, <4>1, <4>2
    <3> QED  BY <1>1, <3>1
  <2> QED  BY <2>1, <2>2, <2>3, <2>4
<1>7. IsOrder(R, W)
  BY <1>4, <1>5, <1>6 DEF IsOrder
<1> QED  BY <1>7 DEF R, W

LEMMA OrderedIsListed ==
  ASSUME NEW ix, NEW S \in SUBSET DOMAIN ix.index
  PROVE  Ordered(S, LAMBDA t, u : Leads(ix, t, u)) = Listed(Leading(ix), S)
<1>1. \A x \in S : {y \in S : Leads(ix, y, x)} = Before(Leading(ix), S, x)
  <2>1. ASSUME NEW x \in S, NEW y \in S PROVE <<y, x>> \in Leading(ix) <=> Leads(ix, y, x)
    <3>1. x \in DOMAIN ix.index /\ y \in DOMAIN ix.index
      OBVIOUS
    <3> QED  BY <3>1 DEF Leading
  <2> QED  BY Zenon, <2>1 DEF Before
<1> DEFINE Rank(k) == {x \in S : Cardinality({y \in S : Leads(ix, y, x)}) = k - 1}
           Rank2(k) == {x \in S : Cardinality(Before(Leading(ix), S, x)) = k - 1}
<1>2. \A k : Rank(k) = Rank2(k)
  BY <1>1
<1>3. Ordered(S, LAMBDA t, u : Leads(ix, t, u))
        = [k \in 1..Cardinality(S) |-> CHOOSE x : x \in Rank(k)]
  BY DEF Ordered
<1>4. Listed(Leading(ix), S) = [k \in 1..Cardinality(S) |-> CHOOSE x : x \in Rank2(k)]
  BY DEF Listed
<1> HIDE DEF Rank, Rank2
<1> QED  BY <1>2, <1>3, <1>4

\* The menu for a prefix: the first of those listed.
LEMMA SuggestedAreListed ==
  ASSUME NEW ix, NEW prefix, prefix # << >>, NEW limit \in Nat,
         IsFiniteSet(Matches(ix, prefix))
  PROVE  LET listed == Listed(Leading(ix), Matches(ix, prefix))
             n      == Cardinality(Matches(ix, prefix))
             m      == IF n > limit THEN limit ELSE n
             menu   == SuggestPrefix(ix, prefix, limit)
         IN  /\ n \in Nat /\ DOMAIN menu = 1..m
             /\ \A k \in 1..m : menu[k] = listed[k]
<1> DEFINE S == Matches(ix, prefix)
           listed == Listed(Leading(ix), S)
           n == Cardinality(S)
           m == IF n > limit THEN limit ELSE n
<1>1. n \in Nat
  BY FS_CardinalityType
<1>2. S \in SUBSET DOMAIN ix.index
  BY DEF Matches
<1>3. SuggestPrefix(ix, prefix, limit) = First(limit, listed)
  BY <1>2, OrderedIsListed DEF SuggestPrefix
<1>4. listed = [k \in 1..n |-> listed[k]]
  BY DEF Listed
<1> HIDE DEF listed, n, S
<1>5. Len(listed) = n
  BY <1>1, <1>4
<1>6. First(limit, listed) = SubSeq(listed, 1, m)
  BY <1>5 DEF First
<1>7. SubSeq(listed, 1, m) = [k \in 1..m |-> listed[k]] /\ m \in Nat /\ m <= n
  <2>1. m \in Nat /\ m <= n
    BY <1>1
  <2> HIDE DEF m
  <2>2. listed \in Seq({listed[k] : k \in 1..n})
    BY <1>1, <1>4
  <2> QED  BY <1>1, <1>4, <1>5, <2>1, <2>2
<1> HIDE DEF m
<1>8. DOMAIN SubSeq(listed, 1, m) = 1..m /\ \A k \in 1..m : SubSeq(listed, 1, m)[k] = listed[k]
  BY <1>7
<1> QED  BY <1>1, <1>3, <1>6, <1>8 DEF m, n, listed, S

LEMMA LongerMatchesLess ==
  ASSUME NEW term \in Seq(Chars), NEW n \in 1..Len(term) - 1, NEW ix,
         DOMAIN ix.index \subseteq Seq(Chars)
  PROVE  /\ SubSeq(term, 1, n) # << >> /\ SubSeq(term, 1, n + 1) # << >>
         /\ Matches(ix, SubSeq(term, 1, n + 1)) \subseteq Matches(ix, SubSeq(term, 1, n))
<1> DEFINE s == SubSeq(term, 1, n)
           l == SubSeq(term, 1, n + 1)
<1>1. /\ s \in Seq(Chars) /\ Len(s) = n /\ l \in Seq(Chars) /\ Len(l) = n + 1 /\ n \in Nat
      /\ n # 0 /\ \A i \in 1..n : s[i] = l[i]
  OBVIOUS
<1> HIDE DEF s, l
<1>2. ASSUME NEW t \in Seq(Chars), IsPrefix(l, t) PROVE IsPrefix(s, t)
  <2>1. n + 1 <= Len(t) /\ Len(t) \in Nat /\ SubSeq(l, 1, n + 1) = SubSeq(t, 1, n + 1)
    BY <1>1, <1>2 DEF IsPrefix
  <2>2. \A i \in 1..n : l[i] = t[i]
    <3> SUFFICES ASSUME NEW i \in 1..n PROVE l[i] = t[i]
      OBVIOUS
    <3>1. i \in 1..n + 1 /\ n + 1 <= Len(l)
      BY <1>1
    <3>2. SubSeq(l, 1, n + 1)[i] = l[i] /\ SubSeq(t, 1, n + 1)[i] = t[i]
      BY <1>1, <2>1, <3>1
    <3> QED  BY <2>1, <3>2
  <2>3. SubSeq(s, 1, n) = [i \in 1..n |-> s[i]] /\ SubSeq(t, 1, n) = [i \in 1..n |-> t[i]]
    BY <1>1, <2>1
  <2>4. SubSeq(s, 1, n) = SubSeq(t, 1, n)
    BY <1>1, <2>2, <2>3
  <2> QED  BY <1>1, <2>1, <2>4 DEF IsPrefix
<1>3. s # << >> /\ l # << >>
  BY <1>1
<1>4. Matches(ix, l) \subseteq Matches(ix, s)
  BY <1>2 DEF Matches
<1> QED  BY <1>3, <1>4 DEF s, l

LEMMA SuggestionsKeep ==
  ASSUME StemsMakeWords, TermsAreOrdered, Inv, IndexAsStripped
  PROVE  SuggestionsStay
<1> DEFINE W == DOMAIN index.index
           R == Leading(index)
<1>1. /\ IsFiniteSet(W) /\ W \subseteq Seq(Chars)
      /\ \A t \in W : index.index[t].doc_freq \in Nat
  <2> DEFINE docs == Documents
             D == Seq(Seq(Chars))
  <2>1. docs \in Seq(D) /\ IsFiniteSet(TermsOf(docs)) /\ index.index = ListsOf(docs)
    BY DocumentsAreWords DEF IndexAsStripped, IndexOf, ListsOf, TermsOf
  <2>2. TermsOf(docs) \subseteq Seq(Chars)
    <3> HIDE DEF docs
    <3> QED  BY <2>1 DEF TermsOf, Range
  <2> HIDE DEF docs, D
  <2>3. ASSUME NEW t PROVE ListOf(t, docs).doc_freq \in Nat
    <3> DEFINE ids == Sorted(Having(t, docs))
    <3>1. ids \in Seq(Having(t, docs)) /\ ListOf(t, docs).doc_freq = Len(ids)
      BY <2>1, ListOfDocuments
    <3> HIDE DEF ids
    <3> QED  BY <3>1
  <2> QED  BY <2>1, <2>2, <2>3 DEF ListsOf
<1>2. IsOrder(R, W)
  BY <1>1, LeadingIsOrder
<1> SUFFICES ASSUME NEW limit \in SuggestLimits, NEW term \in W, NEW n \in 1..Len(term) - 1
             PROVE  LET typed   == SubSeq(term, 1, n + 1)
                        shorter == SuggestPrefix(index, SubSeq(term, 1, n), limit)
                        longer  == SuggestPrefix(index, typed, limit)
                    IN  \A k \in DOMAIN shorter :
                          IsPrefix(typed, shorter[k]) =>
                            LET place == Cardinality({j \in 1..k : IsPrefix(typed, shorter[j])})
                            IN  place \in DOMAIN longer /\ longer[place] = shorter[k]
  BY DEF SuggestionsStay
<1> DEFINE typed == SubSeq(term, 1, n + 1)
           begun == SubSeq(term, 1, n)
           shorter == SuggestPrefix(index, begun, limit)
           longer == SuggestPrefix(index, typed, limit)
           S == Matches(index, begun)
           T == Matches(index, typed)
           c == Cardinality(S)
           d == Cardinality(T)
           m == IF c > limit THEN limit ELSE c
           q == IF d > limit THEN limit ELSE d
<1>3. limit \in Nat /\ term \in Seq(Chars)
  BY <1>1, IngestionAssumption
<1>4. begun # << >> /\ typed # << >> /\ T \subseteq S /\ S \subseteq W
  <2>1. begun # << >> /\ typed # << >> /\ T \subseteq S
    BY <1>1, <1>3, LongerMatchesLess
  <2> QED  BY <2>1 DEF Matches
<1>5. IsFiniteSet(S) /\ IsFiniteSet(T)
  <2> HIDE DEF S, T, W
  <2> QED  BY <1>1, <1>4, FS_Subset
<1>6. \A t \in S : t \in T <=> IsPrefix(typed, t)
  BY DEF Matches
<1> HIDE DEF W, typed, begun
<1>7. c \in Nat /\ DOMAIN shorter = 1..m /\ \A k \in 1..m : shorter[k] = Listed(R, S)[k]
  BY <1>3, <1>4, <1>5, SuggestedAreListed
<1>8. d \in Nat /\ DOMAIN longer = 1..q /\ \A k \in 1..q : longer[k] = Listed(R, T)[k]
  BY <1>3, <1>4, <1>5, SuggestedAreListed
<1> HIDE DEF shorter, longer, S, T, R
<1>9. \A k \in 1..c : Listed(R, S)[k] \in S
  BY <1>2, <1>4, <1>5, ListedByRank
<1>10. \A k \in 1..m : k \in 1..c /\ k <= limit
  BY <1>3, <1>7
<1> SUFFICES ASSUME NEW k \in DOMAIN shorter, IsPrefix(typed, shorter[k])
             PROVE  LET place == Cardinality({j \in 1..k : IsPrefix(typed, shorter[j])})
                    IN  place \in DOMAIN longer /\ longer[place] = shorter[k]
  BY DEF shorter, longer, typed, begun
<1>11. k \in 1..m /\ k \in 1..c /\ shorter[k] = Listed(R, S)[k] /\ Listed(R, S)[k] \in T
  BY <1>6, <1>7, <1>9, <1>10
<1>12. {j \in 1..k : IsPrefix(typed, shorter[j])} = {j \in 1..k : Listed(R, S)[j] \in T}
  <2>1. \A j \in 1..k : j \in 1..m /\ j \in 1..c
    BY <1>3, <1>7, <1>11
  <2> HIDE DEF c, m
  <2>2. \A j \in 1..k : IsPrefix(typed, shorter[j]) <=> Listed(R, S)[j] \in T
    BY <1>6, <1>7, <1>9, <2>1
  <2> QED  BY <2>2
<1> DEFINE place == Cardinality({j \in 1..k : Listed(R, S)[j] \in T})
<1>13. place \in 1..k /\ place <= d /\ Listed(R, T)[place] = Listed(R, S)[k]
  <2>1. /\ S \in SUBSET W /\ T \in SUBSET S
        /\ k \in 1..Cardinality(S) /\ Listed(R, S)[k] \in T
    BY <1>4, <1>11
  <2> QED  BY <1>2, <1>5, <2>1, PlaceLeft
<1> HIDE DEF place
<1>14. place \in 1..q
  BY <1>3, <1>8, <1>10, <1>11, <1>13
<1> QED  BY <1>8, <1>11, <1>12, <1>13, <1>14 DEF place

\* A menu of suggestions never drops or reorders what still fits when one types on
\* (suggestPrefix), for any index built from a dump and any limit.
THEOREM SuggestionsKeepTheirPlace ==
  ASSUME StemsMakeWords, TermsAreOrdered
  PROVE  Spec => []SuggestionsStay
<1>1. Inv /\ IndexAsStripped => SuggestionsStay
  BY SuggestionsKeep
<1> QED  BY <1>1, ParserFollowsDump, IndexFollowsDump, PTL

-----------------------------------------------------------------------------
(* Ranks.                                                                  *)

LEMMA Units ==
  /\ \A n \in 0..Rounds : Unit[n] \in Nat \ {0}
  /\ Unit[0] = 1 /\ \A n \in 1..Rounds : Unit[n] = Scale * Unit[n - 1]
<1> DEFINE States == Nat \ {0}
           step == [u \in States |-> [n \in 1..Rounds |-> Scale * u]]
           IsUnit(g) == g = [n \in 0..Rounds |-> IF n = 0 THEN 1 ELSE Scale * g[n - 1]]
           start == 1
<1>1. Rounds \in Nat /\ Scale \in Nat \ {0} /\ start \in States
  BY PageRankAssumption DEF Scale
<1>2. \A u \in States : Scale * u \in States
  BY <1>1
<1>3. /\ step \in [States -> [1..Rounds -> States]]
      /\ \A u \in States : \A n \in 1..Rounds : step[u][n] = Scale * u
  BY <1>2
<1> HIDE DEF step, start, States
<1>4. PICK f \in [0..Rounds -> States] : IsRecursive(f, start, Rounds, step)
  BY <1>1, <1>3, Recursion
<1>5. f[0] = 1 /\ \A n \in 1..Rounds : f[n] = Scale * f[n - 1]
  BY <1>1, <1>3, <1>4 DEF IsRecursive, start
<1>6. f = [n \in 0..Rounds |-> IF n = 0 THEN 1 ELSE Scale * f[n - 1]]
  BY <1>1, <1>4, <1>5
<1>7. IsUnit(Unit)
  <2> HIDE DEF IsUnit
  <2>1. IsUnit(f)
    BY <1>6 DEF IsUnit
  <2>2. Unit = CHOOSE g : IsUnit(g)
    BY DEF Unit, IsUnit
  <2> QED  BY <2>1, <2>2
<1>8. Unit[0] = 1 /\ \A n \in 1..Rounds : Unit[n] = Scale * Unit[n - 1]
  BY <1>1, <1>7
<1>9. \A n \in 0..Rounds : Unit[n] = f[n]
  <2>1. Alike(Unit, f, Rounds)
    BY <1>5, <1>8 DEF Alike
  <2> QED  BY <1>1, <2>1, SameRecursion
<1> QED  BY <1>4, <1>8, <1>9 DEF States

IsSum(sum, rank, docs) ==
  sum[0] = 0 /\ \A n \in 1..docs : sum[n] = sum[n - 1] + rank[n - 1]

LEMMA Totals ==
  ASSUME NEW docs \in Nat, NEW rank \in [0..docs - 1 -> Nat]
  PROVE  \E sum \in [0..docs -> Nat] :
           IsSum(sum, rank, docs) /\ Total(rank, docs) = sum[docs]
<1> DEFINE step == [s \in Nat |-> [n \in 1..docs |-> s + rank[n - 1]]]
           Sums(g) == g = [n \in 0..docs |-> IF n = 0 THEN 0 ELSE g[n - 1] + rank[n - 1]]
           F == CHOOSE g : Sums(g)
           start == 0
<1>1. \A s \in Nat : \A n \in 1..docs : s + rank[n - 1] \in Nat
  <2>1. \A n \in 1..docs : n - 1 \in 0..docs - 1
    OBVIOUS
  <2>2. \A n \in 1..docs : rank[n - 1] \in Nat
    BY <2>1
  <2> QED  BY <2>2
<1>2. /\ step \in [Nat -> [1..docs -> Nat]] /\ start \in Nat
      /\ \A s \in Nat : \A n \in 1..docs : step[s][n] = s + rank[n - 1]
  BY <1>1
<1> HIDE DEF step, start
<1>3. PICK f \in [0..docs -> Nat] : IsRecursive(f, start, docs, step)
  BY <1>2, Recursion
<1>4. f[0] = 0 /\ \A n \in 1..docs : f[n] = f[n - 1] + rank[n - 1]
  <2>1. \A n \in 1..docs : f[n - 1] \in Nat /\ f[n] = step[f[n - 1]][n]
    BY <1>3 DEF IsRecursive
  <2> QED  BY <1>2, <1>3, <2>1 DEF IsRecursive, start
<1>5. f = [n \in 0..docs |-> IF n = 0 THEN 0 ELSE f[n - 1] + rank[n - 1]]
  BY <1>3, <1>4
<1>6. Sums(F)
  <2> HIDE DEF Sums
  <2>1. Sums(f)
    BY <1>5 DEF Sums
  <2> QED  BY <2>1
<1>7. Total(rank, docs) = F[docs]
  BY DEF Total
<1> HIDE DEF F
<1>8. F[0] = 0 /\ \A n \in 1..docs : F[n] = F[n - 1] + rank[n - 1]
  BY <1>6
<1>9. \A n \in 0..docs : F[n] = f[n]
  <2>1. Alike(F, f, docs)
    BY <1>4, <1>8 DEF Alike
  <2> QED  BY <2>1, SameRecursion
<1>10. docs \in 0..docs
  OBVIOUS
<1> QED  BY <1>3, <1>4, <1>7, <1>9, <1>10 DEF IsSum

\* What is added to one rank is added to all together.
LEMMA TotalAdded ==
  ASSUME NEW docs \in Nat, NEW rank \in [0..docs - 1 -> Nat], NEW id \in 0..docs - 1,
         NEW share \in Nat
  PROVE  /\ Added(rank, id, share) \in [0..docs - 1 -> Nat]
         /\ Total(Added(rank, id, share), docs) = Total(rank, docs) + share
         /\ Total(rank, docs) \in Nat
<1> DEFINE more == Added(rank, id, share)
<1>1. /\ more \in [0..docs - 1 -> Nat] /\ more[id] = rank[id] + share
      /\ \A d \in 0..docs - 1 : d # id => more[d] = rank[d]
  BY DEF Added
<1> HIDE DEF more
<1>2. PICK sum \in [0..docs -> Nat] : IsSum(sum, rank, docs) /\ Total(rank, docs) = sum[docs]
  BY Totals
<1>3. PICK g \in [0..docs -> Nat] : IsSum(g, more, docs) /\ Total(more, docs) = g[docs]
  BY <1>1, Totals
<1> DEFINE extra(n) == IF n <= id THEN 0 ELSE share
           T == {n \in Nat : n <= docs => g[n] = sum[n] + extra(n)}
<1>4. 0 \in T
  BY <1>2, <1>3 DEF IsSum
<1>5. ASSUME NEW n \in Nat, n \in T, n + 1 <= docs
      PROVE  g[n + 1] = sum[n + 1] + extra(n + 1)
  <2>1. n + 1 \in 1..docs /\ (n + 1) - 1 = n /\ n <= docs /\ n \in 0..docs - 1 /\ n \in 0..docs
    BY <1>5
  <2>2. g[n + 1] = g[n] + more[n] /\ sum[n + 1] = sum[n] + rank[n]
    BY <1>2, <1>3, <2>1 DEF IsSum
  <2>3. g[n] = sum[n] + extra(n)
    BY <1>5, <2>1
  <2>4. sum[n] \in Nat /\ rank[n] \in Nat /\ rank[id] \in Nat
    BY <2>1
  <2>5. CASE n = id
    <3>1. more[n] = rank[n] + share /\ n <= id /\ ~(n + 1 <= id)
      BY <1>1, <2>5
    <3> QED  BY <2>2, <2>3, <2>4, <3>1, SMTT(30)
  <2>6. CASE n # id
    <3>1. more[n] = rank[n] /\ (n <= id <=> n + 1 <= id)
      BY <1>1, <2>1, <2>6, SMTT(30)
    <3>2. extra(n + 1) = extra(n) /\ extra(n) \in Nat
      BY <3>1
    <3> DEFINE e == extra(n)
           a == sum[n]
           b == rank[n]
    <3>3. g[n + 1] = g[n] + rank[n] /\ g[n] = sum[n] + e /\ e \in Nat
      BY <2>2, <2>3, <3>1, <3>2
    <3>4. g[n + 1] = (a + e) + b /\ sum[n + 1] = a + b /\ {a, b, e} \subseteq Nat
      BY <2>2, <2>4, <3>3
    <3> HIDE DEF e, a, b
    <3>5. g[n + 1] = sum[n + 1] + e
      BY <3>4
    <3> QED  BY <3>2, <3>5 DEF e
  <2> QED  BY <2>5, <2>6
<1> HIDE DEF extra
<1>6. \A n \in Nat : n \in T => n + 1 \in T
  BY <1>5
<1>7. docs \in T
  <2> HIDE DEF T
  <2> QED  BY <1>4, <1>6, Induction
<1>8. ~(docs <= id) /\ docs <= docs /\ extra(docs) = share
  BY DEF extra
<1> QED  BY <1>1, <1>2, <1>3, <1>7, <1>8 DEF more

LEMMA TotalOfEqual ==
  ASSUME NEW docs \in Nat, NEW c \in Nat
  PROVE  Total([id \in 0..docs - 1 |-> c], docs) = docs * c
<1> DEFINE rank == [id \in 0..docs - 1 |-> c]
<1>1. rank \in [0..docs - 1 -> Nat] /\ \A id \in 0..docs - 1 : rank[id] = c
  OBVIOUS
<1> HIDE DEF rank
<1>2. PICK sum \in [0..docs -> Nat] : IsSum(sum, rank, docs) /\ Total(rank, docs) = sum[docs]
  BY <1>1, Totals
<1> DEFINE T == {n \in Nat : n <= docs => sum[n] = n * c}
<1>3. 0 \in T
  BY <1>2 DEF IsSum
<1>4. ASSUME NEW n \in Nat, n \in T, n + 1 <= docs PROVE sum[n + 1] = (n + 1) * c
  <2>1. n + 1 \in 1..docs /\ (n + 1) - 1 = n /\ n <= docs /\ n \in 0..docs - 1
    BY <1>4
  <2>2. sum[n + 1] = n * c + c
    BY <1>1, <1>2, <1>4, <2>1 DEF IsSum
  <2> QED  BY <2>2
<1>5. \A n \in Nat : n \in T => n + 1 \in T
  BY <1>4
<1>6. docs \in T
  <2> HIDE DEF T
  <2> QED  BY <1>3, <1>5, Induction
<1> QED  BY <1>2, <1>6 DEF rank

\* The ranks of docs documents.
Ranks(docs) == [0..docs - 1 -> Nat]

\* Links give their share each, and only to the pages they lead to.
Gives(rank, links, share, docs, next) ==
  /\ next \in Ranks(docs)
  /\ Total(next, docs) = Total(rank, docs) + Len(links) * share
  /\ \A d \in 0..docs - 1 :
       /\ next[d] >= rank[d]
       /\ d \notin Range(links) => next[d] = rank[d]
       /\ d \in Range(links) /\ share > 0 => next[d] > rank[d]

LEMMA SharesGiven ==
  ASSUME NEW docs \in Nat, NEW rank \in Ranks(docs), NEW links \in Seq(0..docs - 1),
         NEW share \in Nat
  PROVE  Gives(rank, links, share, docs, Spread(rank, links, share))
<1> DEFINE States == Ranks(docs)
           step == [g \in States |-> [k \in 1..Len(links) |-> Added(g, links[k], share)]]
           IsGiven(g) == g = [k \in 0..Len(links) |->
                                IF k = 0 THEN rank ELSE Added(g[k - 1], links[k], share)]
           F == CHOOSE g : IsGiven(g)
<1>0. Len(links) \in Nat /\ \A k \in 1..Len(links) : links[k] \in 0..docs - 1
  OBVIOUS
<1>1. \A g \in States : \A k \in 1..Len(links) : Added(g, links[k], share) \in States
  BY <1>0, TotalAdded DEF Ranks
<1>2. /\ step \in [States -> [1..Len(links) -> States]] /\ rank \in States
      /\ \A g \in States : \A k \in 1..Len(links) : step[g][k] = Added(g, links[k], share)
  BY <1>1
<1> HIDE DEF step, States
<1>3. PICK f \in [0..Len(links) -> States] : IsRecursive(f, rank, Len(links), step)
  BY <1>0, <1>2, Recursion
<1>4. f[0] = rank /\ \A k \in 1..Len(links) : f[k] = Added(f[k - 1], links[k], share)
  <2>1. \A k \in 1..Len(links) : f[k - 1] \in States /\ f[k] = step[f[k - 1]][k]
    BY <1>0, <1>3 DEF IsRecursive
  <2> QED  BY <1>2, <1>3, <2>1 DEF IsRecursive
<1>5. f = [k \in 0..Len(links) |-> IF k = 0 THEN rank ELSE Added(f[k - 1], links[k], share)]
  BY <1>3, <1>4
<1>6. IsGiven(F)
  <2> HIDE DEF IsGiven
  <2>1. IsGiven(f)
    BY <1>5 DEF IsGiven
  <2> QED  BY <2>1
<1>7. Spread(rank, links, share) = F[Len(links)]
  BY DEF Spread
<1> HIDE DEF F
<1>8. F[0] = rank /\ \A k \in 1..Len(links) : F[k] = Added(F[k - 1], links[k], share)
  <2>1. F = [k \in 0..Len(links) |->
              IF k = 0 THEN rank ELSE Added(F[k - 1], links[k], share)]
    BY <1>6
  <2>2. ASSUME NEW k \in 1..Len(links) PROVE F[k] = Added(F[k - 1], links[k], share)
    <3>1. k \in 0..Len(links) /\ k # 0
      BY <1>0
    <3> QED  BY <2>1, <3>1, Zenon
  <2>3. F[0] = rank
    <3>1. 0 \in 0..Len(links)
      BY <1>0
    <3> QED  BY <2>1, <3>1, Zenon
  <2> QED  BY <2>2, <2>3
<1>9. \A k \in 0..Len(links) : F[k] = f[k]
  <2>1. Alike(F, f, Len(links))
    BY <1>4, <1>8 DEF Alike
  <2> QED  BY <1>0, <2>1, SameRecursion
<1> DEFINE Told(k) == {links[j] : j \in 1..k}
           Given(g, k) ==
             /\ Total(g, docs) = Total(rank, docs) + k * share
             /\ \A d \in 0..docs - 1 :
                  /\ g[d] >= rank[d]
                  /\ d \notin Told(k) => g[d] = rank[d]
                  /\ d \in Told(k) /\ share > 0 => g[d] > rank[d]
           T == {k \in Nat : k <= Len(links) => Given(f[k], k)}
<1> HIDE DEF Given
<1>10. Total(rank, docs) \in Nat /\ \A d \in 0..docs - 1 : rank[d] \in Nat
  <2>1. PICK sum \in [0..docs -> Nat] : Total(rank, docs) = sum[docs]
    BY Totals DEF Ranks
  <2> QED  BY <2>1 DEF Ranks
<1>11. 0 \in T
  BY <1>4, <1>10 DEF Given
<1>12. ASSUME NEW k \in Nat, k \in T, k + 1 <= Len(links)
       PROVE  Given(f[k + 1], k + 1)
  <2> DEFINE g == f[k]
             id == links[k + 1]
             more == Added(g, id, share)
  <2>1. k + 1 \in 1..Len(links) /\ (k + 1) - 1 = k /\ k \in 0..Len(links)
    BY <1>0, <1>12
  <2>2. g \in [0..docs - 1 -> Nat] /\ Given(g, k) /\ id \in 0..docs - 1 /\ f[k + 1] = more
    <3>1. g \in States /\ Given(g, k)
      BY <1>3, <1>12, <2>1
    <3>2. f[k + 1] = Added(f[(k + 1) - 1], links[k + 1], share)
      BY <1>4, <2>1, Zenon
    <3>3. f[(k + 1) - 1] = f[k]
      BY <2>1
    <3>4. id \in 0..docs - 1
      BY <1>0, <2>1
    <3> QED  BY <3>1, <3>2, <3>3, <3>4, Zenon DEF States, Ranks
  <2>3. Told(k + 1) = Told(k) \cup {id}
    BY <2>1
  <2> HIDE DEF g, id, Told
  <2>4. Total(more, docs) = Total(g, docs) + share
    BY <2>2, TotalAdded
  <2>5. Total(more, docs) = Total(rank, docs) + (k + 1) * share
    <3>1. k * share \in Nat /\ (k + 1) * share = k * share + share
      OBVIOUS
    <3>2. Total(g, docs) = Total(rank, docs) + k * share
      BY <2>2 DEF Given
    <3> DEFINE t == Total(rank, docs)
               s == k * share
    <3>3. Total(more, docs) = (t + s) + share /\ t \in Nat /\ s \in Nat
      BY <1>10, <2>4, <3>1, <3>2
    <3>4. (k + 1) * share = s + share
      BY <3>1
    <3> HIDE DEF t, s
    <3>5. Total(more, docs) = t + (k + 1) * share
      BY <3>3, <3>4
    <3> QED  BY <3>5 DEF t
  <2>6. \A d \in 0..docs - 1 : more[d] = IF d = id THEN g[d] + share ELSE g[d]
    BY <2>2 DEF Added
  <2> HIDE DEF more
  <2>7. \A d \in 0..docs - 1 :
          /\ more[d] >= rank[d]
          /\ d \notin Told(k + 1) => more[d] = rank[d]
          /\ d \in Told(k + 1) /\ share > 0 => more[d] > rank[d]
    <3> SUFFICES ASSUME NEW d \in 0..docs - 1
                 PROVE  /\ more[d] >= rank[d]
                        /\ d \notin Told(k + 1) => more[d] = rank[d]
                        /\ d \in Told(k + 1) /\ share > 0 => more[d] > rank[d]
      OBVIOUS
    <3>1. g[d] \in Nat /\ rank[d] \in Nat /\ g[d] >= rank[d]
      BY <1>10, <2>2 DEF Given
    <3>2. /\ d \notin Told(k) => g[d] = rank[d]
          /\ d \in Told(k) /\ share > 0 => g[d] > rank[d]
      BY <2>2 DEF Given
    <3>3. CASE d = id
      <4>1. more[d] = g[d] + share /\ d \in Told(k + 1)
        BY <2>3, <2>6, <3>3
      <4> QED  BY <3>1, <4>1
    <3>4. CASE d # id
      <4>1. more[d] = g[d] /\ (d \in Told(k + 1) <=> d \in Told(k))
        BY <2>3, <2>6, <3>4
      <4> QED  BY <3>1, <3>2, <4>1
    <3> QED  BY <3>3, <3>4
  <2> QED  BY <2>2, <2>5, <2>7 DEF Given
<1>13. \A k \in Nat : k \in T => k + 1 \in T
  BY <1>12, SMTT(30)
<1>14. Given(f[Len(links)], Len(links))
  <2>1. Len(links) \in T
    <3> HIDE DEF T
    <3> QED  BY <1>0, <1>11, <1>13, Induction
  <2> QED  BY <1>0, <2>1
<1>15. Told(Len(links)) = Range(links)
  BY DEF Range
<1>16. Spread(rank, links, share) = f[Len(links)]
  BY <1>0, <1>7, <1>9
<1>17. f[Len(links)] \in States
  BY <1>0, <1>3
<1> QED  BY <1>14, <1>15, <1>16, <1>17 DEF Given, States, Gives

\* The graphs of docs documents whose degrees divide what a rank is divided into.
Graphs(docs) == [0..docs - 1 -> Seq(0..docs - 1)]

SharesEvenly(graph) ==
  \A i \in DOMAIN graph :
    graph[i] # << >> => Len(graph[i]) * (OutDegrees \div Len(graph[i])) = OutDegrees

Linked(graph, id) == \E from \in DOMAIN graph : id \in Range(graph[from])

\* A round keeps what there is, but for the share of pages without links, and only
\* pages with a link to them have more than the base.
Passes(graph, rank, docs, n, next) ==
  /\ next \in Ranks(docs)
  /\ Total(next, docs) <= docs * Base(n) + 17 * OutDegrees * Total(rank, docs)
  /\ (\A i \in 0..docs - 1 : graph[i] # << >>)
       => Total(next, docs) = docs * Base(n) + 17 * OutDegrees * Total(rank, docs)
  /\ (\E i \in 0..docs - 1 : graph[i] = << >>)
       => Total(next, docs) < docs * Base(n) + 17 * OutDegrees * Total(rank, docs)
  /\ \A d \in 0..docs - 1 :
       IF Linked(graph, d) THEN next[d] > Base(n) ELSE next[d] = Base(n)

LEMMA Bases == \A n \in 1..Rounds : Base(n) \in Nat \ {0} /\ Scale * Unit[n - 1] = Unit[n]
<1> SUFFICES ASSUME NEW n \in 1..Rounds
             PROVE  Base(n) \in Nat \ {0} /\ Scale * Unit[n - 1] = Unit[n]
  OBVIOUS
<1>1. OutDegrees \in Nat \ {0} /\ Rounds \in Nat
  BY PageRankAssumption
<1>2. n - 1 \in 0..Rounds
  BY <1>1
<1> DEFINE u == Unit[n - 1]
<1>3. u \in Nat \ {0} /\ Scale * u = Unit[n]
  BY <1>2, Units
<1> HIDE DEF u
<1>4. 3 * OutDegrees * u \in Nat \ {0}
  BY <1>1, <1>3
<1> QED  BY <1>3, <1>4 DEF Base, u

\* One page gives its rank to the pages it links to.
Hands(g, links, amount, docs, next) ==
  /\ next \in Ranks(docs) /\ Total(next, docs) = Total(g, docs) + amount
  /\ \A d \in 0..docs - 1 : IF d \in Range(links) THEN next[d] > g[d] ELSE next[d] = g[d]

LEMMA PageShares ==
  ASSUME NEW docs \in Nat, NEW graph \in Graphs(docs), SharesEvenly(graph),
         NEW i \in 0..docs - 1, graph[i] # << >>,
         NEW g \in Ranks(docs), NEW r \in Nat \ {0}
  PROVE  Hands(g, graph[i], 17 * OutDegrees * r, docs,
               Spread(g, graph[i], Share(r, Len(graph[i]))))
<1> DEFINE l == graph[i]
           degree == Len(l)
           part == OutDegrees \div degree
           share == Share(r, degree)
           next == Spread(g, l, share)
<1>1. l \in Seq(0..docs - 1) /\ degree \in Nat \ {0} /\ i \in DOMAIN graph
  BY DEF Graphs
<1>2. OutDegrees \in Nat \ {0} /\ degree * part = OutDegrees
  BY <1>1, PageRankAssumption DEF SharesEvenly
<1>3. part \in Nat
  BY <1>1, <1>2
<1>4. share = 17 * r * part
  BY DEF Share
<1> HIDE DEF part, degree, l
<1>5. part # 0
  BY <1>1, <1>2, <1>3
<1>6. r * part \in Nat \ {0}
  BY <1>3, <1>5
<1>7. share \in Nat \ {0}
  BY <1>4, <1>6, <1>3
<1>8. degree * share = 17 * OutDegrees * r
  <2>1. degree * (17 * r * part) = 17 * (degree * part) * r
    BY <1>1, <1>3
  <2> QED  BY <1>2, <1>4, <2>1
<1> HIDE DEF share
<1>9. /\ next \in Ranks(docs)
      /\ Total(next, docs) = Total(g, docs) + degree * share
      /\ \A d \in 0..docs - 1 :
           /\ d \notin Range(l) => next[d] = g[d]
           /\ d \in Range(l) /\ share > 0 => next[d] > g[d]
  <2>1. share \in Nat /\ degree = Len(l)
    BY <1>7 DEF degree
  <2>2. Gives(g, l, share, docs, next)
    BY <1>1, <2>1, SharesGiven
  <2> QED  BY <2>1, <2>2 DEF Gives
<1>10. share > 0
  BY <1>7
<1> QED  BY <1>8, <1>9, <1>10 DEF l, degree, share, Hands

LEMMA RoundPasses ==
  ASSUME NEW docs \in Nat, NEW graph \in Graphs(docs), SharesEvenly(graph),
         NEW rank \in Ranks(docs), \A d \in 0..docs - 1 : rank[d] > 0, NEW n \in 1..Rounds
  PROVE  Passes(graph, rank, docs, n, Round(graph, rank, n))
<1> DEFINE States == Ranks(docs)
           bare == [id \in DOMAIN graph |-> Base(n)]
           From(g, i) == IF graph[i - 1] = << >> THEN g
                         ELSE Spread(g, graph[i - 1], Share(rank[i - 1], Len(graph[i - 1])))
           step == [g \in States |-> [i \in 1..docs |-> From(g, i)]]
           IsAfter(g, N) == g = [i \in 0..N |-> IF i = 0 THEN bare ELSE From(g[i - 1], i)]
           F == CHOOSE g : IsAfter(g, Cardinality(DOMAIN graph))
<1>1. DOMAIN graph = 0..docs - 1 /\ Cardinality(DOMAIN graph) = docs
  <2>1. DOMAIN graph = 0..docs - 1
    BY DEF Graphs
  <2>2. Cardinality(0..docs - 1) = docs
    BY FS_Interval
  <2> QED  BY <2>1, <2>2
<1>2. ASSUME NEW i \in 1..docs PROVE i - 1 \in 0..docs - 1 /\ rank[i - 1] \in Nat \ {0}
  BY <1>2 DEF Ranks
<1>3. ASSUME NEW g \in States, NEW i \in 1..docs PROVE From(g, i) \in States
  <2>1. CASE graph[i - 1] = << >>
    BY <2>1
  <2>2. CASE graph[i - 1] # << >>
    <3>1. Spread(g, graph[i - 1], Share(rank[i - 1], Len(graph[i - 1]))) \in States
      BY <1>2, <2>2, PageShares DEF Hands
    <3> QED  BY <2>2, <3>1
  <2> QED  BY <2>1, <2>2
<1>4. bare \in States /\ Base(n) \in Nat \ {0}
  BY <1>1, Bases DEF Ranks
<1> HIDE DEF From, bare
<1>5. /\ step \in [States -> [1..docs -> States]]
      /\ \A g \in States : \A i \in 1..docs : step[g][i] = From(g, i)
  BY <1>3
<1> HIDE DEF step, States
<1>6. PICK f \in [0..docs -> States] : IsRecursive(f, bare, docs, step)
  BY <1>4, <1>5, Recursion
<1>7. f[0] = bare /\ \A i \in 1..docs : f[i] = From(f[i - 1], i)
  <2>1. \A i \in 1..docs : f[i - 1] \in States /\ f[i] = step[f[i - 1]][i]
    BY <1>6 DEF IsRecursive
  <2> QED  BY <1>5, <1>6, <2>1 DEF IsRecursive
<1>8. f = [i \in 0..docs |-> IF i = 0 THEN bare ELSE From(f[i - 1], i)]
  BY <1>6, <1>7
<1>9. IsAfter(F, docs)
  <2> HIDE DEF IsAfter
  <2>1. IsAfter(f, docs)
    BY <1>8 DEF IsAfter
  <2> QED  BY <1>1, <2>1
<1>10. Round(graph, rank, n) = F[docs]
  BY <1>1 DEF Round, bare, From
<1> HIDE DEF F
<1>11. F[0] = bare /\ \A i \in 1..docs : F[i] = From(F[i - 1], i)
  <2>1. F = [i \in 0..docs |-> IF i = 0 THEN bare ELSE From(F[i - 1], i)]
    BY <1>9
  <2>2. ASSUME NEW i \in 1..docs PROVE F[i] = From(F[i - 1], i)
    <3>1. i \in 0..docs /\ i # 0
      OBVIOUS
    <3> QED  BY <2>1, <3>1, Zenon
  <2>3. F[0] = bare
    <3>1. 0 \in 0..docs
      OBVIOUS
    <3> QED  BY <2>1, <3>1, Zenon
  <2> QED  BY <2>2, <2>3
<1>12. \A i \in 0..docs : F[i] = f[i]
  <2>1. Alike(F, f, docs)
    BY <1>7, <1>11 DEF Alike
  <2> QED  BY <2>1, SameRecursion
<1>13. PICK sum \in [0..docs -> Nat] :
         IsSum(sum, rank, docs) /\ Total(rank, docs) = sum[docs]
  BY Totals DEF Ranks
<1> DEFINE c == 17 * OutDegrees
           b == docs * Base(n)
           Told(i) == {d \in 0..docs - 1 : \E j \in 0..i - 1 : d \in Range(graph[j])}
           Balance(g, i) == /\ Total(g, docs) \in Nat
                            /\ Total(g, docs) <= b + c * sum[i]
           Full(g, i) == (\A j \in 0..i - 1 : graph[j] # << >>) => Total(g, docs) = b + c * sum[i]
           Lost(g, i) == (\E j \in 0..i - 1 : graph[j] = << >>) => Total(g, docs) < b + c * sum[i]
           Reached(g, i) == \A d \in 0..docs - 1 :
                              IF d \in Told(i) THEN g[d] > Base(n) ELSE g[d] = Base(n)
           Passed(g, i) == Balance(g, i) /\ Full(g, i) /\ Lost(g, i) /\ Reached(g, i)
           T == {i \in Nat : i <= docs => Passed(f[i], i)}
<1>14. c \in Nat \ {0} /\ b \in Nat /\ \A i \in 0..docs : sum[i] \in Nat
  <2>1. c \in Nat \ {0}
    BY PageRankAssumption
  <2>2. b \in Nat
    BY <1>4
  <2> QED  BY <2>1, <2>2
<1>15. 0 \in T
  <2>1. Total(bare, docs) = b
    BY <1>1, <1>4, TotalOfEqual DEF bare
  <2>2. sum[0] = 0 /\ c * sum[0] = 0
    BY <1>13, <1>14 DEF IsSum
  <2>3. \A d \in 0..docs - 1 : bare[d] = Base(n)
    BY <1>1 DEF bare
  <2> HIDE DEF c, b
  <2>4. Balance(bare, 0) /\ Full(bare, 0) /\ Lost(bare, 0) /\ Reached(bare, 0)
    BY <1>14, <2>1, <2>2, <2>3
  <2> QED  BY <1>7, <2>4
<1> HIDE DEF c, b, Told
<1>16. ASSUME NEW i \in 0..docs - 1, Passed(f[i], i)
       PROVE  Passed(f[i + 1], i + 1)
  <2> DEFINE g == f[i]
             next == f[i + 1]
             l == graph[i]
             r == rank[i]
             s == sum[i]
             t == Total(g, docs)
             t1 == Total(next, docs)
  <2>1. i + 1 \in 1..docs /\ (i + 1) - 1 = i /\ i \in 0..docs /\ i \in Nat
    OBVIOUS
  <2>2. g \in States /\ next \in States /\ Passed(g, i)
    BY <1>6, <1>16, <2>1
  <2>3. next = From(g, i + 1) /\ r \in Nat \ {0}
    BY <1>2, <1>7, <2>1
  <2>4. s \in Nat /\ sum[i + 1] = s + r /\ sum[i + 1] \in Nat
    BY <1>13, <1>14, <2>1 DEF IsSum
  <2>5. Told(i + 1) = {d \in 0..docs - 1 : d \in Told(i) \/ d \in Range(l)}
    <3>1. 0..(i + 1) - 1 = 0..i - 1 \cup {i}
      BY <2>1
    <3> QED  BY <3>1 DEF Told
  <2>6. \A j \in 0..(i + 1) - 1 : j \in 0..i - 1 \/ j = i
    BY <2>1
  <2>7. c * sum[i + 1] = c * s + c * r /\ c * s \in Nat /\ c * r \in Nat \ {0}
    <3> HIDE DEF r, s
    <3>1. c \in Nat \ {0}
      BY <1>14
    <3>2. c * (s + r) = c * s + c * r /\ c * s \in Nat /\ c * r \in Nat \ {0}
      BY <2>3, <2>4, <3>1
    <3> QED  BY <2>4, <3>2
  <2>8. i \in 0..(i + 1) - 1 /\ \A j \in 0..i - 1 : j \in 0..(i + 1) - 1
    BY <2>1
  <2>9. CASE l = << >>
    <3>1. next = g
      BY <2>1, <2>3, <2>9 DEF From
    <3>2. Range(l) = {}
      BY <2>9 DEF Range
    <3>3. Reached(next, i + 1)
      BY <2>2, <2>5, <3>1, <3>2
    <3>4. t \in Nat /\ t <= b + c * s
      BY <2>2
    <3>5. t < b + (c * s + c * r)
      <4> DEFINE cs == c * s
                 cr == c * r
      <4>1. cs \in Nat /\ cr \in Nat \ {0} /\ b \in Nat /\ t \in Nat /\ t <= b + cs
        BY <1>14, <2>7, <3>4
      <4> HIDE DEF t, cs, cr
      <4>2. t < b + (cs + cr)
        BY <4>1
      <4> QED  BY <4>2 DEF cs, cr
    <3>6. Total(next, docs) < b + c * sum[i + 1]
      BY <2>7, <3>1, <3>5
    <3>7. Full(next, i + 1)
      BY <2>8, <2>9
    <3>8. Balance(next, i + 1)
      <4>1. c * sum[i + 1] \in Nat
        BY <2>7
      <4> QED  BY <1>14, <3>1, <3>4, <3>6, <4>1
    <3> QED  BY <3>3, <3>6, <3>7, <3>8
  <2>10. CASE l # << >>
    <3>1. next = Spread(g, l, Share(r, Len(l)))
      BY <2>1, <2>3, <2>10 DEF From
    <3>2. /\ t1 = t + c * r
          /\ \A d \in 0..docs - 1 : IF d \in Range(l) THEN next[d] > g[d] ELSE next[d] = g[d]
      <4>1. Hands(g, l, 17 * OutDegrees * r, docs, next)
        BY <2>2, <2>3, <2>10, <3>1, PageShares DEF States
      <4> QED  BY <4>1 DEF Hands, c
    <3>3. Reached(next, i + 1)
      <4> SUFFICES ASSUME NEW d \in 0..docs - 1
                   PROVE  IF d \in Told(i + 1) THEN next[d] > Base(n) ELSE next[d] = Base(n)
        OBVIOUS
      <4>1. g[d] \in Nat /\ next[d] \in Nat /\ Base(n) \in Nat
        BY <1>4, <2>2 DEF States, Ranks
      <4>2. IF d \in Range(l) THEN next[d] > g[d] ELSE next[d] = g[d]
        BY <3>2
      <4>3. IF d \in Told(i) THEN g[d] > Base(n) ELSE g[d] = Base(n)
        BY <2>2
      <4>4. d \in Told(i + 1) <=> d \in Told(i) \/ d \in Range(l)
        BY <2>5
      <4> QED  BY <4>1, <4>2, <4>3, <4>4
    <3> DEFINE cs == c * s
               cr == c * r
               cs1 == c * sum[i + 1]
    <3>4. /\ cs1 = cs + cr /\ {cs, cr, b} \subseteq Nat
          /\ t1 = t + cr /\ t \in Nat /\ t <= b + cs
      BY <1>14, <2>2, <2>7, <3>2
    <3> HIDE DEF t, t1, cs, cr, cs1
    <3>5. t1 \in Nat /\ t1 <= b + cs1
      BY <3>4
    <3>6. (t = b + cs => t1 = b + cs1) /\ (t < b + cs => t1 < b + cs1)
      BY <3>4
    <3>7. Balance(next, i + 1)
      BY <3>5 DEF t1, cs1
    <3>8. Full(next, i + 1)
      <4> HAVE \A j \in 0..(i + 1) - 1 : graph[j] # << >>
      <4>1. \A j \in 0..i - 1 : graph[j] # << >>
        BY <2>8
      <4>2. t = b + cs
        BY <2>2, <4>1 DEF t, cs
      <4> QED  BY <3>6, <4>2 DEF t1, cs1
    <3>9. Lost(next, i + 1)
      <4> HAVE \E j \in 0..(i + 1) - 1 : graph[j] = << >>
      <4>1. \E j \in 0..i - 1 : graph[j] = << >>
        BY <2>6, <2>10
      <4>2. t < b + cs
        BY <2>2, <4>1 DEF t, cs
      <4> QED  BY <3>6, <4>2 DEF t1, cs1
    <3> QED  BY <3>3, <3>7, <3>8, <3>9
  <2> QED  BY <2>9, <2>10
<1> HIDE DEF Passed
<1>17. \A i \in Nat : i \in T => i + 1 \in T
  <2> SUFFICES ASSUME NEW i \in Nat, i \in T, i + 1 <= docs PROVE Passed(f[i + 1], i + 1)
    OBVIOUS
  <2>1. i \in 0..docs - 1 /\ Passed(f[i], i)
    OBVIOUS
  <2> QED  BY <1>16, <2>1
<1>18. Passed(f[docs], docs)
  <2>1. docs \in T
    <3> HIDE DEF T
    <3> QED  BY <1>15, <1>17, Induction
  <2> QED  BY <2>1
<1>19. Round(graph, rank, n) = f[docs] /\ f[docs] \in Ranks(docs)
  BY <1>6, <1>10, <1>12 DEF States
<1>20. \A d \in 0..docs - 1 : Linked(graph, d) <=> d \in Told(docs)
  BY <1>1 DEF Linked, Told
<1>21. Total(rank, docs) = sum[docs]
  BY <1>13
<1> QED  BY <1>18, <1>19, <1>20, <1>21 DEF Passes, Passed, c, b

\* All rounds together, for graphs of any shape.
SharedOut(graph, docs, rank) ==
  /\ rank \in Ranks(docs)
  /\ Total(rank, docs) <= Whole(docs, Rounds)
  /\ docs # 0 => (Total(rank, docs) = Whole(docs, Rounds)
                    <=> \A i \in 0..docs - 1 : graph[i] # << >>)
  /\ \A d \in 0..docs - 1 :
       IF Linked(graph, d) THEN rank[d] > Base(Rounds) ELSE rank[d] = Base(Rounds)

LEMMA RanksShareOut ==
  ASSUME NEW docs \in Nat, NEW graph \in Graphs(docs), SharesEvenly(graph)
  PROVE  SharedOut(graph, docs, Compute(graph))
<1> DEFINE States == [0..docs - 1 -> Nat \ {0}]
           even == [id \in DOMAIN graph |-> 1]
           step == [g \in States |-> [n \in 1..Rounds |-> Round(graph, g, n)]]
           IsRank(g) == g = [n \in 0..Rounds |->
                               IF n = 0 THEN even ELSE Round(graph, g[n - 1], n)]
           F == CHOOSE g : IsRank(g)
<1>1. Rounds \in Nat /\ Rounds \in 1..Rounds /\ DOMAIN graph = 0..docs - 1
  BY PageRankAssumption DEF Graphs
<1>2. ASSUME NEW g \in States, NEW n \in 1..Rounds
      PROVE  Passes(graph, g, docs, n, Round(graph, g, n)) /\ Round(graph, g, n) \in States
  <2> DEFINE next == Round(graph, g, n)
  <2>1. g \in Ranks(docs) /\ \A d \in 0..docs - 1 : g[d] > 0
    BY DEF Ranks
  <2>2. Passes(graph, g, docs, n, next)
    BY <2>1, RoundPasses
  <2>3. Base(n) \in Nat \ {0}
    BY Bases
  <2> HIDE DEF next
  <2>4. next \in Ranks(docs)
        /\ \A d \in 0..docs - 1 : next[d] = Base(n) \/ next[d] > Base(n)
    BY <2>2 DEF Passes
  <2>5. \A d \in 0..docs - 1 : next[d] \in Nat \ {0}
    BY <2>3, <2>4 DEF Ranks
  <2>6. next \in States
    BY <2>4, <2>5 DEF Ranks
  <2> QED  BY <2>2, <2>6 DEF next
<1>3. even \in States
  BY <1>1
<1> HIDE DEF even
<1>4. /\ step \in [States -> [1..Rounds -> States]]
      /\ \A g \in States : \A n \in 1..Rounds : step[g][n] = Round(graph, g, n)
  BY <1>2
<1> HIDE DEF step, States
<1>5. PICK f \in [0..Rounds -> States] : IsRecursive(f, even, Rounds, step)
  BY <1>1, <1>3, <1>4, Recursion
<1>6. f[0] = even /\ \A n \in 1..Rounds : f[n] = Round(graph, f[n - 1], n)
  <2>1. \A n \in 1..Rounds : f[n - 1] \in States /\ f[n] = step[f[n - 1]][n]
    BY <1>1, <1>5 DEF IsRecursive
  <2> QED  BY <1>4, <1>5, <2>1 DEF IsRecursive
<1>7. f = [n \in 0..Rounds |-> IF n = 0 THEN even ELSE Round(graph, f[n - 1], n)]
  BY <1>5, <1>6
<1>8. IsRank(F)
  <2> HIDE DEF IsRank
  <2>1. IsRank(f)
    BY <1>7 DEF IsRank
  <2> QED  BY <2>1
<1>9. Compute(graph) = F[Rounds]
  BY DEF Compute, even
<1> HIDE DEF F
<1>10. F[0] = even /\ \A n \in 1..Rounds : F[n] = Round(graph, F[n - 1], n)
  <2>1. F = [n \in 0..Rounds |-> IF n = 0 THEN even ELSE Round(graph, F[n - 1], n)]
    BY <1>8
  <2>2. ASSUME NEW n \in 1..Rounds PROVE F[n] = Round(graph, F[n - 1], n)
    <3>1. n \in 0..Rounds /\ n # 0
      BY <1>1
    <3> QED  BY <2>1, <3>1, Zenon
  <2>3. F[0] = even
    <3>1. 0 \in 0..Rounds
      BY <1>1
    <3> QED  BY <2>1, <3>1, Zenon
  <2> QED  BY <2>2, <2>3
<1>11. \A n \in 0..Rounds : F[n] = f[n]
  <2>1. Alike(F, f, Rounds)
    BY <1>6, <1>10 DEF Alike
  <2> QED  BY <1>1, <2>1, SameRecursion
<1> DEFINE AllLink == \A i \in 0..docs - 1 : graph[i] # << >>
           Kept(n) == /\ Total(f[n], docs) \in Nat
                      /\ Total(f[n], docs) <= docs * Unit[n]
                      /\ AllLink => Total(f[n], docs) = docs * Unit[n]
           T == {n \in Nat : n <= Rounds => Kept(n)}
<1> HIDE DEF AllLink
<1>12. ASSUME NEW n \in 0..Rounds PROVE f[n] \in Ranks(docs) /\ Total(f[n], docs) \in Nat
  <2>1. f[n] \in Ranks(docs)
    BY <1>5 DEF States, Ranks
  <2>2. PICK sum \in [0..docs -> Nat] : Total(f[n], docs) = sum[docs]
    BY <2>1, Totals DEF Ranks
  <2> QED  BY <2>1, <2>2
<1>13. 0 \in T
  <2>1. Total(even, docs) = docs * 1
    BY <1>1, TotalOfEqual DEF even
  <2> QED  BY <1>6, <2>1, Units
<1>14. ASSUME NEW n \in 1..Rounds, Kept(n - 1)
       PROVE  /\ Kept(n)
              /\ docs # 0 /\ ~AllLink => Total(f[n], docs) < docs * Unit[n]
  <2> DEFINE t == Total(f[n - 1], docs)
             t1 == Total(f[n], docs)
             c == 17 * OutDegrees
             w == docs * Unit[n - 1]
  <2>1. n - 1 \in 0..Rounds /\ n \in 0..Rounds
    BY <1>1
  <2>2. /\ Passes(graph, f[n - 1], docs, n, f[n])
        /\ t \in Nat /\ t1 \in Nat /\ t <= w /\ (AllLink => t = w)
    <3>1. f[n - 1] \in States /\ f[n] = Round(graph, f[n - 1], n)
      BY <1>5, <1>6, <2>1
    <3>2. Passes(graph, f[n - 1], docs, n, f[n])
      BY <1>2, <3>1
    <3> QED  BY <1>12, <1>14, <2>1, <3>2
  <2>3. Unit[n - 1] \in Nat \ {0} /\ Unit[n] = Scale * Unit[n - 1] /\ OutDegrees \in Nat \ {0}
    BY <2>1, Units, PageRankAssumption
  <2> DEFINE u == Unit[n - 1]
             o == OutDegrees
  <2>4. docs * Base(n) + c * w = docs * Unit[n]
    <3> HIDE DEF u, o
    <3>1. u \in Nat /\ o \in Nat
      BY <2>3 DEF u, o
    <3>2. docs * (3 * o * u) + (17 * o) * (docs * u) = docs * ((20 * o) * u)
      BY <3>1
    <3> QED  BY <2>3, <3>2 DEF u, o, Base, Scale
  <2>5. /\ t1 <= docs * Base(n) + c * t
        /\ (AllLink => t1 = docs * Base(n) + c * t)
        /\ (~AllLink => t1 < docs * Base(n) + c * t)
    BY <2>2 DEF Passes, AllLink
  <2>6. c \in Nat \ {0} /\ w \in Nat /\ docs * Base(n) \in Nat
    <3>1. docs * Base(n) \in Nat
      BY Bases
    <3> QED  BY <2>3, <3>1
  <2> HIDE DEF t, t1, c, w, u, o
  <2>7. c * t <= c * w /\ c * t \in Nat /\ c * w \in Nat
    BY <2>2, <2>6
  <2> DEFINE b == docs * Base(n)
             ct == c * t
             cw == c * w
             all == docs * Unit[n]
  <2>8. /\ {b, ct, cw, t1} \subseteq Nat /\ ct <= cw /\ b + cw = all
        /\ (AllLink => ct = cw) /\ t1 <= b + ct /\ (AllLink => t1 = b + ct)
        /\ (~AllLink => t1 < b + ct)
    BY <2>2, <2>4, <2>5, <2>6, <2>7
  <2> HIDE DEF b, ct, cw, all
  <2>9. t1 <= all /\ (AllLink => t1 = all) /\ (~AllLink => t1 < all)
    BY <2>8
  <2> QED  BY <2>8, <2>9 DEF t1, all
<1>15. ASSUME NEW n \in Nat, n \in T PROVE n + 1 \in T
  <2> SUFFICES ASSUME n + 1 <= Rounds PROVE Kept(n + 1)
    OBVIOUS
  <2>1. n + 1 \in 1..Rounds /\ (n + 1) - 1 = n /\ n <= Rounds
    BY <1>1
  <2>2. Kept((n + 1) - 1)
    BY <1>15, <2>1
  <2> HIDE DEF Kept
  <2> QED  BY <1>14, <2>1, <2>2
<1>16. \A n \in 0..Rounds : Kept(n)
  <2>1. Nat \subseteq T
    <3> HIDE DEF T
    <3> QED  BY <1>13, <1>15, Induction
  <2> QED  BY <2>1
<1>17. /\ Kept(Rounds)
       /\ docs # 0 /\ ~AllLink => Total(f[Rounds], docs) < docs * Unit[Rounds]
  <2>1. Rounds - 1 \in 0..Rounds
    BY <1>1
  <2> HIDE DEF Kept
  <2>2. Kept(Rounds - 1)
    BY <1>16, <2>1
  <2> QED  BY <1>1, <1>14, <2>2
<1>18. Compute(graph) = f[Rounds] /\ f[Rounds] \in Ranks(docs)
  BY <1>1, <1>9, <1>11, <1>12
<1>19. Passes(graph, f[Rounds - 1], docs, Rounds, f[Rounds])
  <2>1. Rounds - 1 \in 0..Rounds
    BY <1>1
  <2>2. f[Rounds - 1] \in States /\ f[Rounds] = Round(graph, f[Rounds - 1], Rounds)
    BY <1>1, <1>5, <1>6, <2>1
  <2> QED  BY <1>1, <1>2, <2>2
<1>20. docs * Unit[Rounds] \in Nat
  BY <1>1, Units
<1> DEFINE t == Total(f[Rounds], docs)
           w == docs * Unit[Rounds]
<1>21. t <= w /\ (docs # 0 => (t = w <=> AllLink))
  <2>1. t \in Nat /\ t <= w /\ (AllLink => t = w) /\ (docs # 0 /\ ~AllLink => t < w)
    BY <1>17
  <2> HIDE DEF t, w
  <2> QED  BY <1>20, <2>1 DEF w
<1> HIDE DEF t, w
<1>22. \A d \in 0..docs - 1 :
         IF Linked(graph, d) THEN f[Rounds][d] > Base(Rounds) ELSE f[Rounds][d] = Base(Rounds)
  BY <1>19 DEF Passes
<1> QED  BY <1>18, <1>21, <1>22 DEF SharedOut, Whole, AllLink, t, w

-----------------------------------------------------------------------------
(* The ranks of the pages indexed.                                         *)

LeadsInto(title_of, ids) == \A t \in DOMAIN title_of : title_of[t] \in ids

Gathers(title_of, links, g) ==
  g[0] = << >> /\ \A k \in 1..Len(links) : g[k] = WithLink(title_of, g[k - 1], links[k])

LEMMA NeighborsOneByOne ==
  ASSUME NEW Ids, NEW title_of, LeadsInto(title_of, Ids),
         NEW X, NEW links \in Seq(X)
  PROVE  \E g \in [0..Len(links) -> Seq(Ids)] :
           Gathers(title_of, links, g) /\ Neighbors(title_of, links) = g[Len(links)]
<1> DEFINE States == Seq(Ids)
           step == [g \in States |-> [k \in 1..Len(links) |-> WithLink(title_of, g, links[k])]]
           IsRead(g) == g = [k \in 0..Len(links) |->
                               IF k = 0 THEN << >> ELSE WithLink(title_of, g[k - 1], links[k])]
           F == CHOOSE g : IsRead(g)
           start == << >>
<1>0. Len(links) \in Nat /\ start \in States
  OBVIOUS
<1>1. \A g \in States : \A k \in 1..Len(links) : WithLink(title_of, g, links[k]) \in States
  BY DEF WithLink, LeadsInto
<1>2. /\ step \in [States -> [1..Len(links) -> States]]
      /\ \A g \in States : \A k \in 1..Len(links) : step[g][k] = WithLink(title_of, g, links[k])
  BY <1>1
<1> HIDE DEF step, States, start
<1>3. PICK f \in [0..Len(links) -> States] : IsRecursive(f, start, Len(links), step)
  BY <1>0, <1>2, Recursion
<1>4. f[0] = << >> /\ \A k \in 1..Len(links) : f[k] = WithLink(title_of, f[k - 1], links[k])
  <2>1. \A k \in 1..Len(links) : f[k - 1] \in States /\ f[k] = step[f[k - 1]][k]
    BY <1>0, <1>3 DEF IsRecursive
  <2> QED  BY <1>2, <1>3, <2>1 DEF IsRecursive, start
<1>5. f = [k \in 0..Len(links) |->
             IF k = 0 THEN << >> ELSE WithLink(title_of, f[k - 1], links[k])]
  BY <1>3, <1>4
<1>6. IsRead(F)
  <2> HIDE DEF IsRead
  <2>1. IsRead(f)
    BY <1>5 DEF IsRead
  <2> QED  BY <2>1
<1>7. Neighbors(title_of, links) = F[Len(links)]
  BY DEF Neighbors, Reading
<1> HIDE DEF F
<1>8. F[0] = << >> /\ \A k \in 1..Len(links) : F[k] = WithLink(title_of, F[k - 1], links[k])
  <2>1. F = [k \in 0..Len(links) |->
              IF k = 0 THEN << >> ELSE WithLink(title_of, F[k - 1], links[k])]
    BY <1>6
  <2>2. ASSUME NEW k \in 1..Len(links) PROVE F[k] = WithLink(title_of, F[k - 1], links[k])
    <3>1. k \in 0..Len(links) /\ k # 0
      BY <1>0
    <3> QED  BY <2>1, <3>1, Zenon
  <2>3. F[0] = << >>
    <3>1. 0 \in 0..Len(links)
      BY <1>0
    <3> QED  BY <2>1, <3>1, Zenon
  <2> QED  BY <2>2, <2>3
<1>9. \A k \in 0..Len(links) : F[k] = f[k]
  <2>1. Alike(F, f, Len(links))
    BY <1>4, <1>8 DEF Alike
  <2> QED  BY <1>0, <2>1, SameRecursion
<1>10. Len(links) \in 0..Len(links)
  BY <1>0
<1> QED  BY <1>3, <1>4, <1>7, <1>9, <1>10 DEF Gathers, States

LEMMA NeighborsAreFew ==
  ASSUME NEW Ids, NEW title_of, LeadsInto(title_of, Ids),
         NEW X, NEW links \in Seq(X)
  PROVE  /\ Neighbors(title_of, links) \in Seq(Ids)
         /\ Len(Neighbors(title_of, links)) <= Len(links)
<1>1. PICK g \in [0..Len(links) -> Seq(Ids)] :
        Gathers(title_of, links, g) /\ Neighbors(title_of, links) = g[Len(links)]
  BY NeighborsOneByOne
<1>0. Len(links) \in Nat
  OBVIOUS
<1> DEFINE T == {k \in Nat : k <= Len(links) => Len(g[k]) <= k}
<1>2. 0 \in T
  BY <1>1 DEF Gathers
<1>3. ASSUME NEW k \in Nat, k \in T, k + 1 <= Len(links) PROVE Len(g[k + 1]) <= k + 1
  <2>1. k + 1 \in 1..Len(links) /\ (k + 1) - 1 = k /\ k \in 0..Len(links)
    BY <1>0, <1>3
  <2>2. g[k + 1] = WithLink(title_of, g[k], links[k + 1])
    BY <1>1, <2>1 DEF Gathers
  <2> DEFINE before == g[k]
  <2>3. before \in Seq(Ids) /\ Len(before) <= k
    BY <1>0, <1>3, <2>1
  <2> HIDE DEF before
  <2>4. Len(WithLink(title_of, before, links[k + 1])) <= k + 1
    BY <2>3 DEF WithLink
  <2> QED  BY <2>2, <2>4 DEF before
<1>4. \A k \in Nat : k \in T => k + 1 \in T
  BY <1>3
<1>5. Len(links) \in T
  <2> HIDE DEF T
  <2> QED  BY <1>0, <1>2, <1>4, Induction
<1> QED  BY <1>0, <1>1, <1>5

\* Every number of links that a page of the dumps may lead with divides what the
\* ranks are divided into.
LinksHaveShares ==
  \A d \in Dumps : \A i \in 1..Len(d) :
    \A n \in 1..Len(CleanOf(d[i]).internal_links) : OutDegrees % n = 0

LEMMA GraphHasShares ==
  ASSUME LinksHaveShares, Inv, dump \in Dumps
  PROVE  /\ GraphIndexed \in Graphs(doc_id) /\ SharesEvenly(GraphIndexed)
         /\ doc_id \in Nat /\ DOMAIN store = 0..doc_id - 1
<1> DEFINE LinksOf(p) == CleanOf(p).internal_links
           S == {p \in Pages : LinksOf(p) \in Seq(Seq(Chars))
                               /\ \A n \in 1..Len(LinksOf(p)) : OutDegrees % n = 0}
<1>1. \A i \in 1..Len(dump) : dump[i] \in S
  <2>1. dump \in Seq(Pages)
    BY DEF Inv
  <2> QED  BY <2>1, TextsOfPages DEF LinksHaveShares
<1>2. Indexable \in Seq(S) /\ doc_id \in Nat /\ doc_id <= Len(Indexable)
  <2> HIDE DEF S
  <2> QED  BY <1>1, PagesOfSort
<1>3. TypeOK /\ PagesAsStripped
  BY TypesFollow, PagesFollow
<1>4. /\ DOMAIN store = 0..doc_id - 1 /\ Len(titles_by_id) = doc_id
      /\ LeadsInto(title_to_id, 0..doc_id - 1)
  BY <1>3 DEF TypeOK, LeadsInto
<1>5. ASSUME NEW id \in 0..doc_id - 1
      PROVE  /\ GraphIndexed[id] \in Seq(0..doc_id - 1)
             /\ GraphIndexed[id] # << >> =>
                  Len(GraphIndexed[id]) * (OutDegrees \div Len(GraphIndexed[id])) = OutDegrees
  <2> DEFINE links == raw_links[id + 1]
             list == GraphIndexed[id]
  <2>1. id + 1 \in 1..doc_id
    BY <1>2
  <2>2. Indexable[id + 1] \in S
    <3> HIDE DEF S
    <3> QED  BY <1>2, <2>1
  <2>3. links \in Seq(Seq(Chars)) /\ \A n \in 1..Len(links) : OutDegrees % n = 0
    BY <1>3, <2>1, <2>2 DEF PagesAsStripped
  <2>4. list = Neighbors(title_to_id, links)
    BY <1>4 DEF GraphIndexed, BuildAdjacencyList
  <2> HIDE DEF links, list
  <2>5. list \in Seq(0..doc_id - 1) /\ Len(list) <= Len(links)
    BY <1>4, <2>3, <2>4, NeighborsAreFew
  <2>6. ASSUME list # << >> PROVE Len(list) * (OutDegrees \div Len(list)) = OutDegrees
    <3> DEFINE n == Len(list)
    <3>1. n \in Nat \ {0} /\ n \in 1..Len(links) /\ OutDegrees \in Nat
      BY <2>3, <2>5, <2>6, PageRankAssumption
    <3>2. OutDegrees % n = 0
      BY <2>3, <3>1
    <3> HIDE DEF n
    <3>3. OutDegrees = n * (OutDegrees \div n) + (OutDegrees % n)
      BY <3>1
    <3>4. n * (OutDegrees \div n) = OutDegrees
      BY <3>1, <3>2, <3>3
    <3> QED  BY <3>4 DEF n
  <2> QED  BY <2>5, <2>6 DEF list
<1>6. DOMAIN GraphIndexed = 0..doc_id - 1 /\ GraphIndexed = [id \in 0..doc_id - 1 |-> GraphIndexed[id]]
  BY <1>4 DEF GraphIndexed, BuildAdjacencyList
<1> DEFINE graph == GraphIndexed
<1> HIDE DEF graph
<1>7. graph \in Graphs(doc_id) /\ SharesEvenly(graph)
  BY <1>5, <1>6 DEF Graphs, SharesEvenly, graph
<1> QED  BY <1>2, <1>4, <1>7 DEF graph

\* The ranks that the store ends with are those of the graph of all pages.
RanksOfGraph ==
  status = "done" =>
    \A id \in DOMAIN store : store[id].pagerank = Compute(GraphIndexed)[id]

LEMMA RanksStep ==
  ASSUME Inv, RanksOfGraph, [Next]_vars
  PROVE  RanksOfGraph'
<1>1. CASE RankPages
  <2> DEFINE rank == Compute(GraphIndexed)
  <2>1. GraphIndexed' = GraphIndexed
    BY <1>1 DEF RankPages, GraphIndexed
  <2>2. ASSUME NEW id \in DOMAIN store' PROVE store'[id].pagerank = rank[id]
    <3>1. store' = [d \in DOMAIN store |-> [store[d] EXCEPT !.pagerank = rank[d]]]
      BY <1>1 DEF RankPages
    <3>2. id \in DOMAIN store /\ store'[id] = [store[id] EXCEPT !.pagerank = rank[id]]
      <4> HIDE DEF rank
      <4> QED  BY <2>2, <3>1
    <3>3. "pagerank" \in DOMAIN store[id]
      <4>1. PagesAsStripped /\ TypeOK
        BY PagesFollow, TypesFollow
      <4>2. id + 1 \in 1..doc_id /\ (id + 1) - 1 = id
        BY <3>2, <4>1 DEF TypeOK
      <4>3. PICK r : store[id] = Document(Indexable[id + 1], r)
        BY <4>1, <4>2 DEF PagesAsStripped
      <4> QED  BY <4>3 DEF Document
    <3> HIDE DEF rank
    <3> QED  BY <3>2, <3>3
  <2> QED  BY <2>1, <2>2 DEF RanksOfGraph
<1>2. CASE ~RankPages /\ status' = "done"
  <2>1. status = "done" /\ UNCHANGED vars
    BY <1>2 DEF Next, Parse, ParseFails, ParseEnds, SaveGraph, Done, vars
  <2> QED  BY <2>1 DEF vars, RanksOfGraph, GraphIndexed
<1> QED  BY <1>1, <1>2 DEF RanksOfGraph

\* The ranks that RankPages writes to the store are those of the graph in memory, and
\* nothing changes either after that (applyPageRankScores in main.cpp).
THEOREM RanksFollowGraph == Spec => []RanksOfGraph
<1>1. Init => RanksOfGraph
  BY DEF Init, RanksOfGraph
<1>2. Inv /\ RanksOfGraph /\ [Next]_vars => RanksOfGraph'
  BY RanksStep
<1> QED  BY <1>1, <1>2, ParserFollowsDump, PTL DEF Spec

LEMMA RanksFollow ==
  ASSUME LinksHaveShares, Inv, dump \in Dumps, RanksOfGraph
  PROVE  RanksAddUp
<1> SUFFICES ASSUME status = "done" PROVE RanksAddUp
  BY DEF RanksAddUp
<1> DEFINE graph == GraphIndexed
           rank == Compute(graph)
           kept == [id \in DOMAIN store |-> store[id].pagerank]
<1>1. /\ graph \in Graphs(doc_id) /\ SharesEvenly(graph)
      /\ doc_id \in Nat /\ DOMAIN store = 0..doc_id - 1
  BY GraphHasShares
<1>2. SharedOut(graph, doc_id, rank)
  BY <1>1, RanksShareOut
<1>3. \A id \in 0..doc_id - 1 : store[id].pagerank = rank[id]
  BY <1>1 DEF RanksOfGraph
<1> HIDE DEF rank
<1>4. kept = rank
  BY <1>1, <1>2, <1>3 DEF SharedOut, Ranks
<1>5. DOMAIN graph = 0..doc_id - 1 /\ (0..doc_id - 1 # {} => doc_id # 0)
  BY <1>1 DEF Graphs
<1> HIDE DEF graph, kept
<1> DEFINE total == Total(kept, doc_id)
           whole == Whole(doc_id, Rounds)
           ids == DOMAIN store
           linked(id) == \E from \in ids : id \in Range(GraphIndexed[from])
<1>6. total <= whole
  BY <1>2, <1>4 DEF SharedOut
<1>7. ids # {} => (total = whole <=> \A id \in ids : GraphIndexed[id] # << >>)
  BY <1>1, <1>2, <1>4, <1>5 DEF SharedOut, graph
<1>8. \A id \in ids : IF linked(id) THEN store[id].pagerank > Base(Rounds)
                      ELSE store[id].pagerank = Base(Rounds)
  BY <1>1, <1>2, <1>3, <1>5 DEF SharedOut, Linked, graph
<1> HIDE DEF total, whole
<1> QED  BY <1>6, <1>7, <1>8 DEF RanksAddUp, total, whole, kept

\* The ranks share out one whole among the pages indexed, of which a page without
\* links loses its part, and a page is above the base exactly if one links to it
\* (PageRank::compute and its call in main.cpp).
THEOREM RanksAlwaysAddUp ==
  ASSUME LinksHaveShares
  PROVE  Spec => []RanksAddUp
<1>1. Inv /\ dump \in Dumps /\ RanksOfGraph => RanksAddUp
  BY RanksFollow
<1> QED  BY <1>1, ParserFollowsDump, OneDump, RanksFollowGraph, PTL

-----------------------------------------------------------------------------
(* Snippets.                                                               *)

\* The tokenizer finds the words that a reader sees, in the pages of the dumps that
\* have no broken markup and no link inside of another.
WordsAreRead ==
  \A d \in Dumps : \A i \in 1..Len(d) :
    Readable(d[i]) /\ IsComplete(d[i]) => TokensOf(d[i]) = d[i].words

\* Reading on takes back no word.
LEMMA TokensStay ==
  ASSUME NEW C, NEW t \in Seq(C), NEW f \in [0..Len(t) -> Tokenizing], IsTokenizing(f, t),
         NEW m \in 0..Len(t)
  PROVE  Begins(f[m].tokens, Flushed(f[Len(t)]).tokens)
<1>0. Len(t) \in Nat /\ \A i \in 0..Len(t) : f[i] \in Tokenizing
  OBVIOUS
<1> DEFINE T == {n \in Nat : m + n <= Len(t) => Begins(f[m].tokens, f[m + n].tokens)}
<1>1. \A r, s, u \in Tokenizing :
        Begins(r.tokens, s.tokens) /\ Begins(s.tokens, u.tokens) => Begins(r.tokens, u.tokens)
  BY DEF Begins, Tokenizing
<1>2. 0 \in T
  <2>1. f[m].tokens \in Seq(StemmedWords)
    BY <1>0 DEF Tokenizing
  <2>2. m + 0 = m
    OBVIOUS
  <2> QED  BY <2>1, <2>2 DEF Begins
<1>3. ASSUME NEW n \in Nat, n \in T, m + (n + 1) <= Len(t)
      PROVE  Begins(f[m].tokens, f[m + (n + 1)].tokens)
  <2>1. /\ m + n \in 0..Len(t) /\ m + (n + 1) \in 1..Len(t) /\ (m + (n + 1)) - 1 = m + n
        /\ m + (n + 1) \in 0..Len(t)
    BY <1>0, <1>3
  <2>2. f[m + (n + 1)] = TokenizeChar(f[m + n], t[m + (n + 1)])
    BY <2>1 DEF IsTokenizing
  <2>3. Begins(f[m + n].tokens, f[m + (n + 1)].tokens)
    BY <1>0, <2>1, <2>2, OneCharacter
  <2>4. Begins(f[m].tokens, f[m + n].tokens)
    BY <1>0, <1>3, <2>1
  <2> QED  BY <1>0, <1>1, <2>1, <2>3, <2>4
<1>4. \A n \in Nat : n \in T => n + 1 \in T
  BY <1>3
<1>5. Len(t) - m \in T /\ m + (Len(t) - m) = Len(t) /\ Len(t) - m \in Nat
  <2>1. Nat \subseteq T
    <3> HIDE DEF T
    <3> QED  BY <1>2, <1>4, Induction
  <2>2. m + (Len(t) - m) = Len(t) /\ Len(t) - m \in Nat
    BY <1>0
  <2> HIDE DEF T
  <2> QED  BY <2>1, <2>2
<1>6. Begins(f[m].tokens, f[Len(t)].tokens)
  BY <1>0, <1>5
<1>7. Len(t) \in 0..Len(t)
  BY <1>0
<1> QED  BY <1>0, <1>1, <1>6, <1>7, FlushingAdds

\* A text that is cut at the end of a word begins with the same words.
LEMMA CutBetweenWords ==
  ASSUME NEW t \in Seq(Chars), NEW m \in Nat, m + 1 \in 1..Len(t), t[m + 1] \notin CharAlnum
  PROVE  IsPrefix(Tokenize(Append(SubSeq(t, 1, m), Ellipsis)), Tokenize(t))
<1> DEFINE C == Chars \cup {Ellipsis}
           s == Append(SubSeq(t, 1, m), Ellipsis)
<1>1. /\ s \in Seq(C) /\ Len(s) = m + 1 /\ Len(t) \in Nat /\ m + 1 <= Len(t)
      /\ s[m + 1] = Ellipsis /\ \A i \in 1..m : s[i] = t[i]
  <2> DEFINE u == SubSeq(t, 1, m)
  <2>1. u \in Seq(C) /\ Len(u) = m /\ \A i \in 1..m : u[i] = t[i]
    OBVIOUS
  <2>2. Ellipsis \in C
    OBVIOUS
  <2> HIDE DEF u, C
  <2> QED  BY <2>1, <2>2, Appended DEF u
<1> HIDE DEF s, C
<1>2. PICK f \in [0..Len(t) -> Tokenizing] :
        IsTokenizing(f, t) /\ Tokenize(t) = Flushed(f[Len(t)]).tokens
  BY TokenizingOneByOne
<1>3. PICK g \in [0..Len(s) -> Tokenizing] :
        IsTokenizing(g, s) /\ Tokenize(s) = Flushed(g[Len(s)]).tokens
  BY <1>1, TokenizingOneByOne
<1>4. g[m] = f[m]
  <2>1. Alike(g, f, m)
    <3>1. \A i \in 1..m : i \in 1..Len(s) /\ i \in 1..Len(t)
      BY <1>1
    <3> QED  BY <1>1, <1>2, <1>3, <3>1 DEF Alike, IsTokenizing
  <2>2. m \in 0..m
    OBVIOUS
  <2> QED  BY <2>1, <2>2, SameRecursion
<1>5. f[m + 1] = Flushed(f[m]) /\ f[m] \in Tokenizing
  <2>1. (m + 1) - 1 = m /\ m \in 0..Len(t)
    BY <1>1
  <2>2. f[m + 1] = TokenizeChar(f[m], t[m + 1])
    BY <1>2, <2>1 DEF IsTokenizing
  <2> QED  BY <1>2, <2>1, <2>2 DEF TokenizeChar
<1>6. g[m + 1] = Flushed(f[m])
  <2>1. (m + 1) - 1 = m /\ m + 1 \in 1..Len(s)
    BY <1>1
  <2>2. g[m + 1] = TokenizeChar(g[m], Ellipsis)
    BY <1>1, <1>3, <2>1 DEF IsTokenizing
  <2>3. Ellipsis \notin CharAlnum
    BY IngestionAssumption
  <2> QED  BY <1>4, <2>2, <2>3 DEF TokenizeChar
<1>7. Tokenize(s) = f[m + 1].tokens
  <2>1. f[m + 1].current = << >>
    BY <1>5, FlushingAdds
  <2>2. Flushed(f[m + 1]).tokens = f[m + 1].tokens
    BY <2>1 DEF Flushed
  <2> QED  BY <1>1, <1>3, <1>5, <1>6, <2>2
<1>8. Begins(f[m + 1].tokens, Tokenize(t))
  <2>1. m + 1 \in 0..Len(t)
    BY <1>1
  <2> QED  BY <1>2, <2>1, TokensStay
<1>9. f[m + 1].tokens \in Seq(StemmedWords) /\ Tokenize(t) \in Seq(StemmedWords)
  <2>1. f[m + 1] \in Tokenizing /\ f[Len(t)] \in Tokenizing
    BY <1>1, <1>2
  <2> QED  BY <1>2, <2>1, FlushingAdds DEF Tokenizing
<1> QED  BY <1>7, <1>8, <1>9, BeginsIsPrefix DEF s

LEMMA BlanksTakenOff ==
  ASSUME NEW u \in Seq(Chars)
  PROVE  \E k \in 0..Len(u) :
           /\ WithoutLastBlanks(u) = SubSeq(u, 1, k)
           /\ \A i \in k + 1..Len(u) : IsBlank(u[i])
<1> DEFINE S == {i \in 1..Len(u) : ~IsBlank(u[i])}
           k == IF S # {} THEN Max(S) ELSE 0
<1>1. WithoutLastBlanks(u) = SubSeq(u, 1, k)
  BY DEF WithoutLastBlanks, SelectLastInSeq, IsBlank
<1>2. Len(u) \in Nat /\ S \in SUBSET (1..Len(u))
  OBVIOUS
<1>3. k \in 0..Len(u) /\ \A i \in k + 1..Len(u) : i \notin S
  <2> HIDE DEF S
  <2> QED  BY <1>2, LastPlace
<1>4. \A i \in k + 1..Len(u) : IsBlank(u[i])
  <2> HIDE DEF k
  <2>1. \A i \in k + 1..Len(u) : i \in 1..Len(u)
    BY <1>2, <1>3
  <2> QED  BY <1>3, <2>1
<1> HIDE DEF k
<1> QED  BY <1>1, <1>3, <1>4

LEMMA SnippetOfText ==
  ASSUME NEW t \in Seq(Chars)
  PROVE  /\ Len(SnippetFrom(t)) <= MaxSnippet + 1
         /\ " " \in Range(SnippetFrom(t)) \/ Len(SnippetFrom(t)) <= MaxSnippet
              => IsPrefix(Tokenize(SnippetFrom(t)), Tokenize(t))
<1> DEFINE n == Len(t)
           m == MaxSnippet
           S == {i \in 1..m + 1 : IsBlank(t[i])}
           space == IF S # {} THEN Max(S) ELSE 0
           cut == IF space = 0 THEN m ELSE space - 1
           u == SubSeq(t, 1, cut)
<1>1. n \in Nat /\ m \in Nat /\ ~IsBlank(Ellipsis) /\ \A c \in CharAlnum : ~IsBlank(c)
  <2>1. n \in Nat
    OBVIOUS
  <2>2. m \in Nat /\ ~IsBlank(Ellipsis)
    BY IngestionAssumption DEF IsBlank
  <2>3. \A c \in CharAlnum : ~IsBlank(c)
    BY TextAssumption DEF IsBlank
  <2> QED  BY <2>1, <2>2, <2>3
<1>2. SnippetFrom(t) = IF n <= m THEN t ELSE Append(WithoutLastBlanks(u), Ellipsis)
  BY DEF SnippetFrom, SelectLastInSubSeq, IsBlank
<1>3. CASE n <= m
  <2>1. SnippetFrom(t) = t
    BY <1>2, <1>3
  <2>2. Tokenize(t) \in Seq(StemmedWords)
    <3>1. PICK f \in [0..Len(t) -> Tokenizing] : Tokenize(t) = Flushed(f[Len(t)]).tokens
      BY TokenizingOneByOne
    <3>2. f[Len(t)] \in Tokenizing
      BY <1>1
    <3> QED  BY <3>1, <3>2, FlushingAdds DEF Tokenizing
  <2>3. IsPrefix(Tokenize(t), Tokenize(t))
    BY <2>2 DEF IsPrefix
  <2> QED  BY <1>1, <1>3, <2>1, <2>3
<1>4. CASE m < n
  <2>1. m + 1 \in Nat /\ S \in SUBSET (1..m + 1)
    BY <1>1
  <2>2. space \in 0..m + 1 /\ (space # 0 => space \in S)
        /\ \A i \in space + 1..m + 1 : i \notin S
    <3> HIDE DEF S
    <3> QED  BY <2>1, LastPlace
  <2> HIDE DEF space
  <2>3. cut \in 0..m /\ m <= n /\ cut <= n
    BY <1>1, <1>4, <2>2
  <2>4. u \in Seq(Chars) /\ Len(u) = cut /\ \A i \in 1..cut : u[i] = t[i]
    <3> HIDE DEF cut
    <3> QED  BY <1>1, <2>3
  <2> HIDE DEF u
  <2>5. PICK k \in 0..cut :
          /\ WithoutLastBlanks(u) = SubSeq(u, 1, k)
          /\ \A i \in k + 1..cut : IsBlank(u[i])
    BY <2>4, BlanksTakenOff
  <2> HIDE DEF cut
  <2>6. SubSeq(u, 1, k) = SubSeq(t, 1, k)
    <3>1. k \in Nat /\ k <= cut /\ \A i \in 1..k : i \in 1..cut
      BY <1>1, <2>3
    <3>2. SubSeq(u, 1, k) = [i \in 1..k |-> u[i]] /\ SubSeq(t, 1, k) = [i \in 1..k |-> t[i]]
      BY <1>1, <2>3, <2>4, <3>1
    <3> QED  BY <2>4, <3>1, <3>2
  <2> DEFINE kept == SubSeq(t, 1, k)
             s == Append(kept, Ellipsis)
  <2>7. SnippetFrom(t) = s
    BY <1>1, <1>2, <1>4, <2>5, <2>6
  <2>8. kept \in Seq(Chars) /\ Len(kept) = k /\ (\A i \in 1..k : kept[i] = t[i]) /\ k \in Nat
    BY <1>1, <2>3
  <2> DEFINE C == Chars \cup {Ellipsis}
  <2>9. /\ s \in Seq(C) /\ Len(s) = k + 1 /\ s[k + 1] = Ellipsis
        /\ \A i \in 1..k : s[i] = t[i]
    <3>1. kept \in Seq(C) /\ Ellipsis \in C
      BY <2>8
    <3> HIDE DEF kept, C
    <3> QED  BY <2>8, <3>1, Appended
  <2> HIDE DEF kept, s, C
  <2>10. Len(s) <= m + 1
    BY <1>1, <2>3, <2>8, <2>9
  <2>11. CASE space = 0
    <3>1. cut = m
      BY <2>11 DEF cut
    <3>2. \A i \in 1..cut : ~IsBlank(t[i])
      <4>1. \A i \in 1..cut : i \in 1..m + 1 /\ i \in space + 1..m + 1
        BY <1>1, <2>11, <3>1
      <4> QED  BY <2>2, <4>1
    <3>3. k = cut
      <4>1. k # cut => k + 1 \in k + 1..cut /\ k + 1 \in 1..cut
        BY <2>3, <2>8
      <4> QED  BY <2>4, <2>5, <3>2, <4>1
    <3>4. \A i \in 1..k + 1 : ~IsBlank(s[i])
      <4>1. \A i \in 1..k + 1 : i \in 1..k \/ i = k + 1
        BY <2>8
      <4> QED  BY <1>1, <2>9, <3>2, <3>3, <4>1
    <3>5. " " \notin Range(s)
      <4>1. \A c \in Range(s) : ~IsBlank(c)
        BY <2>9, <3>4 DEF Range
      <4> QED  BY <4>1, Zenon DEF IsBlank
    <3>6. ~(Len(s) <= m)
      BY <1>1, <2>9, <3>1, <3>3
    <3> QED  BY <2>7, <2>10, <3>5, <3>6
  <2>12. CASE space # 0
    <3>1. IsBlank(t[space]) /\ cut = space - 1 /\ space \in 1..m + 1
      BY <2>2, <2>12 DEF cut
    <3>2. IsBlank(t[k + 1]) /\ k + 1 \in 1..Len(t)
      <4>1. k + 1 \in 1..n
        BY <1>1, <1>4, <3>1
      <4>2. CASE k = cut
        <5>1. k + 1 = space
          BY <3>1, <4>2
        <5> QED  BY <3>1, <4>1, <5>1
      <4>3. CASE k # cut
        <5>1. k + 1 \in k + 1..cut /\ k + 1 \in 1..cut
          BY <2>3, <4>3
        <5> QED  BY <2>4, <2>5, <4>1, <5>1
      <4> QED  BY <4>2, <4>3
    <3>3. IsPrefix(Tokenize(s), Tokenize(t))
      BY <1>1, <2>8, <3>2, CutBetweenWords DEF s, kept
    <3> QED  BY <2>7, <2>10, <3>3
  <2> QED  BY <2>11, <2>12
<1>5. n <= m \/ m < n
  BY <1>1
<1> QED  BY <1>3, <1>4, <1>5, Zenon

LEMMA SnippetsFollow ==
  ASSUME WordsAreRead, Inv, dump \in Dumps, IndexAsStripped
  PROVE  SnippetsHaveWholeWords
<1> DEFINE S == {p \in Pages : /\ CleanOf(p).cleaned_text \in Seq(Chars)
                               /\ Readable(p) /\ IsComplete(p) => TokensOf(p) = p.words}
<1>1. \A i \in 1..Len(dump) : dump[i] \in S
  <2>1. dump \in Seq(Pages)
    BY DEF Inv
  <2> QED  BY <2>1, TextsOfPages DEF WordsAreRead
<1>2. Indexable \in Seq(S) /\ doc_id \in Nat /\ doc_id <= Len(Indexable)
  <2> HIDE DEF S
  <2> QED  BY <1>1, PagesOfSort
<1>3. PagesAsStripped
  BY PagesFollow
<1>4. ASSUME NEW i \in 1..doc_id, Readable(Indexable[i])
      PROVE  LET snippet == store[i - 1].snippet
             IN  /\ Len(snippet) <= MaxSnippet + 1
                 /\ " " \in Range(snippet) \/ Len(snippet) <= MaxSnippet
                      => IsPrefix(Tokenize(snippet), Indexable[i].words)
  <2> DEFINE p == Indexable[i]
             cleaned == CleanOf(p).cleaned_text
  <2>1. p \in S
    <3> HIDE DEF S
    <3> QED  BY <1>2
  <2>2. cleaned \in Seq(Chars) /\ Tokenize(cleaned) = p.words
    BY <1>4, <2>1 DEF IndexAsStripped, TokensOf
  <2>3. store[i - 1].snippet = SnippetFrom(cleaned)
    <3>1. PICK rank : store[i - 1] = Document(p, rank)
      BY <1>3 DEF PagesAsStripped
    <3> QED  BY <3>1 DEF Document
  <2> HIDE DEF cleaned
  <2> QED  BY <2>2, <2>3, SnippetOfText
<1> QED  BY <1>4 DEF SnippetsHaveWholeWords

\* With a stripper and a tokenizer that read such pages right, a snippet is short and
\* has nothing but the first words of its page, each of them whole, unless the first
\* of them is longer than a snippet may be (snippetFrom).
THEOREM SnippetsAlwaysHaveWholeWords ==
  ASSUME StemsMakeWords, WordsAreRead
  PROVE  Spec => []SnippetsHaveWholeWords
<1>1. Inv /\ dump \in Dumps /\ IndexAsStripped => SnippetsHaveWholeWords
  BY SnippetsFollow
<1> QED  BY <1>1, ParserFollowsDump, OneDump, IndexFollowsDump, PTL

-----------------------------------------------------------------------------
(* The file of links.                                                      *)

\* What the reader of the file has, character after character.
Reader(docs, C) == [graph : Graphs(docs), line : Seq(C)]

Reads(title_of, start, file) ==
  Reading(LAMBDA r, c : ReadEdges(title_of, r, c), start, file)

IsReading(title_of, start, file, f) ==
  f[0] = start /\ \A i \in 1..Len(file) : f[i] = ReadEdges(title_of, f[i - 1], file[i])

LEMMA EdgesKeepGraph ==
  ASSUME NEW docs \in Nat, NEW title_of, LeadsInto(title_of, 0..docs - 1),
         NEW g \in Graphs(docs), NEW line
  PROVE  WithEdge(title_of, g, line) \in Graphs(docs)
<1> DEFINE s == Source(line)
           t == Target(line)
<1>1. CASE IsEdge(title_of, line)
  <2>1. title_of[s] \in 0..docs - 1 /\ title_of[t] \in 0..docs - 1
    BY <1>1 DEF IsEdge, LeadsInto
  <2>2. WithEdge(title_of, g, line) = [g EXCEPT ![title_of[s]] = Append(@, title_of[t])]
    BY <1>1 DEF WithEdge
  <2> HIDE DEF s, t
  <2> QED  BY <2>1, <2>2 DEF Graphs
<1>2. CASE ~IsEdge(title_of, line)
  BY <1>2 DEF WithEdge
<1> QED  BY <1>1, <1>2

LEMMA ReaderStays ==
  ASSUME NEW docs \in Nat, NEW title_of, LeadsInto(title_of, 0..docs - 1),
         NEW C, NEW r \in Reader(docs, C), NEW c \in C
  PROVE  ReadEdges(title_of, r, c) \in Reader(docs, C)
<1>1. /\ r.graph \in Graphs(docs) /\ r.line \in Seq(C)
      /\ r = [graph |-> r.graph, line |-> r.line]
  BY DEF Reader
<1>2. CASE c = NewLine
  <2>1. ReadEdges(title_of, r, c) = [graph |-> WithEdge(title_of, r.graph, r.line), line |-> << >>]
    BY <1>2 DEF ReadEdges
  <2>2. WithEdge(title_of, r.graph, r.line) \in Graphs(docs) /\ << >> \in Seq(C)
    BY <1>1, EdgesKeepGraph
  <2> QED  BY <2>1, <2>2 DEF Reader
<1>3. CASE c # NewLine
  <2>1. ReadEdges(title_of, r, c) = [r EXCEPT !.line = Append(@, c)]
    BY <1>3 DEF ReadEdges
  <2>2. ReadEdges(title_of, r, c) = [graph |-> r.graph, line |-> Append(r.line, c)]
    BY <1>1, <2>1
  <2>3. Append(r.line, c) \in Seq(C)
    BY <1>1
  <2> QED  BY <1>1, <2>2, <2>3 DEF Reader
<1> QED  BY <1>2, <1>3

LEMMA ReadingOneByOne ==
  ASSUME NEW docs \in Nat, NEW title_of, LeadsInto(title_of, 0..docs - 1),
         NEW C, NEW start \in Reader(docs, C), NEW file \in Seq(C)
  PROVE  \E f \in [0..Len(file) -> Reader(docs, C)] :
           /\ IsReading(title_of, start, file, f)
           /\ Reads(title_of, start, file) = f[Len(file)]
<1> DEFINE States == Reader(docs, C)
           step == [r \in States |-> [i \in 1..Len(file) |-> ReadEdges(title_of, r, file[i])]]
           IsRead(g) == g = [i \in 0..Len(file) |->
                               IF i = 0 THEN start ELSE ReadEdges(title_of, g[i - 1], file[i])]
           F == CHOOSE g : IsRead(g)
<1>0. Len(file) \in Nat /\ \A i \in 1..Len(file) : file[i] \in C
  OBVIOUS
<1>1. \A r \in States : \A i \in 1..Len(file) : ReadEdges(title_of, r, file[i]) \in States
  BY <1>0, ReaderStays
<1>2. /\ step \in [States -> [1..Len(file) -> States]]
      /\ \A r \in States : \A i \in 1..Len(file) : step[r][i] = ReadEdges(title_of, r, file[i])
  BY <1>1
<1> HIDE DEF step, States
<1>3. PICK f \in [0..Len(file) -> States] : IsRecursive(f, start, Len(file), step)
  BY <1>0, <1>2, Recursion DEF States
<1>4. f[0] = start /\ \A i \in 1..Len(file) : f[i] = ReadEdges(title_of, f[i - 1], file[i])
  <2>1. \A i \in 1..Len(file) : f[i - 1] \in States /\ f[i] = step[f[i - 1]][i]
    BY <1>0, <1>3 DEF IsRecursive
  <2> QED  BY <1>2, <1>3, <2>1 DEF IsRecursive
<1>5. f = [i \in 0..Len(file) |-> IF i = 0 THEN start ELSE ReadEdges(title_of, f[i - 1], file[i])]
  BY <1>3, <1>4
<1>6. IsRead(F)
  <2> HIDE DEF IsRead
  <2>1. IsRead(f)
    BY <1>5 DEF IsRead
  <2> QED  BY <2>1
<1>7. Reads(title_of, start, file) = F[Len(file)]
  BY DEF Reads, Reading
<1> HIDE DEF F
<1>8. F[0] = start /\ \A i \in 1..Len(file) : F[i] = ReadEdges(title_of, F[i - 1], file[i])
  <2>1. F = [i \in 0..Len(file) |->
              IF i = 0 THEN start ELSE ReadEdges(title_of, F[i - 1], file[i])]
    BY <1>6
  <2>2. ASSUME NEW i \in 1..Len(file) PROVE F[i] = ReadEdges(title_of, F[i - 1], file[i])
    <3>1. i \in 0..Len(file) /\ i # 0
      BY <1>0
    <3> QED  BY <2>1, <3>1, Zenon
  <2>3. F[0] = start
    <3>1. 0 \in 0..Len(file)
      BY <1>0
    <3> QED  BY <2>1, <3>1, Zenon
  <2> QED  BY <2>2, <2>3
<1>9. \A i \in 0..Len(file) : F[i] = f[i]
  <2>1. Alike(F, f, Len(file))
    BY <1>4, <1>8 DEF Alike
  <2> QED  BY <1>0, <2>1, SameRecursion
<1>10. Len(file) \in 0..Len(file)
  BY <1>0
<1> QED  BY <1>3, <1>4, <1>7, <1>9, <1>10 DEF IsReading, States

LEMMA ReadsAtAll ==
  ASSUME NEW docs \in Nat, NEW title_of, LeadsInto(title_of, 0..docs - 1),
         NEW C, NEW start \in Reader(docs, C), NEW file \in Seq(C)
  PROVE  Reads(title_of, start, file) \in Reader(docs, C)
<1>1. PICK f \in [0..Len(file) -> Reader(docs, C)] :
        Reads(title_of, start, file) = f[Len(file)]
  BY ReadingOneByOne
<1>2. Len(file) \in 0..Len(file)
  OBVIOUS
<1> QED  BY <1>1, <1>2

ReadsSame(title_of, start, file) ==
  Len(file) = 0 => Reads(title_of, start, file) = start

LEMMA ReadsNothing ==
  ASSUME NEW docs \in Nat, NEW title_of, LeadsInto(title_of, 0..docs - 1),
         NEW C, NEW start \in Reader(docs, C), NEW file \in Seq(C)
  PROVE  ReadsSame(title_of, start, file)
<1>1. PICK f \in [0..Len(file) -> Reader(docs, C)] :
        IsReading(title_of, start, file, f) /\ Reads(title_of, start, file) = f[Len(file)]
  BY ReadingOneByOne
<1> QED  BY <1>1 DEF IsReading, ReadsSame

\* One more character.
LEMMA ReadsMore ==
  ASSUME NEW docs \in Nat, NEW title_of, LeadsInto(title_of, 0..docs - 1),
         NEW C, NEW start \in Reader(docs, C), NEW file \in Seq(C), NEW c \in C
  PROVE  Reads(title_of, start, Append(file, c))
           = ReadEdges(title_of, Reads(title_of, start, file), c)
<1> DEFINE n == Len(file)
           more == Append(file, c)
<1>1. PICK f \in [0..n -> Reader(docs, C)] :
        IsReading(title_of, start, file, f) /\ Reads(title_of, start, file) = f[n]
  BY ReadingOneByOne
<1>2. /\ more \in Seq(C) /\ n \in Nat /\ Len(more) = n + 1 /\ more[n + 1] = c
      /\ \A i \in 1..n : more[i] = file[i]
  BY Appended
<1> HIDE DEF more
<1>3. PICK g \in [0..Len(more) -> Reader(docs, C)] :
        IsReading(title_of, start, more, g) /\ Reads(title_of, start, more) = g[Len(more)]
  BY <1>2, ReadingOneByOne
<1>4. g[n] = f[n]
  <2>1. Alike(g, f, n)
    <3>1. \A i \in 1..n : i \in 1..Len(more)
      BY <1>2
    <3> QED  BY <1>1, <1>2, <1>3, <3>1 DEF Alike, IsReading
  <2>2. n \in 0..n
    BY <1>2
  <2> QED  BY <1>2, <2>1, <2>2, SameRecursion, SMTT(30)
<1>5. g[n + 1] = ReadEdges(title_of, f[n], c)
  <2>1. n + 1 \in 1..Len(more) /\ (n + 1) - 1 = n
    BY <1>2
  <2> QED  BY <1>2, <1>3, <1>4, <2>1 DEF IsReading
<1> QED  BY <1>1, <1>2, <1>3, <1>5 DEF more

\* Sequences are made by adding one element after the other.
IsLonger(t, C, n) == \E u \in Seq(C) : \E c \in C : Len(u) = n /\ t = Append(u, c)

LEMMA LastOff ==
  ASSUME NEW C, NEW n \in Nat, NEW t \in Seq(C), Len(t) = n + 1
  PROVE  IsLonger(t, C, n)
<1> DEFINE u == [i \in 1..n |-> t[i]]
           c == t[n + 1]
<1>1. u \in Seq(C) /\ Len(u) = n /\ c \in C
  OBVIOUS
<1>2. t = Append(u, c)
  <2>1. Append(u, c) = [i \in 1..n + 1 |-> IF i = n + 1 THEN c ELSE u[i]]
    BY <1>1
  <2>2. t = [i \in 1..n + 1 |-> t[i]]
    OBVIOUS
  <2>3. \A i \in 1..n + 1 : t[i] = IF i = n + 1 THEN c ELSE u[i]
    OBVIOUS
  <2> HIDE DEF u, c
  <2> QED  BY <2>1, <2>2, <2>3
<1> QED  BY <1>1, <1>2 DEF IsLonger

LEMMA NoneEmpty ==
  ASSUME NEW C, NEW t \in Seq(C), Len(t) = 0
  PROVE  t = << >>
OBVIOUS

\* Two texts, one after the other.
LEMMA ReadsOn ==
  ASSUME NEW docs \in Nat, NEW title_of, LeadsInto(title_of, 0..docs - 1),
         NEW C, NEW start \in Reader(docs, C), NEW s \in Seq(C), NEW t \in Seq(C)
  PROVE  Reads(title_of, start, s \o t) = Reads(title_of, Reads(title_of, start, s), t)
<1> DEFINE OnFor(u) == Reads(title_of, start, s \o u)
                         = Reads(title_of, Reads(title_of, start, s), u)
           T == {n \in Nat : \A u \in Seq(C) : Len(u) = n => OnFor(u)}
           there == Reads(title_of, start, s)
<1>1. there \in Reader(docs, C)
  BY ReadsAtAll
<1>0. ASSUME NEW u \in Seq(C) PROVE ReadsSame(title_of, there, u)
  <2> HIDE DEF there
  <2> QED  BY <1>1, ReadsNothing
<1>2. 0 \in T
  <2> SUFFICES ASSUME NEW u \in Seq(C), Len(u) = 0 PROVE OnFor(u)
    OBVIOUS
  <2>1. u = << >> /\ s \o u = s
    BY NoneEmpty
  <2>2. Reads(title_of, there, u) = there
    BY <1>0 DEF ReadsSame
  <2> QED  BY <2>1, <2>2
<1>3. ASSUME NEW n \in Nat, n \in T PROVE n + 1 \in T
  <2> SUFFICES ASSUME NEW v \in Seq(C), Len(v) = n + 1 PROVE OnFor(v)
    OBVIOUS
  <2> HIDE DEF T, OnFor
  <2>0. IsLonger(v, C, n)
    BY LastOff
  <2>1. PICK u \in Seq(C), c \in C : Len(u) = n /\ v = Append(u, c)
    BY <2>0 DEF IsLonger
  <2>2. OnFor(u)
    BY <1>3, <2>1 DEF T
  <2>3. s \o v = Append(s \o u, c) /\ s \o u \in Seq(C)
    BY <2>1
  <2> DEFINE su == s \o u
             sv == s \o v
  <2>4. Reads(title_of, start, sv) = ReadEdges(title_of, Reads(title_of, start, su), c)
    <3>1. sv = Append(su, c) /\ su \in Seq(C)
      BY <2>3
    <3> HIDE DEF su, sv
    <3> QED  BY <3>1, ReadsMore
  <2>5. Reads(title_of, there, v) = ReadEdges(title_of, Reads(title_of, there, u), c)
    <3> HIDE DEF there
    <3> QED  BY <1>1, <2>1, ReadsMore
  <2> QED  BY <2>2, <2>4, <2>5 DEF OnFor
<1>4. Len(t) \in T
  <2>1. Len(t) \in Nat
    OBVIOUS
  <2> HIDE DEF T
  <2> QED  BY <1>2, <1>3, <2>1, Induction
<1> QED  BY <1>4

\* A line up to its end.
LEMMA LineRead ==
  ASSUME NEW docs \in Nat, NEW title_of, LeadsInto(title_of, 0..docs - 1),
         NEW C, NEW g \in Graphs(docs), NEW t \in Seq(C), NewLine \notin Range(t)
  PROVE  Reads(title_of, [graph |-> g, line |-> << >>], t) = [graph |-> g, line |-> t]
<1> DEFINE start == [graph |-> g, line |-> << >>]
           ReadAs(u) == Reads(title_of, start, u) = [graph |-> g, line |-> u]
           T == {n \in Nat : \A u \in Seq(C) : Len(u) = n /\ NewLine \notin Range(u) => ReadAs(u)}
<1>1. start \in Reader(docs, C)
  BY DEF Reader
<1> HIDE DEF start
<1>2. 0 \in T
  <2> SUFFICES ASSUME NEW u \in Seq(C), Len(u) = 0 PROVE ReadAs(u)
    OBVIOUS
  <2>1. u = << >>
    BY NoneEmpty
  <2>2. PICK h \in [0..Len(u) -> Reader(docs, C)] :
          IsReading(title_of, start, u, h) /\ Reads(title_of, start, u) = h[Len(u)]
    BY <1>1, ReadingOneByOne
  <2>3. Reads(title_of, start, u) = start
    BY <2>2 DEF IsReading
  <2> QED  BY <2>1, <2>3 DEF start
<1>3. ASSUME NEW n \in Nat, n \in T PROVE n + 1 \in T
  <2> SUFFICES ASSUME NEW v \in Seq(C), Len(v) = n + 1, NewLine \notin Range(v) PROVE ReadAs(v)
    OBVIOUS
  <2>0. IsLonger(v, C, n)
    BY LastOff
  <2>1. PICK u \in Seq(C), c \in C : Len(u) = n /\ v = Append(u, c)
    BY <2>0 DEF IsLonger
  <2>2. Len(v) = n + 1 /\ v[n + 1] = c /\ \A i \in 1..n : v[i] = u[i]
    BY <2>1
  <2>3. c # NewLine /\ NewLine \notin Range(u)
    <3>1. \A i \in 1..n + 1 : v[i] # NewLine
      BY <2>2 DEF Range
    <3>2. \A i \in 1..n : u[i] # NewLine
      BY <2>2, <3>1
    <3> QED  BY <2>1, <2>2, <3>1, <3>2 DEF Range
  <2>4. Reads(title_of, start, u) = [graph |-> g, line |-> u]
    BY <1>3, <2>1, <2>3
  <2>5. Reads(title_of, start, v) = ReadEdges(title_of, Reads(title_of, start, u), c)
    BY <1>1, <2>1, ReadsMore
  <2>6. ReadEdges(title_of, [graph |-> g, line |-> u], c) = [graph |-> g, line |-> Append(u, c)]
    BY <2>3 DEF ReadEdges
  <2> QED  BY <2>1, <2>4, <2>5, <2>6
<1>4. Len(t) \in T
  <2>1. Len(t) \in Nat
    OBVIOUS
  <2> HIDE DEF T
  <2> QED  BY <1>2, <1>3, <2>1, Induction
<1> QED  BY <1>4 DEF start

\* Texts that a line of the file may be made of.
FileText == Chars \cup {Tab, NewLine}

OneField(t) == t \in Seq(Chars) /\ {Tab, NewLine} \cap Range(t) = {}

LEMMA Concatenated ==
  ASSUME NEW C, NEW s \in Seq(C), NEW t \in Seq(C), NEW n \in Nat, Len(s) = n
  PROVE  /\ s \o t \in Seq(C) /\ Len(s \o t) = n + Len(t)
         /\ \A i \in 1..n : (s \o t)[i] = s[i]
         /\ \A i \in 1..Len(t) : (s \o t)[n + i] = t[i]
OBVIOUS

\* A line of the file without its end.
Edge(source, target) == source \o <<Tab>> \o target

LEMMA EdgeParts ==
  ASSUME NEW s, OneField(s), NEW t \in Seq(Chars)
  PROVE  /\ Find(Edge(s, t), <<Tab>>, 1) # NPos
         /\ Source(Edge(s, t)) = s /\ Target(Edge(s, t)) = t
<1> DEFINE line == Edge(s, t)
           n == Len(s)
           m == Len(t)
           found == {pos \in 1..Len(line) : StartsWithAt(line, pos, <<Tab>>)}
           C == FileText
<1>1. /\ s \in Seq(C) /\ t \in Seq(C) /\ n \in Nat /\ m \in Nat
      /\ <<Tab>> \in Seq(C) /\ Len(<<Tab>>) = 1 /\ <<Tab>>[1] = Tab
  BY DEF OneField, FileText
<1> DEFINE tab == <<Tab>>
<1>2. tab \in Seq(C) /\ Len(tab) = 1 /\ tab[1] = Tab /\ DOMAIN tab = {1}
  BY <1>1
<1> HIDE DEF tab, C
<1>3. /\ line \in Seq(C) /\ Len(line) = n + 1 + m
      /\ \A i \in 1..n : line[i] = s[i]
      /\ line[n + 1] = Tab
      /\ \A i \in 1..m : line[n + 1 + i] = t[i]
  <2> DEFINE st == Append(s, Tab)
  <2>0. Tab \in C
    BY DEF C, FileText
  <2>1. /\ st \in Seq(C) /\ Len(st) = n + 1 /\ st[n + 1] = Tab
        /\ \A i \in 1..n : st[i] = s[i]
    BY <1>1, <2>0, Appended
  <2>3. line = st \o t
    <3>1. s \o tab = Append(s, Tab)
      BY <1>1 DEF tab
    <3> QED  BY <3>1 DEF Edge, st, tab
  <2> HIDE DEF st, line
  <2>2. /\ st \o t \in Seq(C) /\ Len(st \o t) = n + 1 + m
        /\ \A i \in 1..n + 1 : (st \o t)[i] = st[i]
        /\ \A i \in 1..m : (st \o t)[n + 1 + i] = t[i]
    BY <1>1, <2>1, Concatenated
  <2>4. n + 1 \in 1..n + 1 /\ \A i \in 1..n : i \in 1..n + 1
    BY <1>1
  <2> QED  BY <2>1, <2>2, <2>3, <2>4
<1> HIDE DEF line
<1>4. \A pos \in 1..Len(line) : StartsWithAt(line, pos, tab) <=> line[pos] = Tab
  <2> SUFFICES ASSUME NEW pos \in 1..Len(line)
               PROVE  StartsWithAt(line, pos, tab) <=> line[pos] = Tab
    OBVIOUS
  <2>1. pos + Len(tab) - 1 <= Len(line) /\ pos + 1 - 1 = pos
    BY <1>1, <1>2, <1>3
  <2>2. StartsWithAt(line, pos, tab) <=> \A i \in DOMAIN tab : line[pos + i - 1] = tab[i]
    BY <2>1 DEF StartsWithAt
  <2>3. StartsWithAt(line, pos, tab) <=> line[pos + 1 - 1] = tab[1]
    BY <1>2, <2>2
  <2> QED  BY <1>2, <2>1, <2>3
<1>5. \A i \in 1..n : line[i] # Tab
  <2>1. DOMAIN s = 1..n /\ Tab \notin Range(s)
    BY DEF OneField
  <2>2. \A i \in 1..n : s[i] # Tab
    BY <2>1 DEF Range
  <2> QED  BY <1>3, <2>2
<1>6. n + 1 \in found /\ \A pos \in found : n + 1 <= pos
  <2>1. n + 1 \in 1..Len(line)
    BY <1>1, <1>3
  <2>2. n + 1 \in found
    BY <1>3, <1>4, <2>1 DEF tab
  <2>3. ASSUME NEW pos \in found PROVE n + 1 <= pos
    <3>1. pos \in 1..Len(line) /\ line[pos] = Tab
      BY <1>4 DEF tab
    <3>2. pos \notin 1..n
      BY <1>5, <3>1
    <3> QED  BY <1>1, <1>3, <3>1, <3>2
  <2> QED  BY <2>2, <2>3
<1>7. found \subseteq Nat
  BY <1>1, <1>3
<1> HIDE DEF found
<1>8. Min(found) = n + 1
  <2>1. ASSUME NEW x \in found, \A y \in found : x <= y PROVE x = n + 1
    BY <1>1, <1>6, <1>7, <2>1
  <2> QED  BY <1>6, <2>1 DEF Min
<1>9. Find(line, <<Tab>>, 1) = n + 1
  <2>1. Find(line, <<Tab>>, 1) = IF found = {} THEN NPos ELSE Min(found)
    BY DEF Find, found
  <2> QED  BY <1>6, <1>8, <2>1
<1>10. Source(line) = s
  <2>1. Source(line) = SubSeq(line, 1, n)
    BY <1>1, <1>9 DEF Source
  <2>2. SubSeq(line, 1, n) = [i \in 1..n |-> s[i]]
    BY <1>1, <1>3
  <2>3. s = [i \in 1..n |-> s[i]]
    BY <1>1
  <2> QED  BY <2>1, <2>2, <2>3
<1>11. Target(line) = t
  <2>1. Target(line) = SubSeq(line, n + 2, n + 1 + m)
    <3>1. (n + 1) + 1 = n + 2 /\ Len(line) = n + 1 + m
      BY <1>1, <1>3
    <3> QED  BY <1>9, <3>1 DEF Target
  <2>2. SubSeq(line, n + 2, n + 1 + m) = [i \in 1..m |-> t[i]]
    <3>1. /\ SubSeq(line, n + 2, n + 1 + m) \in Seq(C)
          /\ Len(SubSeq(line, n + 2, n + 1 + m)) = m
          /\ \A i \in 1..m : SubSeq(line, n + 2, n + 1 + m)[i] = line[n + 1 + i]
      BY <1>1, <1>3
    <3> DEFINE sub == SubSeq(line, n + 2, n + 1 + m)
    <3>2. sub \in Seq(C) /\ Len(sub) = m /\ \A i \in 1..m : sub[i] = t[i]
      BY <1>3, <3>1
    <3> HIDE DEF sub
    <3>3. sub = [i \in 1..m |-> t[i]]
      BY <1>1, <3>2
    <3> QED  BY <3>3 DEF sub
  <2>3. t = [i \in 1..m |-> t[i]]
    BY <1>1
  <2> QED  BY <2>1, <2>2, <2>3
<1>12. n + 1 # NPos
  BY <1>1 DEF NPos
<1> QED  BY <1>9, <1>10, <1>11, <1>12 DEF line

\* What an edge adds to a list of links.
WithTarget(title_of, g, id, target) ==
  IF target \in DOMAIN title_of THEN [g EXCEPT ![id] = Append(@, title_of[target])] ELSE g

\* One line of the file.
LEMMA EdgeRead ==
  ASSUME NEW docs \in Nat, NEW title_of, LeadsInto(title_of, 0..docs - 1),
         NEW g \in Graphs(docs), NEW s \in DOMAIN title_of, OneField(s),
         NEW t \in Seq(Chars), NewLine \notin Range(t)
  PROVE  /\ EdgeLine(s, t) \in Seq(FileText)
         /\ Reads(title_of, [graph |-> g, line |-> << >>], EdgeLine(s, t))
              = [graph |-> WithTarget(title_of, g, title_of[s], t), line |-> << >>]
<1> DEFINE C == FileText
           line == Edge(s, t)
           start == [graph |-> g, line |-> << >>]
<1>1. s \in Seq(C) /\ t \in Seq(C) /\ Tab \in C /\ NewLine \in C
  BY DEF OneField, FileText
<1>2. Tab # NewLine
  BY DEF Tab, NewLine
<1> DEFINE tab == <<Tab>>
<1>3. tab \in Seq(C) /\ Len(tab) = 1 /\ tab[1] = Tab
  BY <1>1
<1> HIDE DEF C, tab
<1>4. line \in Seq(C) /\ NewLine \notin Range(line)
  <2> DEFINE st == Append(s, Tab)
             n == Len(s)
             m == Len(t)
  <2>1. n \in Nat /\ m \in Nat
    BY <1>1
  <2>2. /\ st \in Seq(C) /\ Len(st) = n + 1 /\ st[n + 1] = Tab
        /\ \A i \in 1..n : st[i] = s[i]
    BY <1>1, Appended
  <2>7. line = st \o t
    <3>1. s \o tab = Append(s, Tab)
      BY <1>1 DEF tab
    <3> QED  BY <3>1 DEF Edge, st, tab
  <2> HIDE DEF st, line
  <2>3. /\ st \o t \in Seq(C) /\ Len(st \o t) = n + 1 + m
        /\ \A i \in 1..n + 1 : (st \o t)[i] = st[i]
        /\ \A i \in 1..m : (st \o t)[n + 1 + i] = t[i]
    BY <1>1, <2>1, <2>2, Concatenated, SMTT(30)
  <2>4. /\ \A i \in 1..n : s[i] # NewLine
        /\ \A i \in 1..m : t[i] # NewLine
    BY <1>1 DEF OneField, Range
  <2>5. \A i \in 1..n + 1 : st[i] # NewLine
    <3>1. \A i \in 1..n + 1 : i \in 1..n \/ i = n + 1
      BY <2>1
    <3> QED  BY <1>2, <2>2, <2>4, <3>1
  <2>6. \A i \in 1..n + 1 + m : (st \o t)[i] # NewLine
    <3> SUFFICES ASSUME NEW i \in 1..n + 1 + m PROVE (st \o t)[i] # NewLine
      OBVIOUS
    <3>1. CASE i \in 1..n + 1
      BY <2>3, <2>5, <3>1
    <3>2. CASE i \in n + 2..n + 1 + m
      <4>1. i - (n + 1) \in 1..m /\ i = n + 1 + (i - (n + 1))
        BY <2>1, <3>2
      <4> QED  BY <2>3, <2>4, <3>2, <4>1
    <3>3. i \in 1..n + 1 \/ i \in n + 2..n + 1 + m
      BY <2>1
    <3> QED  BY <3>1, <3>2, <3>3
  <2>8. NewLine \notin Range(st \o t)
    <3>1. DOMAIN (st \o t) = 1..n + 1 + m
      BY <2>3
    <3> QED  BY <2>6, <3>1 DEF Range
  <2> QED  BY <2>3, <2>7, <2>8
<1>5. EdgeLine(s, t) = Append(line, NewLine)
  <2>1. line \o <<NewLine>> = Append(line, NewLine)
    BY <1>4
  <2> QED  BY <2>1 DEF EdgeLine, Edge
<1>6. Find(line, tab, 1) # NPos /\ Source(line) = s /\ Target(line) = t
  BY EdgeParts DEF tab
<1> HIDE DEF line
<1>7. start \in Reader(docs, C)
  <2>1. << >> \in Seq(C)
    OBVIOUS
  <2> QED  BY <2>1 DEF Reader
<1>8. Reads(title_of, start, line) = [graph |-> g, line |-> line]
  BY <1>4, LineRead
<1> HIDE DEF start
<1>9. Reads(title_of, start, Append(line, NewLine))
        = ReadEdges(title_of, Reads(title_of, start, line), NewLine)
  BY <1>1, <1>4, <1>7, ReadsMore
<1>10. ReadEdges(title_of, [graph |-> g, line |-> line], NewLine)
         = [graph |-> WithEdge(title_of, g, line), line |-> << >>]
  BY DEF ReadEdges
<1>11. IsEdge(title_of, line) <=> t \in DOMAIN title_of
  BY <1>6 DEF IsEdge, tab
<1>12. WithEdge(title_of, g, line) = WithTarget(title_of, g, title_of[s], t)
  BY <1>6, <1>11 DEF WithEdge, WithTarget
<1>13. Append(line, NewLine) \in Seq(C)
  BY <1>1, <1>4
<1> QED  BY <1>5, <1>8, <1>9, <1>10, <1>12, <1>13 DEF start, C

\* Parts of a file, one after the other.
ReadsThrough(title_of, parts, h) ==
  \A k \in 1..Len(parts) : h[k] = Reads(title_of, h[k - 1], parts[k])

LEMMA PartsRead ==
  ASSUME NEW docs \in Nat, NEW title_of, LeadsInto(title_of, 0..docs - 1),
         NEW C, NEW parts \in Seq(Seq(C)),
         NEW h \in [0..Len(parts) -> Reader(docs, C)], ReadsThrough(title_of, parts, h)
  PROVE  FlattenSeq(parts) \in Seq(C) /\ Reads(title_of, h[0], FlattenSeq(parts)) = h[Len(parts)]
<1> DEFINE n == Len(parts)
<1>0. n \in Nat
  OBVIOUS
<1>1. PICK f \in [0..n -> Seq(C)] : Joins(f, parts) /\ FlattenSeq(parts) = f[n]
  BY Flattening
<1> DEFINE IsThere(k) == Reads(title_of, h[0], f[k]) = h[k]
           T == {k \in Nat : k <= n => IsThere(k)}
<1>2. 0 \in T
  <2>1. f[0] \in Seq(C) /\ Len(f[0]) = 0 /\ h[0] \in Reader(docs, C)
    BY <1>0, <1>1 DEF Joins
  <2> DEFINE first == f[0]
             start == h[0]
  <2> HIDE DEF first, start
  <2>2. ReadsSame(title_of, start, first)
    BY <2>1, ReadsNothing DEF first, start
  <2> QED  BY <2>1, <2>2 DEF ReadsSame, first, start
<1>3. ASSUME NEW k \in Nat, k \in T, k + 1 <= n
      PROVE  Reads(title_of, h[0], f[k + 1]) = h[k + 1]
  <2>1. /\ k + 1 \in 1..n /\ (k + 1) - 1 = k /\ k \in 0..n /\ 0 \in 0..n
        /\ Reads(title_of, h[0], f[k]) = h[k]
    BY <1>0, <1>3
  <2>2. f[k + 1] = f[k] \o parts[k + 1]
    BY <1>1, <2>1 DEF Joins
  <2>3. h[k + 1] = Reads(title_of, h[k], parts[k + 1])
    BY <2>1 DEF ReadsThrough
  <2>4. h[0] \in Reader(docs, C) /\ f[k] \in Seq(C) /\ parts[k + 1] \in Seq(C)
    <3>1. h[0] \in Reader(docs, C) /\ f[k] \in Seq(C)
      BY <1>1, <2>1
    <3>2. parts[k + 1] \in Seq(C)
      BY <2>1
    <3> QED  BY <3>1, <3>2
  <2> DEFINE start == h[0]
             s == f[k]
             t == parts[k + 1]
  <2> HIDE DEF start, s, t
  <2>5. Reads(title_of, start, s \o t) = Reads(title_of, Reads(title_of, start, s), t)
    BY <2>4, ReadsOn DEF start, s, t
  <2> QED  BY <2>1, <2>2, <2>3, <2>5 DEF start, s, t
<1>4. \A k \in Nat : k \in T => k + 1 \in T
  <2> HIDE DEF IsThere
  <2>1. ASSUME NEW k \in Nat, k \in T, k + 1 <= n PROVE IsThere(k + 1)
    BY <1>3, <2>1 DEF IsThere
  <2> QED  BY <2>1
<1>5. n \in T
  <2> HIDE DEF T, n
  <2> QED  BY <1>0, <1>2, <1>4, Induction
<1>6. n \in 0..n
  BY <1>0
<1> QED  BY <1>0, <1>1, <1>5, <1>6

\* The lines of one page.
PageLines(source, links) == FlattenSeq([j \in DOMAIN links |-> EdgeLine(source, links[j])])

\* No target of the links is broken over two lines; nothing is known of a page yet.
OnOneLine(links) == \A j \in 1..Len(links) : OneLine(links[j])

Unlinked(g, id) == g[id] = << >>

LEMMA PageRead ==
  ASSUME NEW docs \in Nat, NEW title_of, LeadsInto(title_of, 0..docs - 1),
         NEW g \in Graphs(docs), NEW s \in DOMAIN title_of, OneField(s),
         Unlinked(g, title_of[s]), NEW links \in Seq(Seq(Chars)), OnOneLine(links)
  PROVE  /\ PageLines(s, links) \in Seq(FileText)
         /\ Reads(title_of, [graph |-> g, line |-> << >>], PageLines(s, links))
              = [graph |-> [g EXCEPT ![title_of[s]] = Neighbors(title_of, links)],
                 line |-> << >>]
<1> DEFINE n == Len(links)
           id == title_of[s]
           Ids == 0..docs - 1
           parts == [j \in DOMAIN links |-> EdgeLine(s, links[j])]
<1>0. n \in Nat /\ DOMAIN links = 1..n /\ id \in Ids
  BY DEF LeadsInto
<1>1. PICK l \in [0..n -> Seq(Ids)] :
        Gathers(title_of, links, l) /\ Neighbors(title_of, links) = l[n]
  BY NeighborsOneByOne
<1> DEFINE h == [k \in 0..n |-> [graph |-> [g EXCEPT ![id] = l[k]], line |-> << >>]]
<1>2. ASSUME NEW j \in 1..n, NEW b \in Graphs(docs)
      PROVE  /\ EdgeLine(s, links[j]) \in Seq(FileText)
             /\ Reads(title_of, [graph |-> b, line |-> << >>], EdgeLine(s, links[j]))
                  = [graph |-> WithTarget(title_of, b, id, links[j]), line |-> << >>]
  <2>1. links[j] \in Seq(Chars) /\ NewLine \notin Range(links[j])
    BY DEF OnOneLine, OneLine
  <2> DEFINE t == links[j]
  <2> HIDE DEF t
  <2> QED  BY <2>1, EdgeRead DEF t
<1>3. g \in Graphs(docs)
  OBVIOUS
<1>4. parts \in Seq(Seq(FileText)) /\ Len(parts) = n /\ \A j \in 1..n : parts[j] = EdgeLine(s, links[j])
  <2>1. \A j \in 1..n : EdgeLine(s, links[j]) \in Seq(FileText)
    BY <1>2, <1>3
  <2> QED  BY <1>0, <2>1
<1>5. \A k \in 0..n : [g EXCEPT ![id] = l[k]] \in Graphs(docs)
  BY <1>0, <1>1 DEF Graphs
<1>6. h \in [0..n -> Reader(docs, FileText)]
  <2>1. << >> \in Seq(FileText)
    OBVIOUS
  <2> QED  BY <1>5, <2>1 DEF Reader
<1>7. ASSUME NEW k \in 1..n PROVE h[k] = Reads(title_of, h[k - 1], parts[k])
  <2> DEFINE b == [g EXCEPT ![id] = l[k - 1]]
             e == [g EXCEPT ![id] = l[k]]
  <2>1. k - 1 \in 0..n /\ k \in 0..n
    BY <1>0
  <2>2. h[k - 1] = [graph |-> b, line |-> << >>] /\ h[k] = [graph |-> e, line |-> << >>]
    BY <2>1
  <2>3. b \in Graphs(docs)
    BY <1>5, <2>1
  <2>4. Reads(title_of, [graph |-> b, line |-> << >>], parts[k])
          = [graph |-> WithTarget(title_of, b, id, links[k]), line |-> << >>]
    <3> HIDE DEF b, parts
    <3> QED  BY <1>2, <1>4, <2>3
  <2>5. l[k] = WithLink(title_of, l[k - 1], links[k])
    BY <1>1 DEF Gathers
  <2>6. WithTarget(title_of, b, id, links[k]) = e
    <3>1. id \in DOMAIN g
      BY <1>0 DEF Graphs
    <3>2. CASE links[k] \in DOMAIN title_of
      BY <2>5, <3>1, <3>2 DEF WithTarget, WithLink
    <3>3. CASE links[k] \notin DOMAIN title_of
      BY <2>5, <3>1, <3>3 DEF WithTarget, WithLink
    <3> QED  BY <3>2, <3>3
  <2> HIDE DEF b, e, h, parts
  <2> QED  BY <2>2, <2>4, <2>6
<1>8. ReadsThrough(title_of, parts, h)
  <2> HIDE DEF h, parts
  <2> QED  BY <1>4, <1>7 DEF ReadsThrough
<1>9. h[0] = [graph |-> g, line |-> << >>] /\ h[n] = [graph |-> [g EXCEPT ![id] = l[n]], line |-> << >>]
  <2>1. 0 \in 0..n /\ n \in 0..n /\ l[0] = << >>
    BY <1>0, <1>1 DEF Gathers
  <2>2. [g EXCEPT ![id] = << >>] = g
    BY <1>0 DEF Graphs, Unlinked
  <2> QED  BY <2>1, <2>2
<1> HIDE DEF h, parts
<1>10. FlattenSeq(parts) \in Seq(FileText) /\ Reads(title_of, h[0], FlattenSeq(parts)) = h[n]
  BY <1>4, <1>6, <1>8, PartsRead
<1>11. PageLines(s, links) = FlattenSeq(parts)
  BY DEF PageLines, parts
<1> QED  BY <1>1, <1>9, <1>10, <1>11

\* Each title is its page's own, and no line is broken.
LinesAreWhole(title_of, titles_of, links_of, docs) ==
  \A i \in 1..docs :
    /\ titles_of[i] \in DOMAIN title_of /\ title_of[titles_of[i]] = i - 1 /\ OneField(titles_of[i])
    /\ OnOneLine(links_of[i])

\* The whole file, page by page.
LEMMA FileRead ==
  ASSUME NEW docs \in Nat, NEW title_of, LeadsInto(title_of, 0..docs - 1), NEW titles_of,
         NEW links_of \in Seq(Seq(Seq(Chars))), Len(links_of) = docs,
         LinesAreWhole(title_of, titles_of, links_of, docs)
  PROVE  LoadAdjacencyList(SaveLinkGraph(titles_of, links_of), title_of, docs)
           = BuildAdjacencyList(title_of, links_of, docs)
<1> DEFINE Ids == 0..docs - 1
           Known(k, d) == IF d < k THEN Neighbors(title_of, links_of[d + 1]) ELSE << >>
           Part(k) == [d \in Ids |-> Known(k, d)]
           h == [k \in 0..docs |-> [graph |-> Part(k), line |-> << >>]]
           parts == [i \in DOMAIN links_of |-> PageLines(titles_of[i], links_of[i])]
<1>0. /\ DOMAIN links_of = 1..docs
      /\ \A i \in 1..docs : links_of[i] \in Seq(Seq(Chars))
  OBVIOUS
<1>1. \A i \in 1..docs : Neighbors(title_of, links_of[i]) \in Seq(Ids)
  BY <1>0, NeighborsAreFew
<1>2. \A k \in 0..docs : Part(k) \in Graphs(docs)
  <2> SUFFICES ASSUME NEW k \in 0..docs PROVE Part(k) \in Graphs(docs)
    OBVIOUS
  <2>1. \A d \in Ids : Known(k, d) \in Seq(Ids)
    <3>1. \A d \in Ids : d + 1 \in 1..docs
      OBVIOUS
    <3>2. << >> \in Seq(Ids)
      OBVIOUS
    <3> QED  BY <1>1, <3>1, <3>2
  <2> HIDE DEF Known
  <2> QED  BY <2>1 DEF Graphs
<1>3. h \in [0..docs -> Reader(docs, FileText)]
  <2>1. << >> \in Seq(FileText)
    OBVIOUS
  <2> HIDE DEF Part
  <2> QED  BY <1>2, <2>1 DEF Reader
<1>4. ASSUME NEW i \in 1..docs
      PROVE  /\ PageLines(titles_of[i], links_of[i]) \in Seq(FileText)
             /\ Reads(title_of, [graph |-> Part(i - 1), line |-> << >>],
                      PageLines(titles_of[i], links_of[i]))
                  = [graph |-> Part(i), line |-> << >>]
  <2> DEFINE s == titles_of[i]
             links == links_of[i]
             g == Part(i - 1)
             e == Part(i)
  <2>1. s \in DOMAIN title_of /\ title_of[s] = i - 1 /\ OneField(s) /\ OnOneLine(links)
    BY DEF LinesAreWhole
  <2>2. links \in Seq(Seq(Chars))
    BY <1>0
  <2>3. i - 1 \in 0..docs /\ i - 1 \in Ids /\ (i - 1) + 1 = i
    OBVIOUS
  <2>4. g \in Graphs(docs)
    <3> HIDE DEF Part
    <3> QED  BY <1>2, <2>3
  <2>5. Unlinked(g, title_of[s])
    <3>1. g[i - 1] = Known(i - 1, i - 1)
      <4> HIDE DEF Known
      <4> QED  BY <2>3
    <3>2. Known(i - 1, i - 1) = << >>
      OBVIOUS
    <3> QED  BY <2>1, <3>1, <3>2 DEF Unlinked
  <2>6. e = [g EXCEPT ![i - 1] = Neighbors(title_of, links)]
    <3>1. ASSUME NEW d \in Ids
          PROVE  Known(i, d) = IF d = i - 1 THEN Neighbors(title_of, links) ELSE Known(i - 1, d)
      <4>1. CASE d = i - 1
        <5>1. d < i /\ d + 1 = i
          BY <4>1
        <5> QED  BY <4>1, <5>1
      <4>2. CASE d # i - 1
        <5>1. d < i <=> d < i - 1
          BY <4>2
        <5> QED  BY <4>2, <5>1
      <4> QED  BY <4>1, <4>2
    <3> HIDE DEF Known, links
    <3>2. e = [d \in Ids |-> IF d = i - 1 THEN Neighbors(title_of, links) ELSE g[d]]
      <4>1. \A d \in Ids : g[d] = Known(i - 1, d)
        OBVIOUS
      <4>2. \A d \in Ids : Known(i, d)
              = IF d = i - 1 THEN Neighbors(title_of, links) ELSE g[d]
        BY <3>1, <4>1
      <4> QED  BY <4>2
    <3>3. DOMAIN g = Ids
      OBVIOUS
    <3> HIDE DEF g, e
    <3> QED  BY <2>3, <3>2, <3>3
  <2> HIDE DEF s, links, g, e
  <2>7. /\ PageLines(s, links) \in Seq(FileText)
        /\ Reads(title_of, [graph |-> g, line |-> << >>], PageLines(s, links))
             = [graph |-> [g EXCEPT ![title_of[s]] = Neighbors(title_of, links)],
                line |-> << >>]
    BY <2>1, <2>2, <2>4, <2>5, PageRead
  <2>8. [g EXCEPT ![title_of[s]] = Neighbors(title_of, links)] = e
    BY <2>1, <2>6
  <2> QED  BY <2>7, <2>8 DEF s, links, g, e
<1>5. parts \in Seq(Seq(FileText)) /\ Len(parts) = docs
      /\ \A i \in 1..docs : parts[i] = PageLines(titles_of[i], links_of[i])
  <2>1. \A i \in 1..docs : PageLines(titles_of[i], links_of[i]) \in Seq(FileText)
    BY <1>4
  <2> QED  BY <1>0, <2>1
<1>6. ReadsThrough(title_of, parts, h)
  <2> HIDE DEF parts, Part
  <2>1. ASSUME NEW i \in 1..docs PROVE h[i] = Reads(title_of, h[i - 1], parts[i])
    <3>1. i \in 0..docs /\ i - 1 \in 0..docs
      OBVIOUS
    <3>2. /\ h[i] = [graph |-> Part(i), line |-> << >>]
          /\ h[i - 1] = [graph |-> Part(i - 1), line |-> << >>]
      BY <3>1
    <3> HIDE DEF h
    <3> QED  BY <1>4, <1>5, <3>2
  <2> HIDE DEF h
  <2> QED  BY <1>5, <2>1 DEF ReadsThrough
<1> DEFINE file == FlattenSeq(parts)
           nothing == [graph |-> [id \in Ids |-> << >>], line |-> << >>]
           whole == BuildAdjacencyList(title_of, links_of, docs)
<1>7. file = SaveLinkGraph(titles_of, links_of)
  BY DEF SaveLinkGraph, PageLines
<1>8. h[0] = nothing /\ h[docs] = [graph |-> whole, line |-> << >>]
  <2>1. 0 \in 0..docs /\ docs \in 0..docs
    OBVIOUS
  <2>2. h[0] = [graph |-> Part(0), line |-> << >>] /\ h[docs] = [graph |-> Part(docs), line |-> << >>]
    <3> HIDE DEF Part
    <3> QED  BY <2>1
  <2>3. Part(0) = [id \in Ids |-> << >>]
    <3>1. \A d \in Ids : Known(0, d) = << >>
      OBVIOUS
    <3> HIDE DEF Known
    <3> QED  BY <3>1
  <2>4. Part(docs) = whole
    <3>1. \A d \in Ids : Known(docs, d) = Neighbors(title_of, links_of[d + 1])
      OBVIOUS
    <3> HIDE DEF Known
    <3> QED  BY <3>1 DEF BuildAdjacencyList
  <2> HIDE DEF h, Part, whole
  <2> QED  BY <2>2, <2>3, <2>4
<1>9. Reads(title_of, nothing, file) = [graph |-> whole, line |-> << >>]
  <2> HIDE DEF h, parts, nothing, whole
  <2>1. Reads(title_of, h[0], FlattenSeq(parts)) = h[docs]
    BY <1>3, <1>5, <1>6, PartsRead
  <2> QED  BY <1>8, <2>1
<1>10. LoadAdjacencyList(file, title_of, docs)
         = LET read == Reads(title_of, nothing, file) IN WithEdge(title_of, read.graph, read.line)
  BY DEF LoadAdjacencyList, Reads
<1> HIDE DEF file, nothing, whole
<1>11. LoadAdjacencyList(file, title_of, docs) = WithEdge(title_of, whole, << >>)
  BY <1>9, <1>10
<1>12. ~IsEdge(title_of, << >>)
  <2>1. {pos \in 1..Len(<< >>) : StartsWithAt(<< >>, pos, <<Tab>>)} = {}
    BY Len(<< >>) = 0
  <2>2. Find(<< >>, <<Tab>>, 1) = NPos
    BY <2>1 DEF Find
  <2> QED  BY <2>2 DEF IsEdge
<1> QED  BY <1>7, <1>11, <1>12 DEF WithEdge, whole

\* Every title leads to an id, and the file is the text of the links.
LinksAreKept ==
  /\ title_to_id = [t \in DOMAIN title_to_id |-> title_to_id[t]]
  /\ \A i \in 1..doc_id : titles_by_id[i] \in DOMAIN title_to_id
  /\ status \in {"saved", "done"} => link_graph = SaveLinkGraph(titles_by_id, raw_links)

LEMMA LinksKeptStep ==
  ASSUME Inv, LinksAreKept, [Next]_vars
  PROVE  LinksAreKept'
<1>1. CASE AddPage /\ status = "parsing" /\ status' = "parsing"
  <2>1. /\ doc_id \in Nat /\ doc_id' = doc_id + 1
        /\ titles_by_id' = Append(titles_by_id, title)
        /\ title_to_id' = [z \in DOMAIN title_to_id \cup {title} |->
                             IF z = title THEN doc_id ELSE title_to_id[z]]
    <3>1. doc_id \in Nat
      BY TypesFollow DEF TypeOK
    <3> QED  BY <1>1, <3>1 DEF AddPage, With
  <2>2. ASSUME NEW i \in 1..doc_id + 1 PROVE titles_by_id'[i] \in DOMAIN title_to_id'
    <3> DEFINE T(p) == TitleOf(p)
    <3>1. titles_by_id = [k \in 1..doc_id |-> T(Indexable[k])]
      BY PagesFollow DEF PagesAsStripped
    <3> HIDE DEF T
    <3>2. \/ i \in 1..doc_id /\ titles_by_id'[i] = titles_by_id[i]
          \/ titles_by_id'[i] = title
      BY <2>1, <3>1
    <3> QED  BY <2>1, <3>2 DEF LinksAreKept
  <2>3. title_to_id' = [t \in DOMAIN title_to_id' |-> title_to_id'[t]]
    BY <2>1
  <2>4. status' \notin {"saved", "done"}
    BY <1>1
  <2> QED  BY <2>1, <2>2, <2>3, <2>4 DEF LinksAreKept
<1>2. CASE NoPage /\ status' \in {"parsing", "failed", "parsed"}
  BY <1>2 DEF LinksAreKept, NoPage
<1>3. CASE SaveGraph
  BY <1>3 DEF LinksAreKept, SaveGraph, NoPage
<1>4. CASE RankPages
  BY <1>4 DEF LinksAreKept, RankPages
<1>5. CASE UNCHANGED vars
  BY <1>5 DEF LinksAreKept, vars
<1>6. CASE Parse
  <2>1. status = "parsing" /\ status' = "parsing" /\ (NoPage \/ AddPage)
    BY <1>6 DEF Parse
  <2> QED  BY <1>1, <1>2, <2>1
<1>7. CASE ParseFails \/ ParseEnds
  BY <1>2, <1>7 DEF ParseFails, ParseEnds
<1> QED  BY <1>3, <1>4, <1>5, <1>6, <1>7 DEF Next, Done

\* What the program keeps of the links while it indexes, and writes of them at the
\* end, agree (the callback and saveLinkGraph in main.cpp).
THEOREM LinksStayKept == Spec => []LinksAreKept
<1>1. Init => LinksAreKept
  BY DEF Init, NoMap, LinksAreKept
<1>2. Inv /\ LinksAreKept /\ [Next]_vars => LinksAreKept'
  BY LinksKeptStep
<1> QED  BY <1>1, <1>2, ParserFollowsDump, PTL DEF Spec

\* Orders of the ids.
LEMMA EveryIdIsListed ==
  ASSUME NEW n \in Nat, NEW ids \in SetToSeqs(0..n - 1)
  PROVE  /\ Len(ids) = n /\ ids \in [1..n -> 0..n - 1]
         /\ \A id \in 0..n - 1 : \E k \in 1..n : ids[k] = id
<1>1. /\ Cardinality(0..n - 1) = n /\ IsFiniteSet(0..n - 1)
      /\ Cardinality(1..n) = n /\ IsFiniteSet(1..n)
  <2>1. 0 \in Int /\ 1 \in Int /\ n \in Int /\ n - 1 \in Int
    OBVIOUS
  <2>2. /\ IsFiniteSet(0..n - 1) /\ Cardinality(0..n - 1) = IF 0 > n - 1 THEN 0 ELSE (n - 1) - 0 + 1
        /\ IsFiniteSet(1..n) /\ Cardinality(1..n) = IF 1 > n THEN 0 ELSE n - 1 + 1
    BY <2>1, FS_Interval
  <2> QED  BY <2>2
<1>2. ids \in [1..n -> 0..n - 1] /\ \A i, j \in 1..n : i # j => ids[i] # ids[j]
  BY <1>1 DEF SetToSeqs
<1>3. ids \in Injection(1..n, 0..n - 1)
  BY <1>2 DEF Injection, IsInjective
<1>4. ids \in Surjection(1..n, 0..n - 1)
  BY <1>1, <1>3, FS_Injection
<1>5. Len(ids) = n
  BY <1>2
<1> QED  BY <1>2, <1>4, <1>5 DEF Surjection

LEMMA SomeOrder ==
  ASSUME NEW n \in Nat
  PROVE  SetToSeqs(0..n - 1) # {}
<1>1. Cardinality(0..n - 1) = n
  <2>1. 0 \in Int /\ n - 1 \in Int
    OBVIOUS
  <2>2. Cardinality(0..n - 1) = IF 0 > n - 1 THEN 0 ELSE (n - 1) - 0 + 1
    BY <2>1, FS_Interval
  <2> QED  BY <2>2
<1> DEFINE ids == [i \in 1..n |-> i - 1]
<1>2. ids \in [1..n -> 0..n - 1] /\ \A i, j \in 1..n : i # j => ids[i] # ids[j]
  OBVIOUS
<1> HIDE DEF ids
<1> QED  BY <1>1, <1>2 DEF SetToSeqs

\* If no two documents have one title, the order of the store does not matter.
LEMMA TitlesLeadBack ==
  ASSUME NEW n \in Nat, NEW titles_of, DOMAIN titles_of = 0..n - 1,
         NEW title_of, title_of = [t \in DOMAIN title_of |-> title_of[t]],
         DOMAIN title_of = {titles_of[id] : id \in 0..n - 1},
         \A id \in 0..n - 1 : title_of[titles_of[id]] = id,
         NEW ids \in SetToSeqs(0..n - 1)
  PROVE  TitleIds(titles_of, ids) = title_of
<1>1. /\ Len(ids) = n /\ ids \in [1..n -> 0..n - 1]
      /\ \A id \in 0..n - 1 : \E k \in 1..n : ids[k] = id
  BY EveryIdIsListed
<1> DEFINE PlacesOf(t) == {k \in 1..Len(ids) : titles_of[ids[k]] = t}
           place(t) == IF PlacesOf(t) # {} THEN Max(PlacesOf(t)) ELSE 0
<1>2. TitleIds(titles_of, ids) = [t \in DOMAIN title_of |-> ids[place(t)]]
  BY DEF TitleIds, SelectLastInSeq
<1>3. ASSUME NEW t \in DOMAIN title_of PROVE ids[place(t)] = title_of[t]
  <2>1. PICK id \in 0..n - 1 : t = titles_of[id]
    OBVIOUS
  <2>2. PICK k \in 1..n : ids[k] = id
    BY <1>1, <2>1
  <2>3. k \in PlacesOf(t) /\ PlacesOf(t) \in SUBSET (1..n)
    BY <1>1, <2>1, <2>2
  <2> DEFINE S == PlacesOf(t)
  <2> HIDE DEF PlacesOf
  <2>4. place(t) \in S
    <3>1. S # {} /\ place(t) = Max(S)
      BY <2>3
    <3> HIDE DEF S
    <3> QED  BY <2>3, <3>1, LargestNumber DEF S
  <2>5. place(t) \in 1..n /\ titles_of[ids[place(t)]] = t
    <3> HIDE DEF place
    <3> QED  BY <1>1, <2>4 DEF S, PlacesOf
  <2> HIDE DEF place
  <2>6. ids[place(t)] \in 0..n - 1
    BY <1>1, <2>5
  <2> QED  BY <2>5, <2>6
<1> HIDE DEF place
<1> QED  BY <1>2, <1>3

\* No title of the dumps has a tab or a line break.
TitlesFitLines ==
  \A d \in Dumps : \A i \in 1..Len(d) : {Tab, NewLine} \cap Range(TitleOf(d[i])) = {}

LEMMA LinesFollow ==
  ASSUME TitlesFitLines, Inv, dump \in Dumps
  PROVE  /\ \A i \in 1..doc_id : OneField(titles_by_id[i])
         /\ raw_links \in Seq(Seq(Seq(Chars))) /\ Len(raw_links) = doc_id
         /\ \A i \in 1..doc_id : store[i - 1].title = titles_by_id[i]
<1> DEFINE S == {p \in Pages : /\ OneField(TitleOf(p))
                               /\ CleanOf(p).internal_links \in Seq(Seq(Chars))}
<1>1. \A i \in 1..Len(dump) : dump[i] \in S
  <2> SUFFICES ASSUME NEW i \in 1..Len(dump) PROVE dump[i] \in S
    OBVIOUS
  <2>1. dump[i] \in Pages
    BY DEF Inv
  <2>2. TitleOf(dump[i]) \in Seq(Chars)
    BY <2>1, SomethingGathered DEF Pages, Pieces, TitleOf
  <2> QED  BY <2>1, <2>2, TextsOfPages DEF TitlesFitLines, OneField
<1>2. Indexable \in Seq(S) /\ doc_id \in Nat /\ doc_id <= Len(Indexable)
  <2> HIDE DEF S
  <2> QED  BY <1>1, PagesOfSort
<1>3. ASSUME NEW i \in 1..doc_id
      PROVE  /\ OneField(TitleOf(Indexable[i]))
             /\ CleanOf(Indexable[i]).internal_links \in Seq(Seq(Chars))
  <2>1. Indexable[i] \in S
    <3> HIDE DEF S
    <3> QED  BY <1>2
  <2> QED  BY <2>1
<1>4. /\ titles_by_id = [i \in 1..doc_id |-> TitleOf(Indexable[i])]
      /\ raw_links = [i \in 1..doc_id |-> CleanOf(Indexable[i]).internal_links]
      /\ \A i \in 1..doc_id : \E rank : store[i - 1] = Document(Indexable[i], rank)
  BY PagesFollow DEF PagesAsStripped
<1>5. \A i \in 1..doc_id : OneField(titles_by_id[i])
  BY <1>3, <1>4
<1>6. raw_links \in Seq(Seq(Seq(Chars))) /\ Len(raw_links) = doc_id
  <2> DEFINE LinksOf(p) == CleanOf(p).internal_links
             W == Seq(Seq(Chars))
  <2>1. \A i \in 1..doc_id : LinksOf(Indexable[i]) \in W
    BY <1>3
  <2>2. raw_links = [i \in 1..doc_id |-> LinksOf(Indexable[i])]
    BY <1>4
  <2> HIDE DEF LinksOf, W
  <2>3. raw_links \in Seq(W) /\ Len(raw_links) = doc_id
    BY <1>2, <2>1, <2>2
  <2> QED  BY <2>3 DEF W
<1>7. ASSUME NEW i \in 1..doc_id PROVE store[i - 1].title = titles_by_id[i]
  <2>1. PICK rank : store[i - 1] = Document(Indexable[i], rank)
    BY <1>4
  <2> QED  BY <1>4, <2>1 DEF Document
<1> QED  BY <1>5, <1>6, <1>7

LEMMA GraphReturns ==
  ASSUME TitlesFitLines, Inv, dump \in Dumps, LinksAreKept
  PROVE  GraphSurvivesFile
<1> SUFFICES ASSUME status = "saved", TitlesDistinct,
                    \A i \in DOMAIN raw_links : \A j \in DOMAIN raw_links[i] :
                      OneLine(raw_links[i][j])
             PROVE  GraphsOffline = {GraphIndexed}
  BY DEF GraphSurvivesFile
<1> DEFINE n == doc_id
           titles_of == [id \in DOMAIN store |-> store[id].title]
<1>1. /\ \A i \in 1..n : OneField(titles_by_id[i]) /\ store[i - 1].title = titles_by_id[i]
      /\ raw_links \in Seq(Seq(Seq(Chars))) /\ Len(raw_links) = n
  BY LinesFollow
<1>2. /\ n \in Nat /\ DOMAIN store = 0..n - 1 /\ Len(titles_by_id) = n
      /\ \A t \in DOMAIN title_to_id :
           title_to_id[t] \in 0..n - 1 /\ store[title_to_id[t]].title = t
  BY TypesFollow DEF TypeOK
<1>3. DOMAIN titles_by_id = 1..n
  <2>1. titles_by_id = [i \in 1..n |-> TitleOf(Indexable[i])]
    BY PagesFollow DEF PagesAsStripped
  <2> QED  BY <2>1
<1>4. ASSUME NEW id \in 0..n - 1
      PROVE  /\ titles_of[id] = titles_by_id[id + 1] /\ titles_of[id] \in DOMAIN title_to_id
             /\ title_to_id[titles_of[id]] = id
  <2>1. id + 1 \in 1..n /\ (id + 1) - 1 = id
    BY <1>2
  <2>2. titles_of[id] = store[id].title /\ store[id].title = titles_by_id[id + 1]
    BY <1>1, <1>2, <2>1
  <2>3. titles_by_id[id + 1] \in DOMAIN title_to_id
    BY <2>1 DEF LinksAreKept
  <2> DEFINE t == titles_of[id]
             back == title_to_id[t]
  <2>4. back \in 0..n - 1 /\ store[back].title = t
    BY <1>2, <2>2, <2>3
  <2>5. back + 1 \in 1..n /\ (back + 1) - 1 = back
    BY <1>2, <2>4
  <2>6. titles_by_id[back + 1] = titles_by_id[id + 1]
    BY <1>1, <2>2, <2>4, <2>5
  <2>7. back + 1 = id + 1
    BY <1>3, <2>1, <2>5, <2>6 DEF TitlesDistinct
  <2>8. back = id
    BY <2>4, <2>7
  <2> QED  BY <2>2, <2>3, <2>8
<1>5. DOMAIN title_to_id = {titles_of[id] : id \in 0..n - 1} /\ DOMAIN titles_of = 0..n - 1
  <2>1. ASSUME NEW t \in DOMAIN title_to_id PROVE \E id \in 0..n - 1 : t = titles_of[id]
    BY <1>2
  <2> HIDE DEF titles_of
  <2>2. DOMAIN titles_of = 0..n - 1
    BY <1>2 DEF titles_of
  <2> QED  BY <1>4, <2>1, <2>2
<1>6. LeadsInto(title_to_id, 0..n - 1)
  BY <1>2 DEF LeadsInto
<1>7. LinesAreWhole(title_to_id, titles_by_id, raw_links, n)
  <2> SUFFICES ASSUME NEW i \in 1..n
               PROVE  /\ titles_by_id[i] \in DOMAIN title_to_id
                      /\ title_to_id[titles_by_id[i]] = i - 1
                      /\ OneField(titles_by_id[i]) /\ OnOneLine(raw_links[i])
    BY DEF LinesAreWhole
  <2>1. i - 1 \in 0..n - 1 /\ (i - 1) + 1 = i
    BY <1>2
  <2>2. titles_by_id[i] = titles_of[i - 1]
    <3> HIDE DEF titles_of
    <3> QED  BY <1>4, <2>1
  <2>3. titles_by_id[i] \in DOMAIN title_to_id /\ title_to_id[titles_by_id[i]] = i - 1
    <3> HIDE DEF titles_of
    <3> QED  BY <1>4, <2>1, <2>2
  <2>4. OnOneLine(raw_links[i])
    <3>1. i \in DOMAIN raw_links /\ raw_links[i] \in Seq(Seq(Chars))
      BY <1>1
    <3>2. DOMAIN raw_links[i] = 1..Len(raw_links[i])
      BY <3>1
    <3> QED  BY <3>1, <3>2 DEF OnOneLine
  <2> QED  BY <1>1, <2>3, <2>4
<1>8. link_graph = SaveLinkGraph(titles_by_id, raw_links)
  BY DEF LinksAreKept
<1>9. LoadAdjacencyList(link_graph, title_to_id, n) = GraphIndexed
  BY <1>1, <1>2, <1>6, <1>7, <1>8, FileRead DEF GraphIndexed
<1>10. \A ids \in SetToSeqs(0..n - 1) : TitleIds(titles_of, ids) = title_to_id
  <2>1. title_to_id = [t \in DOMAIN title_to_id |-> title_to_id[t]]
    BY DEF LinksAreKept
  <2>2. \A id \in 0..n - 1 : title_to_id[titles_of[id]] = id
    BY <1>4
  <2> HIDE DEF titles_of, n
  <2> QED  BY <1>2, <1>5, <2>1, <2>2, TitlesLeadBack
<1>11. Cardinality(DOMAIN store) = n /\ SetToSeqs(DOMAIN store) # {}
  <2>1. 0 \in Int /\ n - 1 \in Int
    BY <1>2
  <2>2. Cardinality(0..n - 1) = IF 0 > n - 1 THEN 0 ELSE (n - 1) - 0 + 1
    BY <2>1, FS_Interval
  <2>3. Cardinality(0..n - 1) = n
    BY <1>2, <2>2
  <2> QED  BY <1>2, <2>3, SomeOrder
<1>12. GraphsOffline = {LoadAdjacencyList(link_graph, TitleIds(titles_of, ids),
                                          Cardinality(DOMAIN store)) :
                          ids \in SetToSeqs(DOMAIN store)}
  BY DEF GraphsOffline
<1> DEFINE graph(ids) == LoadAdjacencyList(link_graph, TitleIds(titles_of, ids), n)
<1>13. \A ids \in SetToSeqs(0..n - 1) : graph(ids) = GraphIndexed
  BY <1>9, <1>10
<1>14. GraphsOffline = {graph(ids) : ids \in SetToSeqs(0..n - 1)}
  BY <1>2, <1>11, <1>12
<1> HIDE DEF graph
<1> QED  BY <1>2, <1>11, <1>13, <1>14

\* If no two pages have one title and no link is broken over two lines, the file of
\* links, read back character by character, is the graph that was in memory, edge
\* by edge (saveLinkGraph and loadAdjacencyListFromEdgeFile in main.cpp).
THEOREM GraphAlwaysSurvivesFile ==
  ASSUME TitlesFitLines
  PROVE  Spec => []GraphSurvivesFile
<1>1. Inv /\ dump \in Dumps /\ LinksAreKept => GraphSurvivesFile
  BY GraphReturns
<1> QED  BY <1>1, ParserFollowsDump, OneDump, LinksStayKept, PTL
=============================================================================
