-------------------------- MODULE SearchPageProofs --------------------------
(***************************************************************************)
(* The search page and its menu, for any texts, any answers of the         *)
(* backend and any number of calls.                                        *)
(*                                                                         *)
(* First the texts: what the backend takes for the prefix of a text and    *)
(* what the page takes for its active token are the same letters.  The     *)
(* backend's loop is a recursive function, and what it computes is proved  *)
(* by induction over the places of the text, as a set of numbers.  Then    *)
(* the page, in three layers: types, the menu, and the list of results.    *)
(***************************************************************************)
EXTENDS SearchPage, WellFoundedInduction, TLAPS

-----------------------------------------------------------------------------
(* Induction.                                                              *)

Smaller == {p \in Nat \X Nat : p[1] < p[2]}

\* A set of numbers that is not empty has a least one.
LEMMA LeastNumber ==
  ASSUME NEW T, T \subseteq Nat, T # {}
  PROVE  \E m \in T : \A n \in T : m <= n
<1>1. IsWellFoundedOn(Smaller, Nat)
  BY NatLessThanWellFounded, Zenon DEF OpToRel, Smaller
<1>2. PICK m \in T : \A n \in T : <<n, m>> \notin Smaller
  BY <1>1, WFMin
<1>3. ASSUME NEW n \in T PROVE m <= n
  <2>1. m \in Nat /\ n \in Nat /\ <<n, m>> \notin Smaller
    BY <1>2
  <2> QED  BY <2>1 DEF Smaller
<1> QED  BY <1>3

\* A set that has 0, and with a number the next one, has all numbers.
LEMMA Induction ==
  ASSUME NEW T, 0 \in T, \A n \in Nat : n \in T => n + 1 \in T
  PROVE  Nat \subseteq T
<1> SUFFICES ASSUME Nat \ T # {} PROVE FALSE
  OBVIOUS
<1>1. PICK m \in Nat \ T : \A n \in Nat \ T : m <= n
  <2>1. Nat \ T \subseteq Nat
    OBVIOUS
  <2> QED  BY <2>1, LeastNumber
<1>2. m - 1 \in Nat /\ ~(m <= m - 1)
  BY <1>1
<1>3. m - 1 \in T
  BY <1>1, <1>2
<1> QED  BY <1>1, <1>2, <1>3

\* A set of numbers that is not empty and has a bound has a greatest number.
LEMMA GreatestNumber ==
  ASSUME NEW T, T \subseteq Nat, T # {}, NEW b \in Nat, \A n \in T : n <= b
  PROVE  \E m \in T : \A n \in T : m >= n
<1> DEFINE Bounds == {k \in Nat : \A n \in T : n <= k}
<1>1. b \in Bounds /\ Bounds \subseteq Nat
  OBVIOUS
<1>2. PICK k \in Bounds : \A j \in Bounds : k <= j
  <2> HIDE DEF Bounds
  <2> QED  BY <1>1, LeastNumber
<1>3. k \in Nat /\ \A n \in T : n <= k
  OBVIOUS
<1>4. k \in T
  <2> SUFFICES ASSUME k \notin T PROVE FALSE
    OBVIOUS
  <2>1. \A n \in T : n \in Nat /\ n <= k - 1
    BY <1>3
  <2>2. k - 1 \in Nat
    <3>1. PICK n \in T : TRUE
      OBVIOUS
    <3> QED  BY <2>1, <3>1, <1>3
  <2>3. k - 1 \in Bounds /\ ~(k <= k - 1)
    BY <2>1, <2>2
  <2> QED  BY <1>2, <2>3
<1> QED  BY <1>3, <1>4

\* The greatest number of such a set.
LEMMA MaxIsGreatest ==
  ASSUME NEW T, T \subseteq Nat, T # {}, NEW b \in Nat, \A n \in T : n <= b
  PROVE  Max(T) \in T /\ \A n \in T : n <= Max(T)
<1>1. PICK m \in T : \A n \in T : m >= n
  BY GreatestNumber
<1>2. Max(T) \in T /\ \A n \in T : Max(T) >= n
  BY <1>1 DEF Max
<1> QED  BY <1>2

-----------------------------------------------------------------------------
(* Texts.                                                                  *)

\* The backend's loop over a text has a result after each place.
LEMMA PrefixAfterEachPlace ==
  ASSUME NEW text \in Seq(Chars)
  PROVE  \E after : /\ after = [i \in 0..Len(text) |->
                                  IF i = 0 THEN << >> ELSE PrefixChar(after[i - 1], text[i])]
                    /\ NormalizeSuggestionPrefix(text) = after[Len(text)]
<1> DEFINE n == Len(text)
           Loop(f, m) == f = [i \in 0..m |->
                                IF i = 0 THEN << >> ELSE PrefixChar(f[i - 1], text[i])]
           T == {m \in Nat : \E f : Loop(f, m)}
<1>1. 0 \in T
  <2>1. Loop([i \in 0..0 |-> << >>], 0)
    OBVIOUS
  <2> QED  BY <2>1
<1>2. ASSUME NEW m \in Nat, m \in T PROVE m + 1 \in T
  <2>1. PICK f : Loop(f, m)
    BY <1>2
  <2> DEFINE g == [i \in 0..m + 1 |->
                     IF i <= m THEN f[i] ELSE PrefixChar(f[m], text[m + 1])]
  <2>2. ASSUME NEW i \in 0..m + 1
        PROVE  g[i] = IF i = 0 THEN << >> ELSE PrefixChar(g[i - 1], text[i])
    <3>1. CASE i = 0
      <4>1. g[0] = f[0] /\ f[0] = << >>
        BY <2>1
      <4> QED  BY <3>1, <4>1
    <3>2. CASE i # 0 /\ i <= m
      <4>1. i \in 0..m /\ i - 1 \in 0..m + 1 /\ i - 1 <= m
        BY <3>2
      <4>2. f[i] = PrefixChar(f[i - 1], text[i])
        BY <2>1, <3>2, <4>1
      <4>3. g[i] = f[i] /\ g[i - 1] = f[i - 1]
        BY <3>2, <4>1
      <4> QED  BY <3>2, <4>2, <4>3
    <3>3. CASE i = m + 1
      <4>1. m \in 0..m + 1 /\ i - 1 = m /\ i # 0 /\ ~(i <= m)
        BY <3>3
      <4>2. g[i] = PrefixChar(f[m], text[m + 1]) /\ g[i - 1] = f[m]
        BY <3>3, <4>1
      <4> QED  BY <3>3, <4>1, <4>2
    <3> QED  BY <3>1, <3>2, <3>3
  <2>3. Loop(g, m + 1)
    <3>1. g = [i \in 0..m + 1 |-> g[i]]
      OBVIOUS
    <3> HIDE DEF g
    <3> QED  BY <2>2, <3>1
  <2> HIDE DEF g, Loop
  <2> QED  BY <2>3
<1>3. n \in T
  <2>1. n \in Nat
    OBVIOUS
  <2> HIDE DEF T, n
  <2> QED  BY <1>1, <1>2, <2>1, Induction
<1>4. \E f : Loop(f, n)
  BY <1>3
<1>5. NormalizeSuggestionPrefix(text) = (CHOOSE f : Loop(f, n))[n]
  BY DEF NormalizeSuggestionPrefix, Reading
<1> QED  BY <1>4, <1>5

\* After each place the loop holds, in lower case, the letters and digits since
\* the last character that was none.
LEMMA PrefixIsLowered ==
  ASSUME NEW text \in Seq(Chars)
  PROVE  \E s \in 0..Len(text) :
           /\ s = 0 \/ text[s] \notin Alnum
           /\ \A j \in s + 1 .. Len(text) : text[j] \in Alnum
           /\ NormalizeSuggestionPrefix(text) = [j \in 1..Len(text) - s |-> Lower[text[s + j]]]
<1> DEFINE n == Len(text)
           Run(s, m) == /\ s = 0 \/ text[s] \notin Alnum
                        /\ \A j \in s + 1 .. m : text[j] \in Alnum
           Lowered(s, m) == [j \in 1..m - s |-> Lower[text[s + j]]]
<1>1. PICK after : /\ after = [i \in 0..n |->
                                 IF i = 0 THEN << >> ELSE PrefixChar(after[i - 1], text[i])]
                   /\ NormalizeSuggestionPrefix(text) = after[n]
  BY PrefixAfterEachPlace
<1>2. n \in Nat /\ \A i \in 1..n : text[i] \in Chars
  OBVIOUS
<1> HIDE DEF n, Run, Lowered
<1>3. after[0] = << >>
  BY <1>1, <1>2
<1>4. \A i \in 1..n : after[i] = PrefixChar(after[i - 1], text[i])
  BY <1>1, <1>2
<1> DEFINE T == {m \in Nat : m <= n => \E s \in 0..m : Run(s, m) /\ after[m] = Lowered(s, m)}
<1>5. 0 \in T
  <2>1. Run(0, 0) /\ after[0] = Lowered(0, 0)
    BY <1>3 DEF Run, Lowered
  <2> QED  BY <2>1
<1>6. ASSUME NEW m \in Nat, m \in T PROVE m + 1 \in T
  <2> SUFFICES ASSUME m + 1 <= n
               PROVE  \E s \in 0..m + 1 : Run(s, m + 1) /\ after[m + 1] = Lowered(s, m + 1)
    OBVIOUS
  <2>1. PICK s \in 0..m : Run(s, m) /\ after[m] = Lowered(s, m)
    BY <1>2, <1>6
  <2>2. m + 1 \in 1..n /\ after[m + 1] = PrefixChar(after[m], text[m + 1])
    BY <1>2, <1>4
  <2>3. CASE text[m + 1] \in Alnum
    <3>1. after[m + 1] = Append(Lowered(s, m), Lower[text[m + 1]])
      BY <2>1, <2>2, <2>3 DEF PrefixChar
    <3>2. Append(Lowered(s, m), Lower[text[m + 1]]) = Lowered(s, m + 1)
      <4>1. Lowered(s, m) \in Seq(Chars) /\ Len(Lowered(s, m)) = m - s
        <5>1. m - s \in Nat
          BY <2>1
        <5>2. \A j \in 1..m - s : Lower[text[s + j]] \in Chars
          <6> TAKE j \in 1..m - s
          <6>1. s + j \in 1..n
            BY <1>2, <2>1
          <6>2. text[s + j] \in Chars
            BY <1>2, <6>1
          <6> QED  BY <6>2, TextAssumption
        <5> QED  BY <5>1, <5>2 DEF Lowered
      <4>2. Append(Lowered(s, m), Lower[text[m + 1]]) =
              [j \in 1..m - s + 1 |->
                 IF j <= m - s THEN Lowered(s, m)[j] ELSE Lower[text[m + 1]]]
        BY <4>1
      <4>3. \A j \in 1..m - s + 1 :
              (IF j <= m - s THEN Lowered(s, m)[j] ELSE Lower[text[m + 1]]) = Lower[text[s + j]]
        <5> TAKE j \in 1..m - s + 1
        <5>1. CASE j <= m - s
          <6>1. j \in 1..m - s
            BY <2>1, <5>1
          <6> QED  BY <5>1, <6>1 DEF Lowered
        <5>2. CASE ~(j <= m - s)
          <6>1. s + j = m + 1
            BY <2>1, <5>2
          <6> QED  BY <5>2, <6>1
        <5> QED  BY <5>1, <5>2
      <4>4. m - s + 1 = (m + 1) - s
        BY <2>1
      <4> QED  BY <4>2, <4>3, <4>4 DEF Lowered
    <3>3. Run(s, m + 1)
      BY <2>1, <2>3 DEF Run
    <3> QED  BY <2>1, <3>1, <3>2, <3>3
  <2>4. CASE text[m + 1] \notin Alnum
    <3>1. after[m + 1] = << >>
      BY <2>2, <2>4 DEF PrefixChar
    <3>2. Lowered(m + 1, m + 1) = << >>
      BY DEF Lowered
    <3>3. Run(m + 1, m + 1)
      BY <2>4 DEF Run
    <3> QED  BY <3>1, <3>2, <3>3
  <2> QED  BY <2>3, <2>4
<1>7. n \in T
  <2> HIDE DEF T
  <2> QED  BY <1>2, <1>5, <1>6, Induction
<1>8. PICK s \in 0..n : Run(s, n) /\ after[n] = Lowered(s, n)
  BY <1>2, <1>7
<1> QED  BY <1>1, <1>8 DEF n, Run, Lowered

\* The last letter or digit of a text, and the token that ends there.
LEMMA TokenOf ==
  ASSUME NEW text \in Seq(Chars), NEW i \in DOMAIN text, text[i] \in Alnum
  PROVE  LET a == ActiveToken(text)
         IN  /\ a.end \in i..Len(text) /\ a.start \in 0..a.end - 1
             /\ a.token = SubSeq(text, a.start + 1, a.end)
             /\ a.start = 0 \/ text[a.start] \notin Alnum
             /\ \A j \in a.start + 1 .. a.end : text[j] \in Alnum
             /\ \A j \in a.end + 1 .. Len(text) : text[j] \notin Alnum
<1> DEFINE n == Len(text)
           E == {j \in 1..n : text[j] \in Alnum}
           end == Max(E)
           S == {j \in 1..end : text[j] \notin Alnum}
           start == IF S # {} THEN Max(S) ELSE 0
<1>1. n \in Nat /\ i \in 1..n /\ i \in E /\ E \subseteq Nat /\ \A j \in E : j <= n
  OBVIOUS
<1>2. end \in E /\ \A j \in E : j <= end
  <2> HIDE DEF E, n
  <2>1. E # {}
    BY <1>1
  <2> QED  BY <1>1, <2>1, MaxIsGreatest
<1>3. end \in i..n /\ text[end] \in Alnum /\ \A j \in end + 1 .. n : text[j] \notin Alnum
  <2>1. end \in i..n /\ text[end] \in Alnum
    <3> HIDE DEF end
    <3> QED  BY <1>1, <1>2
  <2>2. ASSUME NEW j \in end + 1 .. n, text[j] \in Alnum PROVE FALSE
    <3> HIDE DEF end
    <3>1. j \in E
      BY <1>1, <2>1, <2>2
    <3> QED  BY <1>2, <2>1, <2>2, <3>1
  <2> QED  BY <2>1, <2>2
<1> HIDE DEF E, end, n
<1>4. S \subseteq Nat /\ end \in Nat /\ \A j \in S : j <= end
  BY <1>1, <1>3
<1>5. S # {} => start \in S /\ \A j \in S : j <= start
  <2> SUFFICES ASSUME S # {} PROVE Max(S) \in S /\ \A j \in S : j <= Max(S)
    OBVIOUS
  <2> HIDE DEF S
  <2> QED  BY <1>4, MaxIsGreatest
<1>6. /\ start \in 0..end - 1
      /\ start = 0 \/ text[start] \notin Alnum
      /\ \A j \in start + 1 .. end : text[j] \in Alnum
  <2>1. CASE S = {}
    <3>1. start = 0 /\ \A j \in 1..end : text[j] \in Alnum
      BY <2>1
    <3>2. end >= 1
      BY <1>1, <1>3
    <3> QED  BY <1>4, <3>1, <3>2
  <2>2. CASE S # {}
    <3>1. start \in S /\ \A j \in S : j <= start
      BY <1>5, <2>2
    <3> HIDE DEF start
    <3>2. start \in 1..end /\ text[start] \notin Alnum
      BY <3>1
    <3>3. start # end
      BY <1>3, <3>2
    <3>4. ASSUME NEW j \in start + 1 .. end, text[j] \notin Alnum PROVE FALSE
      <4>1. j \in S
        BY <1>4, <3>2, <3>4
      <4> QED  BY <1>4, <3>1, <3>2, <4>1
    <3> QED  BY <1>4, <3>2, <3>3, <3>4
  <2> QED  BY <2>1, <2>2
<1>7. ActiveToken(text) = [start |-> start, end |-> end, token |-> SubSeq(text, start + 1, end)]
  <2>1. SelectLastInSeq(text, LAMBDA c : c \in Alnum) = end
    BY <1>1 DEF SelectLastInSeq, E, end, n
  <2>2. SelectLastInSubSeq(text, 1, end, LAMBDA c : c \notin Alnum) = start
    <3> HIDE DEF end
    <3> QED  BY DEF SelectLastInSubSeq
  <2> QED  BY <2>1, <2>2 DEF ActiveToken
<1> HIDE DEF start
<1> QED  BY <1>3, <1>6, <1>7 DEF n

\* The prefix the backend reads is the token the page would replace, in lower case.
LEMMA PrefixIsActiveToken ==
  ASSUME NEW text \in Seq(Chars), NormalizeSuggestionPrefix(text) # << >>
  PROVE  NormalizeSuggestionPrefix(text) = LowerCase(ActiveToken(text).token)
<1> DEFINE n == Len(text)
           a == ActiveToken(text)
<1>1. PICK s \in 0..n :
        /\ s = 0 \/ text[s] \notin Alnum
        /\ \A j \in s + 1 .. n : text[j] \in Alnum
        /\ NormalizeSuggestionPrefix(text) = [j \in 1..n - s |-> Lower[text[s + j]]]
  BY PrefixIsLowered
<1>2. n \in Nat /\ s < n
  BY <1>1
<1>3. n \in DOMAIN text /\ text[n] \in Alnum
  BY <1>1, <1>2
<1>4. /\ a.end \in n..n /\ a.start \in 0..a.end - 1
      /\ a.token = SubSeq(text, a.start + 1, a.end)
      /\ a.start = 0 \/ text[a.start] \notin Alnum
      /\ \A j \in a.start + 1 .. a.end : text[j] \in Alnum
  BY <1>3, TokenOf
<1> HIDE DEF a
<1>5. a.start = s
  <2> HIDE DEF n
  <2>1. s \in Nat /\ a.start \in Nat /\ a.end = n /\ a.start < n
    BY <1>1, <1>2, <1>4
  <2>2. ASSUME s < a.start PROVE FALSE
    <3>1. a.start \in s + 1 .. n /\ a.start # 0
      BY <1>2, <2>1, <2>2
    <3> QED  BY <1>1, <1>4, <3>1
  <2>3. ASSUME a.start < s PROVE FALSE
    <3>1. s \in a.start + 1 .. n /\ s # 0
      BY <1>2, <2>1, <2>3
    <3> QED  BY <1>1, <1>4, <2>1, <3>1
  <2> QED  BY <2>1, <2>2, <2>3
<1>6. a.token = SubSeq(text, s + 1, n)
  BY <1>2, <1>4, <1>5
<1>7. SubSeq(text, s + 1, n) = [j \in 1..n - s |-> text[s + j]]
  BY <1>1, <1>2
<1>8. LowerCase(a.token) = [j \in 1..n - s |-> Lower[text[s + j]]]
  BY <1>6, <1>7 DEF LowerCase
<1> QED  BY <1>1, <1>8 DEF a

HasLetter(text) == \E i \in DOMAIN text : text[i] \in Alnum

\* A text with a letter has something to complete, and is not blank.
LEMMA LetterToComplete ==
  ASSUME NEW text \in Seq(Chars), HasLetter(text)
  PROVE  ~NothingToComplete(text) /\ Trim(text) # << >>
<1>1. PICK i \in DOMAIN text : text[i] \in Alnum
  BY DEF HasLetter
<1>2. ActiveToken(text).token # << >>
  <2> DEFINE a == ActiveToken(text)
  <2>1. /\ a.end \in i..Len(text) /\ a.start \in 0..a.end - 1
        /\ a.token = SubSeq(text, a.start + 1, a.end)
    BY <1>1, TokenOf
  <2> HIDE DEF a
  <2>2. Len(a.token) = a.end - a.start /\ a.end - a.start > 0
    BY <2>1, SMTT(30)
  <2>3. a.token # << >>
    BY <2>2
  <2> QED  BY <2>3 DEF a
<1>3. Trim(text) # << >>
  <2> DEFINE B == {j \in 1..Len(text) : text[j] \notin Space}
  <2>1. text[i] \notin Space /\ i \in 1..Len(text)
    <3>1. text[i] \in CharAlnum
      BY <1>1, TextAssumption
    <3>2. text[i] \notin Space
      BY <3>1, TextAssumption
    <3> QED  BY <3>2
  <2>2. i \in B /\ B \subseteq Nat /\ (\A j \in B : j <= Len(text)) /\ Len(text) \in Nat
    BY <2>1
  <2>3. HasNonWhitespace(text)
    BY <2>1 DEF HasNonWhitespace
  <2>4. Trim(text) = SubSeq(text, Min(B), Max(B))
    BY <2>2, <2>3 DEF Trim, SelectInSeq, SelectLastInSeq
  <2>5. B \subseteq 1..Len(text)
    OBVIOUS
  <2> HIDE DEF B
  <2>6. Max(B) \in B /\ \A j \in B : j <= Max(B)
    BY <2>2, MaxIsGreatest
  <2>7. Min(B) \in B
    <3>1. \E m \in B : \A j \in B : m <= j
      BY <2>2, LeastNumber
    <3> QED  BY <3>1 DEF Min
  <2>8. Min(B) <= Max(B) /\ Min(B) \in 1..Len(text) /\ Max(B) \in 1..Len(text)
    BY <2>5, <2>6, <2>7
  <2>9. Len(SubSeq(text, Min(B), Max(B))) = Max(B) - Min(B) + 1
    BY <2>8
  <2> QED  BY <2>4, <2>8, <2>9
<1> QED  BY <1>2, <1>3 DEF NothingToComplete

\* What picking a suggestion leaves in the box has a letter.
LEMMA PickingLeavesLetter ==
  ASSUME NEW text \in BoxTexts, NEW prefix \in DOMAIN Suggested,
         NEW i \in DOMAIN Suggested[prefix]
  PROVE  /\ ReplaceActiveToken(text, Suggested[prefix][i]) \in BoxTexts
         /\ HasLetter(ReplaceActiveToken(text, Suggested[prefix][i]))
<1> DEFINE word == Suggested[prefix][i]
           a == ActiveToken(text)
           head == SubSeq(text, 1, a.start)
           tail == SubSeq(text, a.end + 1, Len(text))
<1>1. text \in Seq(Chars) /\ word \in Seq(Chars)
  BY BoxAssumption
<1>2. prefix \in Seq(Alnum) /\ prefix # << >> /\ IsPrefix(prefix, word)
  BY BoxAssumption
<1> HIDE DEF word
<1>3. 1 \in DOMAIN word /\ word[1] \in Alnum
  <2>1. Len(prefix) \in Nat /\ 1 <= Len(prefix) /\ Len(prefix) <= Len(word)
    BY <1>2 DEF IsPrefix
  <2>2. SubSeq(prefix, 1, Len(prefix))[1] = prefix[1] /\ prefix[1] \in Alnum
    BY <1>2, <2>1
  <2>3. SubSeq(word, 1, Len(prefix))[1] = word[1]
    BY <1>1, <2>1
  <2> QED  BY <1>1, <1>2, <2>1, <2>2, <2>3 DEF IsPrefix
<1>4. a.start \in 0..Len(text) /\ a.end \in 0..Len(text)
  <2>1. CASE HasLetter(text)
    <3>1. PICK j \in DOMAIN text : text[j] \in Alnum
      BY <2>1 DEF HasLetter
    <3>2. a.end \in j..Len(text) /\ a.start \in 0..a.end - 1
      BY <1>1, <3>1, TokenOf
    <3> HIDE DEF a
    <3> QED  BY <1>1, <3>2
  <2>2. CASE ~HasLetter(text)
    <3>1. {j \in 1..Len(text) : text[j] \in Alnum} = {}
      BY <1>1, <2>2 DEF HasLetter
    <3>2. SelectLastInSeq(text, LAMBDA c : c \in Alnum) = 0
      BY <3>1 DEF SelectLastInSeq
    <3>3. SelectLastInSubSeq(text, 1, 0, LAMBDA c : c \notin Alnum) = 0
      BY DEF SelectLastInSubSeq
    <3>4. a.start = 0 /\ a.end = 0
      BY <3>2, <3>3 DEF ActiveToken
    <3> HIDE DEF a
    <3> QED  BY <1>1, <3>4
  <2> QED  BY <2>1, <2>2
<1>5. ReplaceActiveToken(text, word) = head \o word \o tail
  BY DEF ReplaceActiveToken
<1> HIDE DEF a
<1>6. head \in Seq(Chars) /\ tail \in Seq(Chars) /\ Len(head) = a.start
  BY <1>1, <1>4
<1> HIDE DEF head, tail
<1>7. /\ a.start + 1 \in DOMAIN (head \o word \o tail)
      /\ (head \o word \o tail)[a.start + 1] = word[1]
  BY <1>1, <1>3, <1>6
<1>8. HasLetter(ReplaceActiveToken(text, word))
  BY <1>3, <1>5, <1>7 DEF HasLetter
<1>9. ReplaceActiveToken(text, word) \in BoxTexts
  BY BoxAssumption DEF word
<1> QED  BY <1>8, <1>9 DEF word

-----------------------------------------------------------------------------
(* Types.                                                                  *)

\* A call that has ended leaves the others as they were.
LEMMA RemovedAt ==
  ASSUME NEW S, NEW s \in Seq(S), NEW i \in DOMAIN s
  PROVE  /\ RemoveAt(s, i) \in Seq(S)
         /\ Len(RemoveAt(s, i)) = Len(s) - 1
         /\ \A j \in DOMAIN RemoveAt(s, i) :
              RemoveAt(s, i)[j] = IF j < i THEN s[j] ELSE s[j + 1]
<1> DEFINE h == SubSeq(s, 1, i - 1)
           t == SubSeq(s, i + 1, Len(s))
<1>1. i \in 1..Len(s) /\ Len(s) \in Nat
  OBVIOUS
<1>2. h \in Seq(S) /\ Len(h) = i - 1 /\ \A j \in 1..i - 1 : h[j] = s[j]
  BY <1>1
<1>3. t \in Seq(S) /\ Len(t) = Len(s) - i /\ \A j \in 1..Len(s) - i : t[j] = s[i + j]
  BY <1>1
<1> HIDE DEF h, t
<1>4. RemoveAt(s, i) = h \o t
  BY DEF RemoveAt, h, t
<1>5. h \o t \in Seq(S) /\ Len(h \o t) = Len(s) - 1
  BY <1>1, <1>2, <1>3
<1>6. ASSUME NEW j \in 1..Len(s) - 1 PROVE (h \o t)[j] = IF j < i THEN s[j] ELSE s[j + 1]
  <2>1. CASE j < i
    <3>1. j \in 1..i - 1
      BY <1>1, <2>1
    <3> QED  BY <1>1, <1>2, <1>3, <2>1, <3>1
  <2>2. CASE ~(j < i)
    <3>1. j - (i - 1) \in 1..Len(s) - i /\ i + (j - (i - 1)) = j + 1
      BY <1>1, <2>2
    <3>2. (h \o t)[j] = t[j - (i - 1)]
      BY <1>1, <1>2, <1>3, <2>2, SMTT(30)
    <3> QED  BY <1>3, <2>2, <3>1, <3>2
  <2> QED  BY <2>1, <2>2
<1>7. DOMAIN (h \o t) = 1..Len(s) - 1
  BY <1>5
<1> QED  BY <1>4, <1>5, <1>6, <1>7

Lists == {Suggested[prefix] : prefix \in DOMAIN Suggested} \cup {<< >>}

\* The backend's answer for a text in the box is one of its lists.
LEMMA AnswersAreLists ==
  ASSUME NEW text \in BoxTexts PROVE AnswerFor(text) \in Lists
  BY BoxAssumption DEF AnswerFor, Lists

\* Picking from the menu leaves a text with a letter in the box.
LEMMA PickedText ==
  ASSUME MenuTypeOK, NEW i \in DOMAIN suggestions
  PROVE  /\ ReplaceActiveToken(query, suggestions[i]) \in BoxTexts
         /\ HasLetter(ReplaceActiveToken(query, suggestions[i]))
<1>1. query \in BoxTexts
  BY DEF MenuTypeOK
<1>2. PICK prefix \in DOMAIN Suggested : suggestions = Suggested[prefix]
  BY DEF MenuTypeOK
<1> QED  BY <1>1, <1>2, PickingLeavesLetter

\* What the steps of the page that are no steps of the menu do to the menu.
LEMMA PageStepsOnMenu ==
  ASSUME Next, ~MenuNext
  PROVE  \/ \E text \in Texts : EditBox(text)
         \/ \E i \in DOMAIN suggestions : SetQuery(ReplaceActiveToken(query, suggestions[i]))
              /\ showSuggestions' = FALSE /\ suggestions' = << >>
              /\ UNCHANGED <<focused, suggest_calls, suggest_asked, loadingSuggestions, overtaken>>
         \/ /\ UNCHANGED <<query, focused, timer, suggest_calls, suggest_asked, suggestions,
                           loadingSuggestions, overtaken>>
            /\ showSuggestions' \in {showSuggestions, FALSE}
<1>1. CASE \E text \in Texts : Edit(text)
  BY <1>1 DEF Edit
<1>2. CASE PressEnter \/ ClickSearch \/ LoadMore
  BY <1>2 DEF PressEnter, ClickSearch, LoadMore, BoxStays, RunSearch, Fetch
<1>3. CASE PickSuggestion
  BY <1>3 DEF PickSuggestion, RunSearch, Fetch
<1>4. CASE \E i \in DOMAIN calls : Answered(i) \/ Fails(i)
  BY <1>4 DEF Answered, Fails, Ends, menu_vars
<1> QED  BY <1>1, <1>2, <1>3, <1>4 DEF Next

LEMMA MenuTypes ==
  ASSUME MenuTypeOK, [Next]_vars PROVE MenuTypeOK'
<1>1. /\ focused \in BOOLEAN /\ timer \in BOOLEAN /\ loadingSuggestions \in BOOLEAN
      /\ showSuggestions \in BOOLEAN /\ overtaken \in BOOLEAN
      /\ suggest_asked \in Nat /\ Len(suggest_calls) <= suggest_asked
      /\ query \in BoxTexts /\ suggest_calls \in Seq(BoxTexts) /\ suggestions \in Lists
      /\ timer => ~NothingToComplete(query)
  BY DEF MenuTypeOK, Lists
<1> DEFINE Typed == /\ {focused, timer, loadingSuggestions, showSuggestions, overtaken} \subseteq BOOLEAN
                    /\ suggest_asked \in Nat /\ Len(suggest_calls) <= suggest_asked
                    /\ query \in BoxTexts /\ suggest_calls \in Seq(BoxTexts)
                    /\ suggestions \in Lists
                    /\ timer => ~NothingToComplete(query)
<1>p. Typed' => MenuTypeOK'
  BY DEF MenuTypeOK, Lists
<1>2. CASE UNCHANGED vars
  BY <1>2 DEF vars, menu_vars, MenuTypeOK
<1>3. CASE TimerFires
  <2>1. /\ suggest_calls' \in Seq(BoxTexts) /\ suggest_asked' \in Nat
        /\ Len(suggest_calls') <= suggest_asked'
    BY <1>1, <1>3 DEF TimerFires
  <2> QED  BY <1>p, <1>1, <1>3, <2>1 DEF TimerFires
<1>4. CASE Focus
  BY <1>1, <1>4 DEF Focus, MenuTypeOK, Lists
<1>5. CASE HideMenu
  BY <1>1, <1>5 DEF HideMenu, Leave, ClickOutside, Escape, MenuTypeOK, Lists
<1>6. ASSUME NEW i \in DOMAIN suggest_calls, SuggestAnswered(i) \/ SuggestFails(i)
      PROVE  MenuTypeOK'
  <2>1. /\ suggest_calls' \in Seq(BoxTexts) /\ Len(suggest_calls') <= suggest_asked
    BY <1>1, <1>6, RemovedAt DEF SuggestAnswered, SuggestFails, SuggestCallEnds
  <2>2. suggestions' \in Lists
    <3>1. suggest_calls[i] \in BoxTexts
      BY <1>1
    <3> QED  BY <1>6, <3>1, AnswersAreLists DEF SuggestAnswered, SuggestFails, Lists
  <2>3. showSuggestions' \in BOOLEAN /\ overtaken' \in BOOLEAN
    BY <1>1, <1>6, Zenon DEF SuggestAnswered, SuggestFails, SuggestCallEnds
  <2>4. UNCHANGED <<query, focused, timer, suggest_asked>> /\ loadingSuggestions' = FALSE
    BY <1>6 DEF SuggestAnswered, SuggestFails, SuggestCallEnds
  <2> QED  BY <1>p, <1>1, <2>1, <2>2, <2>3, <2>4
<1>7. ASSUME NEW text \in Texts, EditBox(text) PROVE MenuTypeOK'
  <2>1. text \in BoxTexts
    BY PageAssumption
  <2>2. timer' \in BOOLEAN /\ overtaken' \in BOOLEAN /\ loadingSuggestions' \in BOOLEAN
    BY <1>1, <1>7, Zenon DEF EditBox, SetQuery
  <2>3. suggestions' \in Lists /\ (timer' => ~NothingToComplete(query'))
    BY <1>1, <1>7 DEF EditBox, SetQuery, Lists
  <2> QED  BY <1>1, <1>7, <2>1, <2>2, <2>3 DEF EditBox, SetQuery, MenuTypeOK, Lists
<1>8. ASSUME NEW i \in DOMAIN suggestions,
             SetQuery(ReplaceActiveToken(query, suggestions[i])),
             showSuggestions' = FALSE, suggestions' = << >>,
             UNCHANGED <<focused, suggest_calls, suggest_asked, loadingSuggestions, overtaken>>
      PROVE  MenuTypeOK'
  <2>1. query' \in BoxTexts
    BY <1>8, PickedText DEF SetQuery
  <2>2. timer' \in BOOLEAN /\ (timer' => ~NothingToComplete(query'))
    BY <1>1, <1>8, Zenon DEF SetQuery
  <2> QED  BY <1>1, <1>8, <2>1, <2>2 DEF MenuTypeOK, Lists
<1>9. CASE /\ UNCHANGED <<query, focused, timer, suggest_calls, suggest_asked, suggestions,
                           loadingSuggestions, overtaken>>
            /\ showSuggestions' \in {showSuggestions, FALSE}
  BY <1>1, <1>9 DEF MenuTypeOK, Lists
<1>10. CASE MenuNext
  BY <1>3, <1>4, <1>5, <1>6, <1>10 DEF MenuNext
<1>11. CASE Next /\ ~MenuNext
  BY <1>7, <1>8, <1>9, <1>11, PageStepsOnMenu
<1> QED  BY <1>2, <1>10, <1>11

Page == [query : Queries, offset : Nat, size : 0..PageSize]

Call == [query : Queries \cup {Blank}, offset : Nat, append : BOOLEAN]

PageTypes ==
  /\ last \in Queries \cup {Blank}
  /\ results \in Seq(Page)
  /\ loading \in BOOLEAN /\ searched \in BOOLEAN /\ hasMore \in BOOLEAN
  /\ errorMessage \in BOOLEAN /\ disturbed \in BOOLEAN
  /\ offset \in Nat /\ asked \in Nat
  /\ calls \in Seq(Call)
  /\ \A i \in DOMAIN calls : calls[i].query = Blank => calls[i].append

LEMMA TypesInTwoParts == TypeOK <=> MenuTypeOK /\ PageTypes
  BY DEF TypeOK, PageTypes, Page, Call

\* The answer to a call for a text that is not blank is a page.
LEMMA AnswerIsPage ==
  ASSUME NEW call \in Call, call.query # Blank
  PROVE  [query |-> call.query, offset |-> call.offset,
          size |-> Size(call.query, call.offset)] \in Page
<1>1. call.query \in Queries /\ call.offset \in Nat /\ Total[call.query] \in Nat
  BY PageAssumption DEF Call
<1>2. Size(call.query, call.offset) \in 0..PageSize
  BY <1>1, PageAssumption DEF Size, Least
<1> QED  BY <1>1, <1>2 DEF Page

\* One more call.
LEMMA FetchTypes ==
  ASSUME PageTypes, NEW q \in Queries \cup {Blank}, NEW off \in Nat, NEW append \in BOOLEAN,
         Fetch(q, off, append), q = Blank => append,
         last' \in Queries \cup {Blank}, searched' \in BOOLEAN
  PROVE  PageTypes'
<1> DEFINE call == [query |-> q, offset |-> off, append |-> append]
<1>1. call \in Call /\ calls \in Seq(Call) /\ (call.query = Blank => call.append)
  BY DEF Call, PageTypes
<1>2. calls' = Append(calls, call)
  BY DEF Fetch
<1> HIDE DEF call
<1>3. /\ calls' \in Seq(Call)
      /\ \A i \in DOMAIN calls' : calls'[i].query = Blank => calls'[i].append
  <2>1. calls' \in Seq(Call) /\ Len(calls') = Len(calls) + 1
    BY <1>1, <1>2
  <2>2. ASSUME NEW i \in DOMAIN calls' PROVE calls'[i].query = Blank => calls'[i].append
    <3>1. CASE i = Len(calls) + 1
      BY <1>1, <1>2, <3>1
    <3>2. CASE i # Len(calls) + 1
      <4>1. i \in DOMAIN calls /\ calls'[i] = calls[i]
        BY <1>1, <1>2, <2>1, <3>2
      <4> QED  BY <4>1 DEF PageTypes
    <3> QED  BY <3>1, <3>2
  <2> QED  BY <2>1, <2>2
<1>4. disturbed' \in BOOLEAN
  BY Zenon DEF Fetch, PageTypes
<1>5. /\ results \in Seq(Page) /\ offset \in Nat /\ hasMore \in BOOLEAN /\ asked \in Nat
  BY DEF PageTypes
<1>6. /\ results' \in Seq(Page) /\ offset' \in Nat /\ hasMore' \in BOOLEAN
      /\ asked' = asked + 1 /\ loading' = TRUE /\ errorMessage' = FALSE
  BY <1>5, Zenon DEF Fetch
<1>7. asked' \in Nat
  <2> HIDE DEF Fetch
  <2>1. asked \in Nat /\ asked' = asked + 1
    BY <1>5, <1>6
  <2> QED  BY <2>1
<1>8. loading' \in BOOLEAN /\ errorMessage' \in BOOLEAN
  BY <1>6, Zenon
<1> QED  BY <1>3, <1>4, <1>6, <1>7, <1>8, Zenon DEF PageTypes

\* A search by a person is for a text that is not blank.
LEMMA RunSearchTypes ==
  ASSUME PageTypes, NEW text \in BoxTexts, RunSearch(text)
  PROVE  PageTypes'
<1>1. Trim(text) \in Queries \cup {Blank} /\ Trim(text) # Blank
  BY PageAssumption DEF RunSearch
<1> QED  BY <1>1, FetchTypes DEF RunSearch

LEMMA PageTypesPreserved ==
  ASSUME MenuTypeOK, PageTypes, [Next]_vars PROVE PageTypes'
<1>1. CASE UNCHANGED search_vars
  BY <1>1 DEF search_vars, PageTypes
<1>2. CASE PressEnter \/ ClickSearch
  <2>1. query \in BoxTexts
    BY DEF MenuTypeOK
  <2> QED  BY <1>2, <2>1, RunSearchTypes DEF PressEnter, ClickSearch
<1>3. CASE PickSuggestion
  BY <1>3, PickedText, RunSearchTypes DEF PickSuggestion
<1>4. CASE LoadMore
  <2>1. Trim(query) \in Queries \cup {Blank}
    BY PageAssumption DEF MenuTypeOK
  <2>2. NextOffset \in Nat
    BY PageAssumption DEF NextOffset, PageTypes
  <2>3. last' \in Queries \cup {Blank} /\ searched' \in BOOLEAN
    BY <1>4 DEF LoadMore, PageTypes
  <2> QED  BY <1>4, <2>1, <2>2, <2>3, FetchTypes DEF LoadMore
<1>5. ASSUME NEW i \in DOMAIN calls, Answered(i) \/ Fails(i) PROVE PageTypes'
  <2>1. calls' \in Seq(Call) /\ calls[i] \in Call
    BY <1>5, RemovedAt DEF Answered, Fails, Ends, PageTypes
  <2>2. \A j \in DOMAIN calls' : calls'[j].query = Blank => calls'[j].append
    <3>1. calls \in Seq(Call) /\ calls' = RemoveAt(calls, i)
      BY <1>5 DEF Answered, Fails, Ends, PageTypes
    <3>2. \A j \in DOMAIN calls' : calls'[j] = IF j < i THEN calls[j] ELSE calls[j + 1]
      BY <3>1, RemovedAt
    <3>3. \A j \in DOMAIN calls' : \E k \in DOMAIN calls : calls'[j] = calls[k]
      <4> TAKE j \in DOMAIN calls'
      <4>1. Len(calls') = Len(calls) - 1 /\ j \in 1..Len(calls) - 1 /\ i \in 1..Len(calls)
        BY <2>1, <3>1, RemovedAt
      <4>2. j \in DOMAIN calls /\ j + 1 \in DOMAIN calls
        BY <3>1, <4>1
      <4> QED  BY <3>2, <4>2
    <3> QED  BY <3>3 DEF PageTypes
  <2>3. results' \in Seq(Page) /\ offset' \in Nat
    <3>1. CASE Answered(i)
      <4> DEFINE page == [query |-> calls[i].query, offset |-> calls[i].offset,
                          size |-> Size(calls[i].query, calls[i].offset)]
      <4>1. page \in Page
        BY <2>1, <3>1, AnswerIsPage DEF Answered
      <4>2. results' = IF calls[i].append THEN Append(results, page) ELSE <<page>>
        BY <3>1 DEF Answered
      <4>3. offset' = calls[i].offset
        BY <3>1 DEF Answered
      <4> HIDE DEF page
      <4> QED  BY <2>1, <4>1, <4>2, <4>3 DEF PageTypes, Call
    <3>2. CASE Fails(i)
      BY <3>2 DEF Fails, PageTypes
    <3> QED  BY <1>5, <3>1, <3>2
  <2>4. hasMore' \in BOOLEAN /\ errorMessage' \in BOOLEAN
    BY <1>5, Zenon DEF Answered, Fails, More, PageTypes
  <2>5. loading' = FALSE /\ UNCHANGED <<searched, asked, last, disturbed>>
    BY <1>5 DEF Answered, Fails, Ends
  <2> QED  BY <2>1, <2>2, <2>3, <2>4, <2>5 DEF PageTypes
<1>6. CASE \E text \in Texts : Edit(text)
  BY <1>1, <1>6 DEF Edit
<1> QED  BY <1>1, <1>2, <1>3, <1>4, <1>5, <1>6 DEF Next, vars

\* The types of the page: what is in the box, on the way and on the screen is
\* what the code puts there, and no search is for a blank text.
THEOREM TypeCorrect == Spec => []TypeOK
<1>1. Init => TypeOK
  <2> SUFFICES ASSUME Init PROVE MenuTypeOK /\ PageTypes
    BY TypesInTwoParts
  <2>1. MenuTypeOK
    <3>1. MenuInit /\ << >> \in BoxTexts
      BY BoxAssumption, Zenon DEF Init
    <3>2. /\ query = << >> /\ suggest_calls = << >> /\ suggest_asked = 0
          /\ suggestions = << >> /\ timer = FALSE
      BY <3>1, Zenon DEF MenuInit
    <3>3. {focused, timer, loadingSuggestions, showSuggestions, overtaken} \subseteq BOOLEAN
      BY <3>1 DEF MenuInit
    <3>4. suggest_calls \in Seq(BoxTexts) /\ suggest_asked \in Nat /\ Len(suggest_calls) <= suggest_asked
      BY <3>2
    <3> QED  BY <3>1, <3>2, <3>3, <3>4 DEF MenuTypeOK
  <2>2. PageTypes
    <3>1. calls = << >> /\ results = << >> /\ offset = 0 /\ asked = 0 /\ last = Blank
      BY Zenon DEF Init
    <3>2. /\ loading = FALSE /\ searched = FALSE /\ hasMore = FALSE
          /\ errorMessage = FALSE /\ disturbed = FALSE
      BY Zenon DEF Init
    <3>3. /\ results \in Seq(Page) /\ calls \in Seq(Call) /\ offset \in Nat /\ asked \in Nat
          /\ \A i \in DOMAIN calls : calls[i].query = Blank => calls[i].append
      BY <3>1
    <3> QED  BY <3>1, <3>2, <3>3 DEF PageTypes
  <2> QED  BY <2>1, <2>2
<1>2. TypeOK /\ [Next]_vars => TypeOK'
  BY TypesInTwoParts, MenuTypes, PageTypesPreserved DEF TypeOK, PageTypes, Page, Call
<1> QED  BY <1>1, <1>2, PTL DEF Spec

-----------------------------------------------------------------------------
(* Waiting, and what "Load more" is offered below.                         *)

LEMMA WaitingPreserved ==
  ASSUME TypeOK, LoadingMeansWaiting, [Next]_vars PROVE LoadingMeansWaiting'
<1>1. calls \in Seq(Call) /\ suggest_calls \in Seq(BoxTexts)
  BY TypesInTwoParts DEF PageTypes, MenuTypeOK
<1>2. loading' => calls' # << >>
  <2>1. CASE UNCHANGED search_vars
    BY <2>1 DEF search_vars, LoadingMeansWaiting
  <2>2. CASE PressEnter \/ ClickSearch \/ PickSuggestion \/ LoadMore
    <3>1. PICK q, off, append : Fetch(q, off, append)
      BY <2>2 DEF PressEnter, ClickSearch, PickSuggestion, LoadMore, RunSearch
    <3> QED  BY <1>1, <3>1 DEF Fetch
  <2>3. CASE \E i \in DOMAIN calls : Answered(i) \/ Fails(i)
    BY <2>3 DEF Answered, Fails, Ends
  <2> QED  BY <2>1, <2>2, <2>3 DEF Next, vars, Edit
<1>3. loadingSuggestions' => suggest_calls' # << >>
  <2>1. CASE MenuNext
    <3>1. CASE TimerFires
      BY <1>1, <3>1 DEF TimerFires
    <3>2. CASE Focus \/ HideMenu
      BY <3>2 DEF Focus, HideMenu, LoadingMeansWaiting
    <3>3. CASE \E i \in DOMAIN suggest_calls : SuggestAnswered(i) \/ SuggestFails(i)
      BY <3>3 DEF SuggestAnswered, SuggestFails, SuggestCallEnds
    <3> QED  BY <2>1, <3>1, <3>2, <3>3 DEF MenuNext
  <2>2. CASE Next /\ ~MenuNext
    BY <2>2, PageStepsOnMenu DEF EditBox, LoadingMeansWaiting
  <2>3. CASE UNCHANGED vars
    BY <2>3 DEF vars, menu_vars, LoadingMeansWaiting
  <2> QED  BY <2>1, <2>2, <2>3
<1> QED  BY <1>2, <1>3 DEF LoadingMeansWaiting

\* The page never shows that it is loading when no call is under way, however many
\* calls overlap and in whatever order they end.
THEOREM NeverLoadsForNothing == Spec => []LoadingMeansWaiting
<1>1. Init => LoadingMeansWaiting
  BY DEF Init, MenuInit, LoadingMeansWaiting
<1> QED  BY <1>1, WaitingPreserved, TypeCorrect, PTL DEF Spec

\* What an answer leaves on the page.
LEMMA AnswerShown ==
  ASSUME PageTypes, NEW i \in DOMAIN calls, Answered(i)
  PROVE  \E page \in Page :
           /\ page.query = calls[i].query /\ page.offset = calls[i].offset
           /\ results' = IF calls[i].append THEN Append(results, page) ELSE <<page>>
           /\ results' # << >> /\ Last(results') = page
           /\ hasMore' <=> page.size = PageSize
           /\ offset' = page.offset
<1> DEFINE page == [query |-> calls[i].query, offset |-> calls[i].offset,
                    size |-> Size(calls[i].query, calls[i].offset)]
<1>1. calls[i] \in Call /\ results \in Seq(Page)
  BY DEF PageTypes
<1>2. page \in Page
  BY <1>1, AnswerIsPage DEF Answered
<1>3. /\ results' = IF calls[i].append THEN Append(results, page) ELSE <<page>>
      /\ hasMore' = More(page) /\ offset' = calls[i].offset
  BY DEF Answered
<1>4. page.query = calls[i].query /\ page.offset = calls[i].offset
  OBVIOUS
<1> HIDE DEF page
<1>5. results' # << >> /\ Last(results') = page
  BY <1>1, <1>2, <1>3 DEF Last
<1>6. hasMore' <=> page.size = PageSize
  BY <1>3 DEF More
<1> QED  BY <1>2, <1>3, <1>4, <1>5, <1>6

LEMMA FullPagePreserved ==
  ASSUME TypeOK, MoreFollowsFullPage, [Next]_vars PROVE MoreFollowsFullPage'
<1>1. PageTypes
  BY TypesInTwoParts
<1>2. CASE UNCHANGED <<results, hasMore>>
  BY <1>2 DEF MoreFollowsFullPage
<1>3. CASE UNCHANGED search_vars
  BY <1>2, <1>3 DEF search_vars
<1>4. CASE PressEnter \/ ClickSearch \/ PickSuggestion \/ LoadMore
  BY <1>2, <1>4 DEF PressEnter, ClickSearch, PickSuggestion, LoadMore, RunSearch, Fetch
<1>5. ASSUME NEW i \in DOMAIN calls, Answered(i) PROVE MoreFollowsFullPage'
  BY <1>1, <1>5, AnswerShown DEF MoreFollowsFullPage
<1>6. ASSUME NEW i \in DOMAIN calls, Fails(i) PROVE MoreFollowsFullPage'
  BY <1>6 DEF Fails, MoreFollowsFullPage
<1> QED  BY <1>2, <1>3, <1>4, <1>5, <1>6 DEF Next, vars, search_vars, Edit

\* "Load more" is offered only below a full page.
THEOREM MoreIsOfferedBelowFullPage == Spec => []MoreFollowsFullPage
<1>1. Init => MoreFollowsFullPage
  BY DEF Init, MoreFollowsFullPage
<1> QED  BY <1>1, FullPagePreserved, TypeCorrect, PTL DEF Spec

-----------------------------------------------------------------------------
(* The list of results.                                                    *)

\* The pages of one query from its first on.
Gapless ==
  \A i \in DOMAIN results :
    /\ results[i].offset = (i - 1) * PageSize
    /\ results[i].query = results[1].query
    /\ i < Len(results) => results[i].size = PageSize
    /\ offset = (Len(results) - 1) * PageSize

\* As long as calls have not overlapped, one at most is under way.  It is for the
\* text last searched for, and if it is for more of it, it is for the page that
\* follows what is shown; when none is under way, what is shown is for that text.
NextPage ==
  ~disturbed =>
    /\ Gapless
    /\ Len(calls) <= 1
    /\ calls = << >> /\ results # << >> => results[1].query = last
    /\ \A i \in DOMAIN calls :
         /\ calls[i].query = last
         /\ calls[i].append => /\ results # << >> /\ results[1].query = last
                               /\ Last(results).size = PageSize
                               /\ calls[i].offset = offset + PageSize
         /\ ~calls[i].append => calls[i].offset = 0

\* One more page below the others.
LEMMA PageAppended ==
  ASSUME PageTypes, Gapless, results # << >>, Last(results).size = PageSize,
         NEW page \in Page, page.query = results[1].query, page.offset = offset + PageSize,
         results' = Append(results, page), offset' = page.offset
  PROVE  Gapless' /\ results'[1] = results[1]
<1> DEFINE n == Len(results)
<1>1. /\ results \in Seq(Page) /\ n \in Nat /\ n >= 1 /\ PageSize \in Nat
      /\ DOMAIN results = 1..n
  BY PageAssumption DEF PageTypes
<1>2. /\ Len(results') = n + 1 /\ DOMAIN results' = 1..n + 1 /\ results'[n + 1] = page
      /\ \A i \in 1..n : results'[i] = results[i]
  BY <1>1
<1>3. offset = (n - 1) * PageSize
  BY <1>1 DEF Gapless
<1> HIDE DEF n
<1>4. offset' = n * PageSize /\ (n + 1) - 1 = n
  BY <1>1, <1>3
<1>5. ASSUME NEW i \in 1..n + 1
      PROVE  /\ results'[i].offset = (i - 1) * PageSize
             /\ results'[i].query = results'[1].query
             /\ i < n + 1 => results'[i].size = PageSize
             /\ offset' = ((n + 1) - 1) * PageSize
  <2>1. CASE i = n + 1
    BY <1>1, <1>2, <1>4, <2>1
  <2>2. CASE i # n + 1
    <3>1. i \in 1..n /\ results'[i] = results[i] /\ results'[1] = results[1]
      BY <1>1, <1>2, <2>2
    <3>2. i = n \/ i < n
      BY <1>1, <3>1
    <3>3. results[i].size = PageSize
      BY <1>1, <3>1, <3>2 DEF Gapless, Last, n
    <3> QED  BY <1>1, <1>4, <3>1, <3>3 DEF Gapless
  <2> QED  BY <2>1, <2>2
<1>6. Gapless'
  BY <1>2, <1>5 DEF Gapless
<1>7. 1 \in 1..n
  BY <1>1
<1> QED  BY <1>2, <1>6, <1>7

LEMMA FirstPageGapless ==
  ASSUME NEW page \in Page, results' = <<page>>, page.offset = 0, offset' = 0
  PROVE  Gapless' /\ results'[1] = page
<1>1. DOMAIN results' = {1} /\ Len(results') = 1 /\ results'[1] = page
  OBVIOUS
<1>2. PageSize \in Nat /\ 0 * PageSize = 0 /\ 1 - 1 = 0
  BY PageAssumption
<1> QED  BY <1>1, <1>2 DEF Gapless

\* A new call, if it disturbs nothing.
LEMMA NextPageFetched ==
  ASSUME PageTypes, MoreFollowsFullPage, NextPage,
         NEW q \in Queries \cup {Blank}, NEW off \in Nat, NEW append \in BOOLEAN,
         Fetch(q, off, append), last' = q \/ (append /\ last' = last),
         append => hasMore /\ off = offset + PageSize,
         ~append => off = 0
  PROVE  NextPage'
<1> SUFFICES ASSUME ~disturbed' PROVE NextPage'
  BY DEF NextPage
<1> DEFINE call == [query |-> q, offset |-> off, append |-> append]
<1>1. ~disturbed /\ calls = << >> /\ (append => q = last) /\ last' = q
  BY DEF Fetch
<1>2. call.query = q /\ call.offset = off /\ call.append = append
  OBVIOUS
<1>3. calls' = Append(calls, call)
  BY DEF Fetch
<1> HIDE DEF call
<1>4. calls' = <<call>>
  BY <1>1, <1>3
<1>5. UNCHANGED <<results, offset>>
  BY DEF Fetch
<1>6. Gapless'
  BY <1>1, <1>5 DEF NextPage, Gapless
<1>7. /\ Len(calls') <= 1 /\ calls' # << >> /\ DOMAIN calls' = {1} /\ calls'[1] = call
  BY <1>4
<1>8. append => /\ results' # << >> /\ results'[1].query = last'
                /\ Last(results').size = PageSize /\ off = offset' + PageSize
  BY <1>1, <1>5 DEF NextPage, MoreFollowsFullPage
<1> QED  BY <1>1, <1>2, <1>6, <1>7, <1>8 DEF NextPage

LEMMA NextPagePreserved ==
  ASSUME TypeOK, MoreFollowsFullPage, NextPage, [Next]_vars PROVE NextPage'
<1>1. PageTypes /\ MenuTypeOK
  BY TypesInTwoParts
<1>2. CASE UNCHANGED search_vars
  BY <1>2 DEF search_vars, NextPage, Gapless
<1>3. ASSUME NEW text \in BoxTexts, RunSearch(text) PROVE NextPage'
  <2>1. Trim(text) \in Queries \cup {Blank}
    BY PageAssumption
  <2> QED  BY <1>1, <1>3, <2>1, NextPageFetched DEF RunSearch
<1>4. CASE PressEnter \/ ClickSearch \/ PickSuggestion
  BY <1>1, <1>3, <1>4, PickedText DEF PressEnter, ClickSearch, PickSuggestion, MenuTypeOK
<1>5. CASE LoadMore
  <2>1. Trim(query) \in Queries \cup {Blank} /\ NextOffset \in Nat
    BY <1>1, PageAssumption DEF MenuTypeOK, NextOffset, PageTypes
  <2> QED  BY <1>1, <1>5, <2>1, NextPageFetched DEF LoadMore, NextOffset
<1>6. ASSUME NEW i \in DOMAIN calls, Answered(i) \/ Fails(i) PROVE NextPage'
  <2> SUFFICES ASSUME ~disturbed PROVE NextPage'
    BY <1>6 DEF Answered, Fails, Ends, NextPage
  <2>1. /\ calls \in Seq(Call) /\ results \in Seq(Page) /\ Len(calls) = 1 /\ i = 1
        /\ calls[1].append \in BOOLEAN
    <3>1. calls \in Seq(Call) /\ results \in Seq(Page)
      BY <1>1 DEF PageTypes
    <3>2. Len(calls) <= 1 /\ i \in 1..Len(calls) /\ Len(calls) \in Nat
      BY <3>1 DEF NextPage
    <3>3. Len(calls) = 1 /\ i = 1
      <4>1. \A n \in Nat : n <= 1 => \A k \in 1..n : n = 1 /\ k = 1
        OBVIOUS
      <4> QED  BY <3>2, <4>1, Zenon
    <3>4. calls[1] \in Call
      BY <3>1, <3>3
    <3> QED  BY <3>1, <3>3, <3>4 DEF Call
  <2>2. calls' \in Seq(Call) /\ Len(calls') = 0
    BY <1>6, <2>1, RemovedAt DEF Answered, Fails, Ends
  <2>3. calls' = << >> /\ last' = last
    BY <1>6, <2>2 DEF Answered, Fails, Ends
  <2>4. Gapless' /\ (results' # << >> => results'[1].query = last)
    <3>1. CASE Answered(1) /\ calls[1].append
      <4>1. PICK page \in Page :
              /\ page.query = calls[1].query /\ page.offset = calls[1].offset
              /\ results' = Append(results, page) /\ offset' = page.offset
        BY <1>1, <2>1, <3>1, AnswerShown
      <4> QED  BY <1>1, <2>1, <3>1, <4>1, PageAppended DEF NextPage
    <3>2. CASE Answered(1) /\ ~calls[1].append
      <4>1. PICK page \in Page :
              /\ page.query = calls[1].query /\ page.offset = calls[1].offset
              /\ results' = <<page>> /\ offset' = page.offset
        BY <1>1, <2>1, <3>2, AnswerShown
      <4> QED  BY <2>1, <3>2, <4>1, FirstPageGapless DEF NextPage
    <3>3. CASE Fails(1)
      <4>1. offset' = offset /\ results' \in {results, << >>}
        BY <3>3 DEF Fails
      <4>2. calls[1].append => results # << >> /\ results[1].query = last
        BY <2>1 DEF NextPage
      <4>3. results' = IF calls[1].append THEN results ELSE << >>
        BY <3>3 DEF Fails
      <4> QED  BY <4>1, <4>2, <4>3 DEF NextPage, Gapless
    <3> QED  BY <1>6, <2>1, <3>1, <3>2, <3>3
  <2> QED  BY <2>2, <2>3, <2>4 DEF NextPage
<1> QED  BY <1>2, <1>3, <1>4, <1>5, <1>6 DEF Next, vars, Edit

\* Whatever failed or was edited in between: if calls have not overlapped and
\* pages were loaded for the text searched for, the results are the pages of one
\* query from its first on, none missing and none twice.
THEOREM PagesFollowEachOther == Spec => []PagesInSequence
<1>1. Init => NextPage
  <2> SUFFICES ASSUME Init PROVE NextPage
    OBVIOUS
  <2>1. results = << >> /\ calls = << >>
    BY Zenon DEF Init
  <2> QED  BY <2>1 DEF NextPage, Gapless
<1>2. NextPage => PagesInSequence
  BY DEF NextPage, Gapless, PagesInSequence
<1> QED  BY <1>1, <1>2, NextPagePreserved, TypeCorrect, MoreIsOfferedBelowFullPage, PTL DEF Spec

-----------------------------------------------------------------------------
(* The menu.                                                               *)

\* As long as no answer has been overtaken: once the timer has run out, the call
\* that started last is for the text in the box; and when no call is under way,
\* the menu has the answer for that text, or nothing.
MenuFollows ==
  ~overtaken /\ ~timer =>
    /\ suggest_calls # << >> => Last(suggest_calls) = query
    /\ suggest_calls = << >> => suggestions \in {<< >>, AnswerFor(query)}

\* The answer for the text in the box fits the box.
LEMMA AnswerFits ==
  ASSUME query \in BoxTexts PROVE FitsBox(AnswerFor(query))
<1> DEFINE prefix == NormalizeSuggestionPrefix(query)
<1>1. query \in Seq(Chars) /\ prefix \in DOMAIN Suggested \cup {<< >>}
  BY BoxAssumption
<1>2. CASE prefix = << >>
  <2>1. AnswerFor(query) = << >>
    BY <1>2 DEF AnswerFor
  <2> QED  BY <2>1 DEF FitsBox
<1>3. CASE prefix # << >>
  <2>1. AnswerFor(query) = Suggested[prefix]
    BY <1>3 DEF AnswerFor
  <2>2. prefix = LowerCase(ActiveToken(query).token)
    BY <1>1, <1>3, PrefixIsActiveToken
  <2> HIDE DEF prefix
  <2>3. prefix \in DOMAIN Suggested
    BY <1>1, <1>3
  <2>4. \A i \in DOMAIN Suggested[prefix] : IsPrefix(prefix, Suggested[prefix][i])
    BY <2>3, BoxAssumption
  <2> QED  BY <2>1, <2>2, <2>4 DEF FitsBox
<1> QED  BY <1>2, <1>3

LEMMA MenuFollowsPreserved ==
  ASSUME MenuTypeOK, MenuFollows, [Next]_vars PROVE MenuFollows'
<1>1. suggest_calls \in Seq(BoxTexts) /\ query \in BoxTexts
  BY DEF MenuTypeOK
<1>2. CASE UNCHANGED <<query, timer, suggest_calls, suggestions, overtaken>>
  BY <1>2 DEF MenuFollows
<1>3. CASE TimerFires
  <2>1. suggest_calls' # << >> /\ Last(suggest_calls') = query
    BY <1>1, <1>3 DEF TimerFires, Last
  <2>2. query' = query
    BY <1>3 DEF TimerFires
  <2> QED  BY <2>1, <2>2 DEF MenuFollows
<1>4. ASSUME NEW i \in DOMAIN suggest_calls, SuggestAnswered(i) \/ SuggestFails(i)
      PROVE  MenuFollows'
  <2> SUFFICES ASSUME ~overtaken', ~timer' PROVE MenuFollows'
    BY DEF MenuFollows
  <2>1. i = 1 /\ ~overtaken /\ ~timer /\ query' = query
    <3>1. overtaken' = (overtaken \/ i > 1) /\ timer' = timer /\ query' = query
      BY <1>4, Zenon DEF SuggestAnswered, SuggestFails, SuggestCallEnds
    <3>2. ~(i > 1) /\ ~overtaken /\ ~timer
      BY <3>1, Zenon
    <3>3. i \in Nat /\ i >= 1
      BY <1>1
    <3>4. i = 1
      BY <3>2, <3>3
    <3> QED  BY <3>1, <3>2, <3>4
  <2>2. suggest_calls # << >> /\ Last(suggest_calls) = query
    BY <1>1, <1>4, <2>1 DEF MenuFollows
  <2>3. /\ suggest_calls' \in Seq(BoxTexts) /\ Len(suggest_calls') = Len(suggest_calls) - 1
        /\ \A j \in DOMAIN suggest_calls' : suggest_calls'[j] = suggest_calls[j + 1]
    <3>1. suggest_calls' = RemoveAt(suggest_calls, 1) /\ 1 \in DOMAIN suggest_calls
      BY <1>4, <2>1 DEF SuggestAnswered, SuggestFails, SuggestCallEnds
    <3>2. /\ RemoveAt(suggest_calls, 1) \in Seq(BoxTexts)
          /\ Len(RemoveAt(suggest_calls, 1)) = Len(suggest_calls) - 1
          /\ \A j \in DOMAIN RemoveAt(suggest_calls, 1) :
               RemoveAt(suggest_calls, 1)[j] = IF j < 1 THEN suggest_calls[j] ELSE suggest_calls[j + 1]
      BY <1>1, <3>1, RemovedAt
    <3> QED  BY <3>1, <3>2
  <2>4. suggest_calls' # << >> => Last(suggest_calls') = query
    BY <1>1, <2>2, <2>3 DEF Last
  <2>5. suggest_calls' = << >> => suggestions' \in {<< >>, AnswerFor(query)}
    <3> SUFFICES ASSUME suggest_calls' = << >> PROVE suggestions' \in {<< >>, AnswerFor(query)}
      OBVIOUS
    <3>1. suggest_calls[1] = query
      BY <1>1, <2>2, <2>3 DEF Last
    <3> QED  BY <1>4, <2>1, <3>1 DEF SuggestAnswered, SuggestFails
  <2> QED  BY <2>1, <2>4, <2>5 DEF MenuFollows
<1>5. ASSUME NEW text \in Texts, EditBox(text) PROVE MenuFollows'
  <2> SUFFICES ASSUME ~overtaken', ~timer' PROVE MenuFollows'
    BY DEF MenuFollows
  <2>1. NothingToComplete(text)
    BY <1>5 DEF EditBox, SetQuery
  <2>2. suggestions' = << >> /\ suggest_calls' = << >>
    BY <1>5, <2>1 DEF EditBox
  <2> QED  BY <2>2 DEF MenuFollows
<1>6. ASSUME NEW i \in DOMAIN suggestions,
             SetQuery(ReplaceActiveToken(query, suggestions[i])),
             suggestions' = << >>, UNCHANGED <<suggest_calls, overtaken>>
      PROVE  MenuFollows'
  <2> DEFINE text == ReplaceActiveToken(query, suggestions[i])
  <2>1. ~NothingToComplete(text)
    <3>1. text \in BoxTexts /\ HasLetter(text)
      BY PickedText
    <3>2. text \in Seq(Chars)
      BY <3>1, BoxAssumption
    <3> HIDE DEF text
    <3> QED  BY <3>1, <3>2, LetterToComplete
  <2>2. query' = text /\ timer' = IF text = query THEN timer ELSE ~NothingToComplete(text)
    BY <1>6 DEF SetQuery
  <2> HIDE DEF text
  <2>3. ~timer' => query' = query /\ ~timer
    BY <2>1, <2>2
  <2> QED  BY <1>6, <2>3 DEF MenuFollows
<1>7. CASE MenuNext
  BY <1>2, <1>3, <1>4, <1>7 DEF MenuNext, Focus, HideMenu
<1>8. CASE Next /\ ~MenuNext
  BY <1>2, <1>5, <1>6, <1>8, PageStepsOnMenu
<1> QED  BY <1>2, <1>7, <1>8 DEF vars, menu_vars

\* When the timer has run out and its call has ended, the menu has the suggestions
\* for the text in the box or none, and each continues the token it would replace:
\* unless answers have overtaken each other, or one has come to a box without a
\* token.
THEOREM MenuFits == Spec => []MenuFitsBox
<1>1. Init => MenuFollows
  <2> SUFFICES ASSUME Init PROVE MenuFollows
    OBVIOUS
  <2>1. suggest_calls = << >> /\ suggestions = << >>
    BY Zenon DEF Init, MenuInit
  <2> QED  BY <2>1 DEF MenuFollows
<1>2. TypeOK /\ MenuFollows /\ [Next]_vars => MenuFollows'
  BY MenuFollowsPreserved, TypesInTwoParts
<1>3. TypeOK /\ MenuFollows => MenuFitsBox
  <2> SUFFICES ASSUME TypeOK, MenuFollows, ~timer, suggest_calls = << >>, ~overtaken
               PROVE  suggestions \in {<< >>, AnswerFor(query)} /\ FitsBox(suggestions)
    BY DEF MenuFitsBox
  <2>1. suggestions \in {<< >>, AnswerFor(query)}
    BY DEF MenuFollows
  <2>2. FitsBox(AnswerFor(query))
    BY AnswerFits DEF TypeOK, MenuTypeOK
  <2>3. FitsBox(<< >>)
    BY DEF FitsBox
  <2> QED  BY <2>1, <2>2, <2>3
<1> QED  BY <1>1, <1>2, <1>3, TypeCorrect, PTL DEF Spec
=============================================================================
