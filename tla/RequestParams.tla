--------------------------- MODULE RequestParams ---------------------------
(***************************************************************************)
(* What GET /search makes of its query string (backend/src/main.cpp): the  *)
(* checks of q, limit and offset, in the order the handler does them, and  *)
(* the cache key a valid request is turned into.                           *)
(*                                                                         *)
(* A text is an opaque value.  The constants Blank and TooLong say which   *)
(* texts hasNonWhitespace and the length check turn away; Normalize is     *)
(* normalizeCacheQuery as a function on texts.  A numeric parameter is     *)
(* Absent, Junk (characters that are not all digits) or the number its     *)
(* digits spell, of any size.                                              *)
(***************************************************************************)
EXTENDS Naturals

CONSTANTS
  Texts,         \* the query texts of a run
  Blank,         \* those without a non-space character
  TooLong,       \* those of more than kMaxQueryLength characters
  Normalize,     \* normalizeCacheQuery: [Texts -> Texts]
  Absent,        \* a parameter that the URL does not carry
  Junk,          \* a numeric parameter that is no number
  DefaultLimit,  \* kDefaultLimit
  MaxLimit,      \* kMaxLimit
  SizeMax        \* the largest size_t

ASSUME ParamsAssumption ==
  /\ Blank \subseteq Texts /\ TooLong \subseteq Texts
  /\ Normalize \in [Texts -> Texts]
  /\ Absent \notin Texts /\ Absent \notin Nat /\ Junk \notin Nat
  /\ DefaultLimit \in 1..MaxLimit
  /\ MaxLimit \in Nat /\ SizeMax \in Nat /\ MaxLimit <= SizeMax

RawSizes == {Absent, Junk} \cup Nat

\* An optional is a set of at most one element.
\* parseSizeT: all digits, and no more than a size_t holds.
ParseSize(raw) == {n \in 0..SizeMax : n = raw}

\* parseBoundedSizeParam: the values it accepts; none is an error.
BoundedSize(raw, min, max, default) ==
  IF raw = Absent THEN {default}
  ELSE {n \in ParseSize(raw) : min <= n /\ n <= max}

LimitOf(r) == BoundedSize(r.limit, 1, MaxLimit, DefaultLimit)

OffsetOf(r) == BoundedSize(r.offset, 0, SizeMax, 0)

\* The first check of the handler that a request fails, "none" if it passes.
Refusal(r) ==
  IF r.q = Absent THEN "missing_q"
  ELSE IF r.q \in Blank THEN "blank_q"
  ELSE IF r.q \in TooLong THEN "long_q"
  ELSE IF LimitOf(r) = {} THEN "bad_limit"
  ELSE IF OffsetOf(r) = {} THEN "bad_offset"
  ELSE "none"

SearchKeys == [query : Texts, limit : 1..MaxLimit, offset : 0..SizeMax]

\* What the client asked for, in its own words.
AsAsked(r) == [query  |-> r.q,
               limit  |-> CHOOSE n \in LimitOf(r) : TRUE,
               offset |-> CHOOSE n \in OffsetOf(r) : TRUE]

KeyWithoutOffset(r) ==                                                \* mutant
  [AsAsked(r) EXCEPT !.query = Normalize[@], !.offset = 0]

\* SearchCacheKey key{normalizeCacheQuery(query_view), limit, offset}
KeyOf(r) == [AsAsked(r) EXCEPT !.query = Normalize[@]]
=============================================================================
