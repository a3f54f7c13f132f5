---------------------------- MODULE QueryReader ----------------------------
(***************************************************************************)
(* Texts, one after the other, read by normalizeCacheQuery and by the      *)
(* tokenizer at once, and the normalized text by a second tokenizer as it  *)
(* comes out, so that what they make of it can be compared after every     *)
(* character.  The space that ends a normalized text is taken off at the   *)
(* end: the second tokenizer gets a space only when something follows it.  *)
(***************************************************************************)
EXTENDS QueryText

VARIABLES
  text,           \* what has been read
  normalized,     \* normalizeCacheQuery after it
  raw,            \* the tokenizer after it
  cooked          \* the tokenizer after the normalized form of it

reader_vars == <<text, normalized, raw, cooked>>

ReaderInit ==
  /\ text = << >> /\ normalized = NothingRead
  /\ raw = NoTokens /\ cooked = NoTokens

NextText ==
  /\ text' = << >> /\ normalized' = NothingRead
  /\ raw' = NoTokens /\ cooked' = NoTokens

\* The tokenizer of the normalized text, given the space it has been kept from.
AfterPendingSpace ==
  IF normalized.previous_was_space /\ normalized.text # << >>
  THEN TokenizeChar(cooked, " ") ELSE cooked

Read(ch) ==
  /\ text' = Append(text, ch)
  /\ normalized' = NormalizeChar(normalized, ch)
  /\ raw' = TokenizeChar(raw, ch)
  /\ cooked' = IF normalized'.previous_was_space THEN cooked
               ELSE TokenizeChar(AfterPendingSpace, Last(normalized'.text))

ReaderNext == NextText \/ \E ch \in Chars : Read(ch)

ReaderSpec == ReaderInit /\ [][ReaderNext]_reader_vars

-----------------------------------------------------------------------------
\* A text and its cache key have the same words, so the engine finds the same for
\* both: an answer stored under the key of one text may be sent for another.
SameWords == Flushed(raw).tokens = Flushed(cooked).tokens
=============================================================================
