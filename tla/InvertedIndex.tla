--------------------------- MODULE InvertedIndex ---------------------------
(***************************************************************************)
(* InvertedIndex (backend/src/inverted_index.cpp) in memory: what adding a *)
(* document does to it, and the terms it suggests.  Its files are in       *)
(* ArtifactLifecycle.                                                      *)
(*                                                                         *)
(* The map index_ is a function from the terms it has to posting lists.    *)
(***************************************************************************)
EXTENDS Naturals, FiniteSets, SequencesExt

CONSTANT TermBefore(_, _)   \* operator< of strings

NoPostings == [doc_freq |-> 0, postings |-> << >>]

EmptyIndex ==
  [index            |-> [term \in {} |-> NoPostings],
   doc_lengths      |-> [id \in {} |-> 0],
   total_docs       |-> 0,
   total_token_count |-> 0]

NewPosting(id, pos) == [doc_id |-> id, term_freq |-> 1, positions |-> <<pos>>]

\* Is the last posting of the list that of document id?
AtDocument(plist, id) == plist.postings # << >> /\ Last(plist.postings).doc_id = id

Counted(posting, pos) ==
  [posting EXCEPT !.term_freq = @ + 1, !.positions = Append(@, pos)]

\* The body of addDocument's loop, for the posting list of one token.
WithOccurrence(plist, id, pos) ==
  IF AtDocument(plist, id)
  THEN [plist EXCEPT !.postings[Len(plist.postings)] = Counted(@, pos)]
  ELSE [doc_freq |-> plist.doc_freq + 1,
        postings |-> Append(plist.postings, NewPosting(id, pos))]

\* index_[term], which makes an empty list for a new term.
PostingListOf(lists, term) == IF term \in DOMAIN lists THEN lists[term] ELSE NoPostings

WithToken(lists, token, id, pos) ==
  [term \in DOMAIN lists \cup {token} |->
     IF term = token THEN WithOccurrence(PostingListOf(lists, term), id, pos)
     ELSE lists[term]]

\* Positions count from 0.
AddDocument(ix, id, tokens) ==
  LET index[n \in 0..Len(tokens)] ==
        IF n = 0 THEN ix.index ELSE WithToken(index[n - 1], tokens[n], id, n - 1)
  IN  [index             |-> index[Len(tokens)],
       doc_lengths       |-> [d \in DOMAIN ix.doc_lengths \cup {id} |->
                                IF d = id THEN Len(tokens) ELSE ix.doc_lengths[d]],
       total_docs        |-> ix.total_docs + 1,
       total_token_count |-> ix.total_token_count + Len(tokens)]

-----------------------------------------------------------------------------
(* suggestPrefix.                                                          *)

\* The elements of a set, ordered by a strict total order.
Ordered(S, Before(_, _)) ==
  [k \in 1..Cardinality(S) |->
     CHOOSE x \in S : Cardinality({y \in S : Before(y, x)}) = k - 1]

Leads(ix, term, other) ==
  \/ ix.index[term].doc_freq > ix.index[other].doc_freq
  \/ ix.index[term].doc_freq = ix.index[other].doc_freq /\ TermBefore(term, other)

Matches(ix, prefix) == {term \in DOMAIN ix.index : IsPrefix(prefix, term)}

First(n, seq) == SubSeq(seq, 1, IF Len(seq) > n THEN n ELSE Len(seq))

SuggestFirstFound(ix, prefix, limit) ==                                \* mutant
  Ordered(Range(First(limit, SetToSeq(Matches(ix, prefix)))), LAMBDA t, u : Leads(ix, t, u))

\* By the number of documents, then by the term, and no more than limit.
SuggestPrefix(ix, prefix, limit) ==
  IF prefix = << >> THEN << >>
  ELSE First(limit, Ordered(Matches(ix, prefix), LAMBDA t, u : Leads(ix, t, u)))

-----------------------------------------------------------------------------
(* What an index is, said of the documents: docs[i] are the tokens of the  *)
(* document with id i - 1.                                                 *)

Where(term, tokens) == {i - 1 : i \in {j \in DOMAIN tokens : tokens[j] = term}}

Sorted(S) == Ordered(S, <)

PostingOf(term, docs, id) ==
  LET at == Where(term, docs[id + 1])
  IN  [doc_id |-> id, term_freq |-> Cardinality(at), positions |-> Sorted(at)]

Having(term, docs) == {i - 1 : i \in {j \in DOMAIN docs : Where(term, docs[j]) # {}}}

ListOf(term, docs) ==
  LET ids == Sorted(Having(term, docs))
  IN  [doc_freq |-> Len(ids),
       postings |-> [i \in DOMAIN ids |-> PostingOf(term, docs, ids[i])]]

IndexOf(docs) ==
  [index             |-> [term \in UNION {Range(docs[i]) : i \in DOMAIN docs} |->
                           ListOf(term, docs)],
   doc_lengths       |-> [id \in {i - 1 : i \in DOMAIN docs} |-> Len(docs[id + 1])],
   total_docs        |-> Len(docs),
   total_token_count |-> Len(FlattenSeq(docs))]
=============================================================================
