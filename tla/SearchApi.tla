----------------------------- MODULE SearchApi -----------------------------
(***************************************************************************)
(* What the HTTP API promises its clients about /search and /stats, with   *)
(* no cache, no lock and no thread of the server in sight:                 *)
(*                                                                         *)
(*  - a search is refused for the first parameter that is wrong, or is     *)
(*    answered with what the engine finds for the words, the limit and the *)
(*    offset the client sent, whatever was searched before or meanwhile;   *)
(*  - every answered search has been counted, once, as a hit or as a miss, *)
(*    before its answer; only a miss can make the cache larger, by one     *)
(*    entry, and the cache never shrinks nor outgrows its capacity;        *)
(*  - /stats reports the three numbers as they stood at one instant.       *)
(*                                                                         *)
(* SearchService implements this specification.                            *)
(***************************************************************************)
EXTENDS RequestParams

CONSTANTS
  Clients,       \* each has one request at a time
  Requests,      \* the query strings of a run
  Search,        \* what the engine answers to a key
  Answers,
  Capacity       \* of the query cache

VARIABLES
  phase,         \* where the request of each client stands
  request,       \* the query string of its last valid search
  reply,         \* the last response each client got
  hits, misses,  \* the counters /stats reports
  stored         \* and the number of cached answers

vars == <<phase, request, reply, hits, misses, stored>>

Refused(why) == [status |-> 400, body |-> [error |-> why]]

Found(answer) == [status |-> 200, body |-> [results |-> answer]]

Counters(size, h, m) ==
  [status |-> 200, body |-> [query_cache_size   |-> size,
                             query_cache_hits   |-> h,
                             query_cache_misses |-> m]]

NoReply == [status |-> 0, body |-> [error |-> "none"]]

NoRequest == [q |-> Absent, limit |-> Absent, offset |-> Absent]

Init ==
  /\ phase = [c \in Clients |-> "idle"]
  /\ request = [c \in Clients |-> NoRequest]
  /\ reply = [c \in Clients |-> NoReply]
  /\ hits = 0 /\ misses = 0 /\ stored = 0

Refuse(c, r) ==
  /\ phase[c] = "idle"
  /\ Refusal(r) # "none"
  /\ reply' = [reply EXCEPT ![c] = Refused(Refusal(r))]
  /\ UNCHANGED <<phase, request, hits, misses, stored>>

AskSearch(c, r) ==
  /\ phase[c] = "idle"
  /\ Refusal(r) = "none"
  /\ phase' = [phase EXCEPT ![c] = "looking"]
  /\ request' = [request EXCEPT ![c] = r]
  /\ UNCHANGED <<reply, hits, misses, stored>>

CountedHit(c) ==
  /\ phase[c] = "looking"
  /\ phase' = [phase EXCEPT ![c] = "found"]
  /\ hits' = hits + 1
  /\ UNCHANGED <<request, reply, misses, stored>>

CountedMiss(c) ==
  /\ phase[c] = "looking"
  /\ phase' = [phase EXCEPT ![c] = "searching"]
  /\ misses' = misses + 1
  /\ UNCHANGED <<request, reply, hits, stored>>

\* The cache may or may not gain an entry: it may be full, or another request
\* may have stored the same answer.
Remembered(c) ==
  /\ phase[c] = "searching"
  /\ phase' = [phase EXCEPT ![c] = "found"]
  /\ stored' \in {stored} \cup ({stored + 1} \cap 0..Capacity)
  /\ UNCHANGED <<request, reply, hits, misses>>

Answer(c) ==
  /\ phase[c] = "found"
  /\ phase' = [phase EXCEPT ![c] = "idle"]
  /\ reply' = [reply EXCEPT ![c] = Found(Search[AsAsked(request[c])])]
  /\ UNCHANGED <<request, hits, misses, stored>>

AskStats(c) ==
  /\ phase[c] = "idle"
  /\ phase' = [phase EXCEPT ![c] = "stats"]
  /\ UNCHANGED <<request, reply, hits, misses, stored>>

ReportStats(c) ==
  /\ phase[c] = "stats"
  /\ phase' = [phase EXCEPT ![c] = "idle"]
  /\ reply' = [reply EXCEPT ![c] = Counters(stored, hits, misses)]
  /\ UNCHANGED <<request, hits, misses, stored>>

Next ==
  \E c \in Clients :
    \/ \E r \in Requests : Refuse(c, r) \/ AskSearch(c, r)
    \/ CountedHit(c) \/ CountedMiss(c) \/ Remembered(c) \/ Answer(c)
    \/ AskStats(c) \/ ReportStats(c)

Spec == Init /\ [][Next]_vars
=============================================================================
