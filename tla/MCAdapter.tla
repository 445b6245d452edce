------------------------------ MODULE MCAdapter ------------------------------
(* Requests for the instances of Adapter that TLC checks. *)
EXTENDS Adapter

CONSTANTS A, B

Base == [q |-> 0, session |-> NoSession, mode |-> "ask", skip |-> FALSE,
         search_only |-> FALSE, async |-> FALSE, factor |-> 100,
         enabled |-> Levels]

\* adapt without session
Plain == {[Base EXCEPT !.q = q] : q \in Questions}
\* cache_skip, search_only, and a first cache that is disabled
Special == {[Base EXCEPT !.skip = TRUE], [Base EXCEPT !.search_only = TRUE],
            [Base EXCEPT !.enabled = Levels \ {1}]}
\* the API functions
Api == {[Base EXCEPT !.mode = "put", !.skip = TRUE], [Base EXCEPT !.mode = "get"]}
InSession == {[Base EXCEPT !.session = s] : s \in Sessions}
Async == {[Base EXCEPT !.async = TRUE]}

SingleRequests == Api \cup InSession \cup Async \cup Plain
ChainRequests == Plain \cup Special \cup Async

Pairs == 0..1
Line == 0..2
NoSessions == {}
OneSession == {A}
=============================================================================
