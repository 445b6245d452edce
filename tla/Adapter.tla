------------------------------- MODULE Adapter -------------------------------
(***************************************************************************)
(* A request's way through a chain of caches: adapt and aadapt             *)
(* (gptcache/adapter/adapter.py) with the callbacks of the API functions   *)
(* put and get (adapter/api.py), Cache.flush and the next_cache chain      *)
(* (core.py), op_save of Report, and Session.                              *)
(*                                                                         *)
(* adapt looks in its cache; on a miss it calls itself on the next cache,  *)
(* or the model behind the last one, and on the way back saves what it got *)
(* in every cache it passes.  A request is therefore a stack of calls, one *)
(* per level; level 1 is the cache the caller names.                       *)
(*                                                                         *)
(* Threads share the caches: the server iterates plain generators in a     *)
(* thread pool.  Each call of the data manager, the count of the saves and *)
(* the test for auto_flush is a step.  The data manager of a level is      *)
(* abstracted to its rows, of which any may be evicted at any time.        *)
(* Questions are points on a line; an answer is the question the model     *)
(* generated it for.                                                       *)
(***************************************************************************)
EXTENDS Integers, FiniteSets, FiniteSetsExt

CONSTANTS
    Threads,        \* callers
    Depth,          \* number of caches in the chain
    Questions,      \* embedded questions
    Sessions,       \* session names
    NoSession,      \* a request without session
    NoAnswer,       \* None
    Raised,         \* an exception instead of a result
    Requests,       \* the requests the callers may make
    MinRank, MaxRank,   \* range() of the similarity evaluation
    Threshold,      \* similarity_threshold, in hundredths
    Radius,         \* no request takes a row farther away for a hit
    TopK,           \* top_k of the search
    AutoFlush,      \* config.auto_flush
    MaxRows,        \* bound: rows saved or imported in a run
    MaxFailures     \* bound: calls that raise in a run

Levels == 1..Depth
Dist(p, q) == IF p > q THEN p - q ELSE q - p

Request == [q : Questions, session : Sessions \cup {NoSession},
            mode : {"ask", "put", "get"},   \* which callbacks
            skip : BOOLEAN,         \* cache_skip
            search_only : BOOLEAN,
            async : BOOLEAN,        \* aadapt
            factor : Nat,           \* cache_factor, in hundredths
            enabled : SUBSET Levels]    \* where cache_enable_func holds

Clamp(x) == IF x > 10000 * MaxRank THEN 10000 * MaxRank
            ELSE IF x < 10000 * MinRank THEN 10000 * MinRank ELSE x

\* rank_threshold, in units of 1/10000
RankThreshold(r) == Clamp((MaxRank - MinRank) * Threshold * r.factor)

\* SearchDistanceEvaluation.evaluation
Rank(p, q) == MaxRank - (IF Dist(p, q) > MaxRank THEN MaxRank ELSE Dist(p, q))

\* rank_threshold <= rank
Similar(r, p) == RankThreshold(r) <= 10000 * Rank(r.q, p)

ASSUME DepthAssumption == Depth \in Nat \ {0}
ASSUME QuestionsAssumption == Questions \subseteq Int
ASSUME NoneAssumption ==
    /\ NoSession \notin Sessions
    /\ NoAnswer \notin Questions /\ Raised \notin Questions /\ NoAnswer # Raised
ASSUME RequestsAssumption == Requests \subseteq Request /\ Requests # {}
ASSUME RadiusAssumption ==
    /\ Radius \in Nat
    /\ \A r \in Requests, p \in Questions : Similar(r, p) => Dist(r.q, p) <= Radius
ASSUME LimitsAssumption ==
    AutoFlush \in Nat \ {0} /\ MaxRows \in Nat /\ MaxFailures \in Nat

VARIABLES
    rows,       \* level -> its rows [id, q, ans, sess]
    count,      \* level -> report.op_save.count
    unflushed,  \* level -> answers saved since its data manager was flushed
    lastId,     \* the largest row id so far
    failures,   \* calls that raised so far
    pc,         \* thread -> where adapt is
    req,        \* thread -> its request
    level,      \* thread -> the level adapt runs at
    found,      \* thread -> ids the search returned
    hits,       \* thread -> rows in cache_answers
    data,       \* thread -> llm_data
    result,     \* thread -> what its last request returned
    source,     \* auxiliary: thread -> the level that had an answer for its
                \* request, Depth + 1 for the model, 0 for none yet
    trouble,    \* auxiliary: thread -> what went wrong during its request:
                \* a call raised, or level 1 evicted a row for its question
    received,   \* auxiliary: <<session, row id>>, answers a session was given
    repeated,   \* auxiliary: the pairs given again, from a cache
    passed,     \* auxiliary: the pairs where another row joined the session
    kept        \* auxiliary: questions whose answers level 1 should have

caches == <<rows, count, unflushed, lastId>>
frame == <<req, level, found, hits, data>>
aux == <<source, trouble, received, repeated, passed, kept>>
vars == <<caches, failures, pc, frame, result, aux>>

\* session is popped from kwargs: only the first level sees it
SessionAt(r, l) == IF l = 1 THEN r.session ELSE NoSession
\* the search is skipped where the cache is disabled or the caller said so
Start(r, l) == IF l \in r.enabled /\ ~r.skip THEN "search" ELSE "miss"

Init ==
    /\ rows = [l \in Levels |-> {}]
    /\ count = [l \in Levels |-> 0]
    /\ unflushed = [l \in Levels |-> 0]
    /\ lastId = 0 /\ failures = 0
    /\ pc = [t \in Threads |-> "idle"]
    /\ req = [t \in Threads |-> CHOOSE r \in Requests : TRUE]
    /\ level = [t \in Threads |-> 1]
    /\ found = [t \in Threads |-> {}]
    /\ hits = [t \in Threads |-> {}]
    /\ data = [t \in Threads |-> NoAnswer]
    /\ result = [t \in Threads |-> NoAnswer]
    /\ source = [t \in Threads |-> 0]
    /\ trouble = [t \in Threads |-> "none"]
    /\ received = {} /\ repeated = {} /\ passed = {} /\ kept = {}

Goto(t, label) == pc' = [pc EXCEPT ![t] = label]

\* Level 1 was passed on the way back, and nothing raised
Owed(t, src) ==
    IF /\ req[t].mode \in {"ask", "put"} /\ 1 \in req[t].enabled
       /\ src > 1 /\ trouble[t] = "none"
    THEN {req[t].q} ELSE {}

\* adapt returns d, with src the level it comes from: to the caller, or to
\* the adapt of the level before, where it is llm_data
Return(t, d, src) ==
    IF level[t] = 1
    THEN /\ Goto(t, "idle")
         /\ result' = [result EXCEPT ![t] = d]
         /\ kept' = kept \cup Owed(t, src)
         /\ UNCHANGED <<level, data>>
    ELSE /\ Goto(t, "unwind")
         /\ level' = [level EXCEPT ![t] = @ - 1]
         /\ data' = [data EXCEPT ![t] = d]
         /\ UNCHANGED <<result, kept>>

\* An exception leaves adapt, and every adapt that called it
Abort(t) ==
    /\ Goto(t, "idle")
    /\ result' = [result EXCEPT ![t] = Raised]
    /\ UNCHANGED <<level, data, kept>>

\* The bound: a request starts only if it can save at every level
Room(n) ==
    lastId + Depth * Cardinality({t \in Threads : pc[t] # "idle"}) + n <= MaxRows

-----------------------------------------------------------------------------
(* Down the chain.                                                         *)

Begin(t, r) ==
    /\ pc[t] = "idle"
    /\ Room(Depth)
    /\ req' = [req EXCEPT ![t] = r]
    /\ level' = [level EXCEPT ![t] = 1]
    /\ source' = [source EXCEPT ![t] = 0]
    /\ trouble' = [trouble EXCEPT ![t] = "none"]
    /\ data' = [data EXCEPT ![t] = NoAnswer]
    /\ Goto(t, Start(r, 1))
    /\ UNCHANGED <<caches, failures, found, hits, result, received, repeated, passed, kept>>

\* The nearest TopK rows; which of two equally near ones is the store's choice
Nearest(S, q) ==
    {N \in kSubset(Min({TopK, Cardinality(S)}), S) :
        \A x \in N, y \in S \ N : Dist(q, x.q) <= Dist(q, y.q)}

\* data_manager.search
Search(t) ==
    /\ pc[t] = "search"
    /\ \E N \in Nearest(rows[level[t]], req[t].q) :
          found' = [found EXCEPT ![t] = {x.id : x \in N}]
    /\ Goto(t, "evaluate")
    /\ UNCHANGED <<caches, failures, req, level, hits, data, result, aux>>

\* Mutant: the session is not given to get_scalar_data
FetchAnySession(t, s) == {x \in rows[level[t]] : x.id \in found[t]}

\* get_scalar_data: the rows that are still there and that check_hit_session
\* lets pass
Fetch(t, s) ==
    {x \in rows[level[t]] : x.id \in found[t] /\ (s # NoSession => s \notin x.sess)}

\* Mutant: the rank is not compared with the threshold
EvaluateAll(t) ==
    LET H == Fetch(t, SessionAt(req[t], level[t]))
    IN  /\ pc[t] = "evaluate"
        /\ hits' = [hits EXCEPT ![t] = H]
        /\ found' = [found EXCEPT ![t] = {}]
        /\ Goto(t, IF H = {} THEN "miss" ELSE "hit")
        /\ UNCHANGED <<caches, failures, req, level, data, result, aux>>

\* The loop over search_data_list
Evaluate(t) ==
    LET H == {x \in Fetch(t, SessionAt(req[t], level[t])) : Similar(req[t], x.q)}
    IN  /\ pc[t] = "evaluate"
        /\ hits' = [hits EXCEPT ![t] = H]
        /\ found' = [found EXCEPT ![t] = {}]
        /\ Goto(t, IF H = {} THEN "miss" ELSE "hit")
        /\ UNCHANGED <<caches, failures, req, level, data, result, aux>>

\* answers_dict[answer]: of the rows with that answer the last, so one of
\* lowest rank
WholeData(t, a) ==
    LET same == {x \in hits[t] : x.ans = a}
    IN  {x \in same : \A y \in same : Rank(req[t].q, x.q) <= Rank(req[t].q, y.q)}

\* add_session: a row of the session table, if the question still has its own
Joined(S, id, s) ==
    {IF x.id = id THEN [x EXCEPT !.sess = @ \cup {s}] ELSE x : x \in S}

Given(t, id) ==
    IF req[t].session = NoSession THEN {} ELSE {<<req[t].session, id>>}

\* Mutant: the converted answer is not returned
HitReturnsNone(t) ==
    /\ pc[t] = "hit"
    /\ source' = [source EXCEPT ![t] = level[t]]
    /\ Return(t, NoAnswer, level[t])
    /\ hits' = [hits EXCEPT ![t] = {}]
    /\ UNCHANGED <<caches, failures, req, found, trouble, received, repeated, passed>>

\* The post-processor picks the answer of m; the session joins x, which is not
\* m if several rows have that answer
Hit(t) ==
    /\ pc[t] = "hit"
    /\ \E m \in hits[t] :
          \E x \in WholeData(t, m.ans) :
             /\ rows' = IF SessionAt(req[t], level[t]) = NoSession THEN rows
                        ELSE [rows EXCEPT ![level[t]] =
                                 Joined(@, x.id, req[t].session)]
             /\ received' = received \cup Given(t, m.id)
             /\ repeated' = repeated \cup (received \cap Given(t, m.id))
             /\ passed' = IF x.id = m.id THEN passed ELSE passed \cup Given(t, m.id)
             /\ source' = [source EXCEPT ![t] = level[t]]
             /\ Return(t, m.ans, level[t])
    /\ hits' = [hits EXCEPT ![t] = {}]
    /\ UNCHANGED <<count, unflushed, lastId, failures, req, found, trouble>>

\* Mutant: the cache is searched again
RejectSearchesAgain(t) ==
    /\ pc[t] = "hit"
    /\ hits' = [hits EXCEPT ![t] = {}]
    /\ Goto(t, "search")
    /\ UNCHANGED <<caches, failures, req, level, found, data, result, aux>>

\* post_process returns None: no answer of this cache will do
Reject(t) ==
    /\ pc[t] = "hit"
    /\ hits' = [hits EXCEPT ![t] = {}]
    /\ Goto(t, "miss")
    /\ UNCHANGED <<caches, failures, req, level, found, data, result, aux>>

\* search, get_scalar_data or add_session raises: nothing catches it
LookupRaises(t) ==
    /\ pc[t] \in {"search", "evaluate", "hit"}
    /\ failures < MaxFailures
    /\ failures' = failures + 1
    /\ trouble' = [trouble EXCEPT ![t] = "lookup"]
    /\ Abort(t)
    /\ UNCHANGED <<caches, req, found, hits, source, received, repeated, passed>>

\* On to the next cache
Descend(t) ==
    /\ pc[t] = "miss" /\ level[t] < Depth
    /\ ~req[t].async
    /\ level' = [level EXCEPT ![t] = @ + 1]
    /\ Goto(t, Start(req[t], level[t] + 1))
    /\ UNCHANGED <<caches, failures, req, found, hits, data, result, aux>>

\* aadapt reads search_only_flag, which it never assigns: NameError
AsyncDescend(t) ==
    /\ pc[t] = "miss" /\ level[t] < Depth
    /\ req[t].async
    /\ Abort(t)
    /\ UNCHANGED <<caches, failures, req, found, hits, source, trouble, received, repeated, passed>>

\* Behind the last cache: search_only ends the request, and the model that
\* get stands in for answers None
CallModel(t) ==
    /\ pc[t] = "miss" /\ level[t] = Depth
    /\ IF req[t].mode = "get" \/ (req[t].search_only /\ ~req[t].async)
       THEN Return(t, NoAnswer, 0) /\ UNCHANGED source
       ELSE /\ data' = [data EXCEPT ![t] = req[t].q]
            /\ source' = [source EXCEPT ![t] = Depth + 1]
            /\ Goto(t, "unwind")
            /\ UNCHANGED <<level, result, kept>>
    /\ UNCHANGED <<caches, failures, req, found, hits, trouble, received, repeated, passed>>

\* The model raises
ModelRaises(t) ==
    /\ pc[t] = "miss" /\ level[t] = Depth
    /\ req[t].mode = "ask" /\ (~req[t].search_only \/ req[t].async)
    /\ failures < MaxFailures
    /\ failures' = failures + 1
    /\ trouble' = [trouble EXCEPT ![t] = "model"]
    /\ Abort(t)
    /\ UNCHANGED <<caches, req, found, hits, source, received, repeated, passed>>

-----------------------------------------------------------------------------
(* Back up the chain.                                                      *)

\* llm_data is there: without an answer, or where the cache is disabled,
\* nothing is saved; the callback of get saves nothing and returns None
Unwind(t) ==
    /\ pc[t] = "unwind"
    /\ \/ /\ data[t] = NoAnswer \/ level[t] \notin req[t].enabled
          /\ Return(t, data[t], source[t])
       \/ /\ data[t] # NoAnswer /\ level[t] \in req[t].enabled
          /\ req[t].mode = "get"
          /\ Return(t, NoAnswer, source[t])
       \/ /\ data[t] # NoAnswer /\ level[t] \in req[t].enabled
          /\ req[t].mode # "get"
          /\ Goto(t, "save")
          /\ UNCHANGED <<level, data, result, kept>>
    /\ UNCHANGED <<caches, failures, req, found, hits, source, trouble, received, repeated, passed>>

\* Mutant: only the last cache saves
SaveLastOnly(t) ==
    LET row == [id |-> lastId + 1, q |-> req[t].q, ans |-> data[t], sess |-> {}]
    IN  /\ pc[t] = "save"
        /\ lastId' = lastId + 1
        /\ rows' = [rows EXCEPT ![Depth] = @ \cup {row}]
        /\ Goto(t, "count")
        /\ UNCHANGED <<count, unflushed, failures, frame, result, aux>>

\* data_manager.save
Save(t) ==
    LET s == SessionAt(req[t], level[t])
        row == [id |-> lastId + 1, q |-> req[t].q, ans |-> data[t],
                sess |-> {s} \ {NoSession}]
    IN  /\ pc[t] = "save"
        /\ lastId' = lastId + 1
        /\ rows' = [rows EXCEPT ![level[t]] = @ \cup {row}]
        /\ unflushed' = [unflushed EXCEPT ![level[t]] = @ + 1]
        /\ received' = received \cup Given(t, lastId + 1)
        /\ Goto(t, "count")
        /\ UNCHANGED <<count, failures, frame, result, source, trouble, repeated, passed, kept>>

\* Mutant: the exception is not caught
SaveRaisesAborts(t) ==
    /\ pc[t] \in {"save", "count"}
    /\ failures < MaxFailures
    /\ failures' = failures + 1
    /\ trouble' = [trouble EXCEPT ![t] = "save"]
    /\ Abort(t)
    /\ UNCHANGED <<caches, req, found, hits, source, received, repeated, passed>>

\* save raises, before or after the row is stored, or flush does: adapt logs
\* it and returns llm_data as it is
SaveRaises(t) ==
    /\ \/ pc[t] \in {"save", "count"}
       \/ pc[t] = "flush" /\ count[level[t]] % AutoFlush = 0
    /\ failures < MaxFailures
    /\ failures' = failures + 1
    /\ trouble' = [trouble EXCEPT ![t] = "save"]
    /\ Return(t, data[t], 0)
    /\ UNCHANGED <<caches, req, found, hits, source, received, repeated, passed>>

\* report.save, called by time_cal after save has returned
CountSave(t) ==
    /\ pc[t] = "count"
    /\ count' = [count EXCEPT ![level[t]] = @ + 1]
    /\ Goto(t, "flush")
    /\ UNCHANGED <<rows, unflushed, lastId, failures, frame, result, aux>>

\* Cache.flush: its own data manager and the next cache's
Flushed(l) == [m \in Levels |-> IF m \in {l, l + 1} THEN 0 ELSE unflushed[m]]

\* The callback of put returns None, the adapters' return the answer
AfterSave(t) == IF req[t].mode = "put" THEN NoAnswer ELSE data[t]

\* Mutant: the flush comes one save late
AutoFlushLate(t) ==
    /\ pc[t] = "flush"
    /\ unflushed' = IF count[level[t]] > 1 /\ count[level[t]] % AutoFlush = 1
                    THEN Flushed(level[t]) ELSE unflushed
    /\ Return(t, AfterSave(t), source[t])
    /\ UNCHANGED <<rows, count, lastId, failures, req, found, hits,
                   source, trouble, received, repeated, passed>>

\* if op_save.count % auto_flush == 0: flush()
CheckFlush(t) ==
    /\ pc[t] = "flush"
    /\ unflushed' = IF count[level[t]] % AutoFlush = 0
                    THEN Flushed(level[t]) ELSE unflushed
    /\ Return(t, AfterSave(t), source[t])
    /\ UNCHANGED <<rows, count, lastId, failures, req, found, hits,
                   source, trouble, received, repeated, passed>>

-----------------------------------------------------------------------------
(* What else happens to the caches.                                        *)

\* The data manager of a level evicts a row
Evict(l, x) ==
    /\ x \in rows[l]
    /\ rows' = [rows EXCEPT ![l] = @ \ {x}]
    /\ IF l = 1
       THEN /\ kept' = kept \ {x.q}
            /\ trouble' = [t \in Threads |->
                  IF pc[t] # "idle" /\ req[t].q = x.q THEN "evicted" ELSE trouble[t]]
       ELSE UNCHANGED <<kept, trouble>>
    /\ UNCHANGED <<count, unflushed, lastId, failures, pc, frame, result,
                   source, received, repeated, passed>>

\* Session.drop, on the data manager of level 1
Drop(s) ==
    /\ \E x \in rows[1] : s \in x.sess
    /\ rows' = [rows EXCEPT ![1] = {[x EXCEPT !.sess = @ \ {s}] : x \in rows[1]}]
    /\ received' = {p \in received : p[1] # s}
    /\ repeated' = {p \in repeated : p[1] # s}
    /\ passed' = {p \in passed : p[1] # s}
    /\ UNCHANGED <<count, unflushed, lastId, failures, pc, frame, result,
                   source, trouble, kept>>

\* Cache.import_data on the cache of a level; it is not counted as a save
ImportData(l, q) ==
    /\ Room(1)
    /\ lastId' = lastId + 1
    /\ rows' = [rows EXCEPT ![l] =
          @ \cup {[id |-> lastId + 1, q |-> q, ans |-> q, sess |-> {}]}]
    /\ UNCHANGED <<count, unflushed, failures, pc, frame, result, aux>>

\* No request is running
AtRest ==
    /\ \A t \in Threads : pc[t] = "idle"
    /\ UNCHANGED vars

\* The first half of adapt and of aadapt: is there an answer in this cache?
LookUp(t) == Search(t) \/ Evaluate(t) \/ Hit(t) \/ Reject(t) \/ LookupRaises(t)

\* and the second half: an answer from the next cache or the model is kept
Obtain(t) ==
    \/ Descend(t) \/ AsyncDescend(t) \/ CallModel(t) \/ ModelRaises(t)
    \/ Unwind(t) \/ Save(t) \/ SaveRaises(t) \/ CountSave(t) \/ CheckFlush(t)

Continue(t) == LookUp(t) \/ Obtain(t)

Next ==
    \/ \E t \in Threads :
          \/ \E r \in Requests : Begin(t, r)
          \/ Continue(t)
    \/ \E l \in Levels :
          \/ \E x \in rows[l] : Evict(l, x)
          \/ \E q \in Questions : ImportData(l, q)
    \/ \E s \in Sessions : Drop(s)
    \/ AtRest

Spec == Init /\ [][Next]_vars
FairSpec == Spec /\ \A t \in Threads : WF_vars(Continue(t))

-----------------------------------------------------------------------------
(* Properties.                                                             *)

Row == [id : Nat, q : Questions, ans : Questions, sess : SUBSET Sessions]
Answers == Questions \cup {NoAnswer}
Labels == {"idle", "search", "evaluate", "hit", "miss", "unwind", "save",
           "count", "flush"}

\* The type of every variable.
TypeOK ==
    /\ rows \in [Levels -> SUBSET Row]
    /\ count \in [Levels -> Nat]
    /\ unflushed \in [Levels -> Nat]
    /\ lastId \in Nat /\ failures \in Nat
    /\ pc \in [Threads -> Labels]
    /\ req \in [Threads -> Requests]
    /\ level \in [Threads -> Levels]
    /\ found \in [Threads -> SUBSET Nat]
    /\ hits \in [Threads -> SUBSET Row]
    /\ data \in [Threads -> Answers]
    /\ result \in [Threads -> Answers \cup {Raised}]
    /\ source \in [Threads -> 0..(Depth + 1)]
    /\ trouble \in [Threads -> {"none", "lookup", "save", "model", "evicted"}]
    /\ received \subseteq (Sessions \X Nat)
    /\ repeated \subseteq (Sessions \X Nat)
    /\ passed \subseteq (Sessions \X Nat)
    /\ kept \subseteq Questions
    /\ \A t \in Threads :
          pc[t] \in {"save", "count", "flush"} => data[t] \in Questions

\* How far the answer of a level may be from the question, when every cache
\* behind it may have taken a similar question for the same one
Drift(l) == (Depth + 1 - l) * Radius

\* Saving a hit of the next cache under the question that was asked moves
\* an answer away from the question it was generated for, but by at most
\* one similarity radius per cache: the answer of level l is within
\* Drift(l), and the model's own answer is exact.
AnswerWithinDrift ==
    \A t \in Threads :
        pc[t] = "idle" /\ result[t] \in Questions =>
            Dist(req[t].q, result[t]) <= Drift(source[t])

\* An answer that some cache of the chain had is given to the caller.
HitReachesCaller ==
    \A t \in Threads :
        pc[t] = "idle" /\ source[t] \in Levels => result[t] # NoAnswer

\* After a request that level 1 could not answer and that went well, level 1
\* has the answer, until it evicts it: the same question does not go to the
\* model again.
StoredInFirst == \A q \in kept : \E x \in rows[1] : x.q = q

\* A caller sees an exception only when the model or a lookup raised one: a
\* cache that cannot save or flush never fails a request.
ErrorsExplained ==
    \A t \in Threads :
        pc[t] = "idle" /\ result[t] = Raised => trouble[t] \in {"model", "lookup"}

\* A session is given a row's answer again only if, an earlier time, another row
\* with the same answer joined the session in its place: adapt finds the row to
\* join by the text of the answer.
RowOncePerSession == repeated \subseteq passed

\* "which will not return cached data if you ask the same or similar question in
\* the same session" (session.py): no row's answer is given to a session twice.
\* The code does otherwise when two rows have the same answer.
RowNeverAgain == repeated = {}

\* Between requests fewer than auto_flush answers wait to be flushed, unless
\* a call raised (Config: "automatically flushed every time xx pieces of
\* data are added").
UnflushedBounded ==
    (failures = 0 /\ \A t \in Threads : pc[t] = "idle") =>
        \A l \in Levels : unflushed[l] < AutoFlush

\* Every request comes to an end.
RequestsEnd == \A t \in Threads : pc[t] # "idle" ~> pc[t] = "idle"

=============================================================================
