---------------------------- MODULE AdapterProofs ----------------------------
(***************************************************************************)
(* What adapt guarantees on chains of any length, for any threads,         *)
(* questions and requests: how far an answer can drift from the question   *)
(* it was generated for, how many answers wait to be flushed, what a       *)
(* caller sees of errors and hits, what the first cache keeps, and that a  *)
(* session is given a row once.                                            *)
(***************************************************************************)
EXTENDS Adapter, TLAPS

-----------------------------------------------------------------------------
(* Arithmetic.                                                             *)

\* Dist is a distance.
LEMMA DistFacts ==
    ASSUME NEW p \in Int, NEW q \in Int, NEW s \in Int
    PROVE  /\ Dist(p, q) \in Nat
           /\ Dist(p, p) = 0
           /\ Dist(p, s) <= Dist(p, q) + Dist(q, s)
BY DEF Dist

\* Products with a natural number are monotone.
LEMMA TimesMonotone ==
    ASSUME NEW a \in Nat, NEW b \in Nat, NEW c \in Nat, a <= b
    PROVE  /\ a * c \in Nat
           /\ a * c <= b * c
           /\ (a + 1) * c = (a * c) + c
OBVIOUS

\* Drift is a natural number at every level and for the model, is smaller
\* the farther back the answer comes from, and grows by one radius a level.
LEMMA DriftFacts ==
    /\ \A l \in 0..(Depth + 1) : Drift(l) \in Nat
    /\ \A l, m \in 0..(Depth + 1) : l <= m => Drift(m) <= Drift(l)
    /\ \A l \in 0..Depth : Drift(l) = Drift(l + 1) + Radius
    /\ Drift(Depth + 1) = 0
<1>1. Radius \in Nat /\ Depth \in Nat
  BY RadiusAssumption, DepthAssumption
<1>2. \A l \in 0..(Depth + 1) : Drift(l) \in Nat
  BY <1>1 DEF Drift
<1>3. ASSUME NEW l \in 0..(Depth + 1), NEW m \in 0..(Depth + 1), l <= m
      PROVE  Drift(m) <= Drift(l)
  <2>1. Depth + 1 - m \in Nat /\ Depth + 1 - l \in Nat /\ Depth + 1 - m <= Depth + 1 - l
    BY <1>1, <1>3
  <2> QED BY <2>1, <1>1, TimesMonotone DEF Drift
<1>4. ASSUME NEW l \in 0..Depth PROVE Drift(l) = Drift(l + 1) + Radius
  <2>1. Depth + 1 - (l + 1) \in Nat /\ Depth + 1 - l = (Depth + 1 - (l + 1)) + 1
    BY <1>1
  <2>2. ((Depth + 1 - (l + 1)) + 1) * Radius = ((Depth + 1 - (l + 1)) * Radius) + Radius
    BY <2>1, <1>1, TimesMonotone
  <2> QED BY <2>1, <2>2 DEF Drift
<1>5. Drift(Depth + 1) = 0
  BY <1>1 DEF Drift
<1> QED BY <1>2, <1>3, <1>4, <1>5

-----------------------------------------------------------------------------
(* Types.                                                                  *)

\* What a request is made of.
LEMMA RequestFacts ==
    \A r \in Requests : /\ r.q \in Questions
                        /\ r.session \in Sessions \cup {NoSession}
                        /\ r.enabled \subseteq Levels
BY RequestsAssumption DEF Request

\* The pairs a session is given are pairs.
LEMMA GivenType ==
    ASSUME NEW t \in Threads, NEW i \in Nat, req[t] \in Requests
    PROVE  Given(t, i) \subseteq (Sessions \X Nat)
BY RequestFacts DEF Given

\* Returning an answer keeps the types of what Return changes.
LEMMA ReturnType ==
    ASSUME TypeOK, NEW t \in Threads, NEW d \in Answers, NEW src, Return(t, d, src)
    PROVE  /\ pc' \in [Threads -> Labels]
           /\ level' \in [Threads -> Levels]
           /\ data' \in [Threads -> Answers]
           /\ result' \in [Threads -> Answers \cup {Raised}]
           /\ kept' \subseteq Questions
           /\ pc'[t] \notin {"save", "count", "flush"}
           /\ \A u \in Threads \ {t} : pc'[u] = pc[u] /\ data'[u] = data[u]
<1>1. req[t].q \in Questions
  BY RequestFacts DEF TypeOK
<1>2. Owed(t, src) \subseteq Questions
  BY <1>1 DEF Owed
<1>3. level[t] # 1 => level[t] - 1 \in Levels
  BY DepthAssumption DEF TypeOK, Levels
<1> QED BY <1>2, <1>3 DEF TypeOK, Return, Goto, Labels

\* So does an exception.
LEMMA AbortType ==
    ASSUME TypeOK, NEW t \in Threads, Abort(t)
    PROVE  /\ pc' \in [Threads -> Labels]
           /\ level' \in [Threads -> Levels]
           /\ data' \in [Threads -> Answers]
           /\ result' \in [Threads -> Answers \cup {Raised}]
           /\ kept' \subseteq Questions
           /\ pc'[t] \notin {"save", "count", "flush"}
           /\ \A u \in Threads \ {t} : pc'[u] = pc[u] /\ data'[u] = data[u]
BY DEF TypeOK, Abort, Goto, Labels

\* Every step keeps the types.
LEMMA TypeStep == TypeOK /\ [Next]_vars => TypeOK'
<1> SUFFICES ASSUME TypeOK, [Next]_vars PROVE TypeOK'
  OBVIOUS
<1>0. \A t \in Threads : /\ req[t] \in Requests /\ req[t].q \in Questions
                         /\ level[t] \in Levels
  BY RequestFacts DEF TypeOK
<1>1. ASSUME NEW t \in Threads, NEW r \in Requests, Begin(t, r) PROVE TypeOK'
  <2>1. Start(r, 1) \in {"search", "miss"}
    BY DEF Start
  <2>2. 1 \in Levels /\ 0 \in 0..(Depth + 1)
    BY DepthAssumption DEF Levels
  <2> QED BY <1>1, <2>1, <2>2 DEF TypeOK, Begin, Goto, caches, Answers, Labels
<1>2. ASSUME NEW t \in Threads, Search(t) PROVE TypeOK'
  <2>1. PICK N \in Nearest(rows[level[t]], req[t].q) :
            found' = [found EXCEPT ![t] = {x.id : x \in N}]
    BY <1>2 DEF Search
  <2>2. N \subseteq rows[level[t]]
    BY <2>1 DEF Nearest, kSubset
  <2>3. rows[level[t]] \subseteq Row
    BY <1>0 DEF TypeOK
  <2>4. {x.id : x \in N} \subseteq Nat
    BY <2>2, <2>3 DEF Row
  <2> QED BY <1>2, <2>1, <2>4 DEF TypeOK, Search, Goto, caches, aux, Labels
<1>3. ASSUME NEW t \in Threads, Evaluate(t) PROVE TypeOK'
  <2>1. rows[level[t]] \subseteq Row
    BY <1>0 DEF TypeOK
  <2>2. {x \in Fetch(t, SessionAt(req[t], level[t])) : Similar(req[t], x.q)} \subseteq Row
    BY <2>1 DEF Fetch
  <2> QED BY <1>3, <2>2 DEF TypeOK, Evaluate, Goto, caches, aux, Labels
<1>4. ASSUME NEW t \in Threads, Hit(t) PROVE TypeOK'
  <2>0. PICK m \in hits[t] : \E x \in WholeData(t, m.ans) :
            /\ rows' = IF SessionAt(req[t], level[t]) = NoSession THEN rows
                       ELSE [rows EXCEPT ![level[t]] =
                                Joined(rows[level[t]], x.id, req[t].session)]
            /\ received' = received \cup Given(t, m.id)
            /\ repeated' = repeated \cup (received \cap Given(t, m.id))
            /\ passed' = IF x.id = m.id THEN passed ELSE passed \cup Given(t, m.id)
            /\ source' = [source EXCEPT ![t] = level[t]]
            /\ Return(t, m.ans, level[t])
    BY <1>4 DEF Hit
  <2>1. PICK x \in WholeData(t, m.ans) :
            /\ rows' = IF SessionAt(req[t], level[t]) = NoSession THEN rows
                       ELSE [rows EXCEPT ![level[t]] =
                                Joined(rows[level[t]], x.id, req[t].session)]
            /\ received' = received \cup Given(t, m.id)
            /\ repeated' = repeated \cup (received \cap Given(t, m.id))
            /\ passed' = IF x.id = m.id THEN passed ELSE passed \cup Given(t, m.id)
            /\ source' = [source EXCEPT ![t] = level[t]]
            /\ Return(t, m.ans, level[t])
    BY <2>0
  <2>2. m \in Row /\ x \in Row
    BY <2>1 DEF TypeOK, WholeData
  <2>3. Given(t, m.id) \subseteq (Sessions \X Nat)
    BY <2>2, <1>0, GivenType DEF Row
  <2>4. ASSUME SessionAt(req[t], level[t]) # NoSession
        PROVE  Joined(rows[level[t]], x.id, req[t].session) \subseteq Row
    <3>1. req[t].session \in Sessions
      BY <2>4, <1>0, RequestFacts DEF SessionAt
    <3>2. rows[level[t]] \subseteq Row
      BY <1>0 DEF TypeOK
    <3> QED BY <3>1, <3>2 DEF Joined, Row
  <2>5. rows' \in [Levels -> SUBSET Row]
    BY <2>1, <2>4 DEF TypeOK
  <2>6. level[t] \in 0..(Depth + 1)
    BY <1>0, DepthAssumption DEF Levels
  <2>7. m.ans \in Answers
    BY <2>2 DEF Row, Answers
  <2> QED BY <1>4, <2>1, <2>3, <2>5, <2>6, <2>7, ReturnType DEF TypeOK, Hit
<1>5. ASSUME NEW t \in Threads, Descend(t) PROVE TypeOK'
  <2>1. Start(req[t], level[t] + 1) \in {"search", "miss"}
    BY DEF Start
  <2>2. level[t] + 1 \in Levels
    BY <1>5, <1>0, DepthAssumption DEF Descend, Levels
  <2> QED BY <1>5, <2>1, <2>2 DEF TypeOK, Descend, Goto, caches, aux, Labels
<1>6. ASSUME NEW t \in Threads, AsyncDescend(t) PROVE TypeOK'
  BY <1>6, AbortType DEF TypeOK, AsyncDescend, caches
<1>7. ASSUME NEW t \in Threads, CallModel(t) PROVE TypeOK'
  <2>1. NoAnswer \in Answers /\ req[t].q \in Answers /\ Depth + 1 \in 0..(Depth + 1)
    BY <1>0, DepthAssumption DEF Answers
  <2>2. CASE req[t].mode = "get" \/ (req[t].search_only /\ ~req[t].async)
    BY <1>7, <2>1, <2>2, ReturnType DEF TypeOK, CallModel, caches
  <2>3. CASE ~(req[t].mode = "get" \/ (req[t].search_only /\ ~req[t].async))
    BY <1>7, <2>1, <2>3 DEF TypeOK, CallModel, caches, Goto, Labels
  <2> QED BY <2>2, <2>3
<1>8. ASSUME NEW t \in Threads, ModelRaises(t) PROVE TypeOK'
  BY <1>8, AbortType DEF TypeOK, ModelRaises, caches
<1>8a. ASSUME NEW t \in Threads, LookupRaises(t) PROVE TypeOK'
  BY <1>8a, AbortType DEF TypeOK, LookupRaises, caches
<1>8b. ASSUME NEW t \in Threads, Reject(t) PROVE TypeOK'
  BY <1>8b DEF TypeOK, Reject, Goto, caches, aux, Labels
<1>9. ASSUME NEW t \in Threads, Unwind(t) PROVE TypeOK'
  <2>1. NoAnswer \in Answers /\ data[t] \in Answers
    BY DEF TypeOK, Answers
  <2>2. CASE Return(t, data[t], source[t]) \/ Return(t, NoAnswer, source[t])
    BY <1>9, <2>1, <2>2, ReturnType DEF TypeOK, Unwind, caches
  <2>3. CASE data[t] # NoAnswer /\ Goto(t, "save") /\ UNCHANGED <<level, data, result, kept>>
    BY <1>9, <2>1, <2>3 DEF TypeOK, Unwind, caches, Goto, Labels, Answers
  <2> QED BY <1>9, <2>2, <2>3 DEF Unwind
<1>10. ASSUME NEW t \in Threads, Save(t) PROVE TypeOK'
  <2> DEFINE s == SessionAt(req[t], level[t])
             row == [id |-> lastId + 1, q |-> req[t].q, ans |-> data[t],
                     sess |-> {s} \ {NoSession}]
  <2>1. lastId + 1 \in Nat /\ {s} \ {NoSession} \subseteq Sessions
    BY <1>0, RequestFacts DEF TypeOK, SessionAt
  <2>2. row \in Row
    BY <1>0, <1>10, <2>1 DEF TypeOK, Save, Row
  <2>3. Given(t, lastId + 1) \subseteq (Sessions \X Nat)
    BY <1>0, <2>1, GivenType
  <2>4. rows' = [rows EXCEPT ![level[t]] = @ \cup {row}]
    BY <1>10 DEF Save
  <2> HIDE DEF row
  <2>5. rows' \in [Levels -> SUBSET Row]
    BY <2>2, <2>4, <1>0 DEF TypeOK
  <2>6. unflushed' \in [Levels -> Nat]
    BY <1>10, <1>0 DEF Save, TypeOK
  <2> QED BY <1>10, <2>1, <2>3, <2>5, <2>6 DEF TypeOK, Save, Goto, frame, Labels
<1>11. ASSUME NEW t \in Threads, SaveRaises(t) PROVE TypeOK'
  BY <1>11, ReturnType DEF TypeOK, SaveRaises, caches
<1>12. ASSUME NEW t \in Threads, CountSave(t) PROVE TypeOK'
  BY <1>12, <1>0 DEF TypeOK, CountSave, Goto, frame, aux, Labels
<1>13. ASSUME NEW t \in Threads, CheckFlush(t) PROVE TypeOK'
  <2>1. AfterSave(t) \in Answers
    BY DEF AfterSave, TypeOK, Answers
  <2>2. Flushed(level[t]) \in [Levels -> Nat]
    BY DEF Flushed, TypeOK
  <2>3. unflushed' \in [Levels -> Nat]
    BY <1>13, <2>2 DEF CheckFlush, TypeOK
  <2> QED BY <1>13, <2>1, <2>3, ReturnType DEF TypeOK, CheckFlush
<1>14. ASSUME NEW l \in Levels, NEW x \in rows[l], Evict(l, x) PROVE TypeOK'
  BY <1>14 DEF TypeOK, Evict, frame
<1>15. ASSUME NEW l \in Levels, NEW q \in Questions, ImportData(l, q) PROVE TypeOK'
  <2>1. [id |-> lastId + 1, q |-> q, ans |-> q, sess |-> {}] \in Row
    BY DEF TypeOK, Row
  <2>2. rows' \in [Levels -> SUBSET Row]
    BY <1>15, <2>1 DEF TypeOK, ImportData
  <2> QED BY <1>15, <2>2 DEF TypeOK, ImportData, frame, aux
<1>16. ASSUME NEW s \in Sessions, Drop(s) PROVE TypeOK'
  <2>1. 1 \in Levels
    BY DepthAssumption DEF Levels
  <2>2. {[x EXCEPT !.sess = @ \ {s}] : x \in rows[1]} \subseteq Row
    BY <2>1 DEF TypeOK, Row
  <2> QED BY <1>16, <2>1, <2>2 DEF TypeOK, Drop, frame
<1>17. CASE UNCHANGED vars
  BY <1>17 DEF TypeOK, vars, caches, frame, aux
<1> QED
  BY <1>1, <1>2, <1>3, <1>4, <1>5, <1>6, <1>7, <1>8, <1>8a, <1>8b, <1>9, <1>10, <1>11,
     <1>12, <1>13, <1>14, <1>15, <1>16, <1>17 DEF Next, Continue, LookUp, Obtain, AtRest

\* The initial state has the types.
LEMMA TypeInit == Init => TypeOK
<1> SUFFICES ASSUME Init PROVE TypeOK
  OBVIOUS
<1>1. (CHOOSE r \in Requests : TRUE) \in Requests
  BY RequestsAssumption
<1>2. 1 \in Levels /\ 0 \in 0..(Depth + 1)
  BY DepthAssumption DEF Levels
<1> QED BY <1>1, <1>2 DEF Init, TypeOK, Labels, Answers

\* THEOREM: every variable of a chain of any depth, with any number of
\* callers of adapt, aadapt, put and get, keeps its type.
THEOREM TypeCorrect == Spec => []TypeOK
BY TypeInit, TypeStep, PTL DEF Spec

-----------------------------------------------------------------------------
(* Drift.                                                                  *)

\* A row of level l was saved with an answer from behind level l.
RowDrift ==
    \A l \in Levels : \A x \in rows[l] : Dist(x.q, x.ans) <= Drift(l + 1)

\* An answer in cache_answers comes from a similar row of the level.
HitDrift ==
    \A t \in Threads : pc[t] = "hit" =>
        \A x \in hits[t] : /\ Similar(req[t], x.q)
                           /\ Dist(x.q, x.ans) <= Drift(level[t] + 1)

\* What is on its way back comes from behind the level it has reached.
DataDrift ==
    \A t \in Threads :
        pc[t] \in {"unwind", "save", "count", "flush"} /\ data[t] \in Questions =>
            /\ source[t] > level[t]
            /\ Dist(req[t].q, data[t]) <= Drift(source[t])

DriftInv == TypeOK /\ RowDrift /\ HitDrift /\ DataDrift /\ AnswerWithinDrift

\* What one thread's return can do to DataDrift and AnswerWithinDrift.
LEMMA ReturnDrift ==
    ASSUME DriftInv, TypeOK', NEW t \in Threads, NEW d \in Answers, NEW src,
           Return(t, d, src), UNCHANGED req,
           d \in Questions => /\ source'[t] >= level[t]
                              /\ Dist(req[t].q, d) <= Drift(source'[t]),
           \A u \in Threads \ {t} : source'[u] = source[u]
    PROVE  DataDrift' /\ AnswerWithinDrift'
<1>1. ASSUME NEW u \in Threads \ {t}
      PROVE  /\ pc'[u] = pc[u] /\ data'[u] = data[u] /\ level'[u] = level[u]
             /\ result'[u] = result[u] /\ source'[u] = source[u] /\ req'[u] = req[u]
  BY DEF Return, Goto, DriftInv, TypeOK
<1>2. req'[t] = req[t]
  OBVIOUS
<1>3. CASE level[t] = 1
  <2>1. pc'[t] = "idle" /\ result'[t] = d
    BY <1>3 DEF Return, Goto, DriftInv, TypeOK
  <2>2. DataDrift'
    BY <1>1, <2>1 DEF DriftInv, DataDrift
  <2>3. AnswerWithinDrift'
    BY <1>1, <1>2, <2>1 DEF DriftInv, AnswerWithinDrift, Drift
  <2> QED BY <2>2, <2>3
<1>4. CASE level[t] # 1
  <2>1. /\ pc'[t] = "unwind" /\ data'[t] = d /\ level'[t] = level[t] - 1
    BY <1>4 DEF Return, Goto, DriftInv, TypeOK
  <2>2. level[t] \in Nat /\ source'[t] \in Nat
    BY DepthAssumption DEF DriftInv, TypeOK, Levels
  <2>3. DataDrift'
    BY <1>1, <1>2, <2>1, <2>2 DEF DriftInv, DataDrift, Drift
  <2>4. AnswerWithinDrift'
    BY <1>1, <2>1 DEF DriftInv, AnswerWithinDrift, Drift
  <2> QED BY <2>3, <2>4
<1> QED BY <1>3, <1>4

\* The initial state.
LEMMA DriftInit == Init => DriftInv
<1> SUFFICES ASSUME Init PROVE DriftInv
  OBVIOUS
<1>1. RowDrift
  BY DEF Init, RowDrift
<1>2. HitDrift /\ DataDrift
  BY DEF Init, HitDrift, DataDrift
<1>3. AnswerWithinDrift
  BY NoneAssumption DEF Init, AnswerWithinDrift
<1> QED BY <1>1, <1>2, <1>3, TypeInit DEF DriftInv

\* Every step of one thread leaves the other threads' calls alone.
LEMMA DriftStep == DriftInv /\ [Next]_vars => DriftInv'
<1> SUFFICES ASSUME DriftInv, [Next]_vars PROVE DriftInv'
  OBVIOUS
<1>0. TypeOK /\ TypeOK'
  BY TypeStep DEF DriftInv
<1>a. \A t \in Threads : /\ req[t] \in Requests /\ req[t].q \in Questions
                         /\ level[t] \in Levels /\ level[t] \in Nat
                         /\ level[t] <= Depth /\ Depth \in Nat
  BY <1>0, RequestFacts, DepthAssumption DEF TypeOK, Levels
<1>b. Questions \subseteq Int /\ Radius \in Nat
  BY QuestionsAssumption, RadiusAssumption
<1>1. ASSUME NEW t \in Threads, NEW r \in Requests, Begin(t, r) PROVE DriftInv'
  <2>1. pc'[t] \in {"search", "miss"}
    BY <1>0, <1>1 DEF Begin, Goto, Start, TypeOK
  <2>2. ASSUME NEW u \in Threads \ {t}
        PROVE  /\ pc'[u] = pc[u] /\ data'[u] = data[u] /\ level'[u] = level[u]
               /\ result'[u] = result[u] /\ source'[u] = source[u]
               /\ req'[u] = req[u] /\ hits'[u] = hits[u]
    BY <1>0, <1>1 DEF Begin, Goto, TypeOK
  <2>3. RowDrift'
    BY <1>1 DEF DriftInv, RowDrift, Begin, caches, Drift
  <2>4. HitDrift' /\ DataDrift'
    BY <2>1, <2>2 DEF DriftInv, HitDrift, DataDrift, Drift
  <2>5. AnswerWithinDrift'
    BY <2>1, <2>2 DEF DriftInv, AnswerWithinDrift, Drift
  <2> QED BY <1>0, <2>3, <2>4, <2>5 DEF DriftInv
<1>2. ASSUME NEW t \in Threads, Search(t) PROVE DriftInv'
  <2>1. \A u \in Threads \ {t} : pc'[u] = pc[u]
    BY <1>0, <1>2 DEF Search, Goto, TypeOK
  <2>2. pc'[t] = "evaluate"
    BY <1>0, <1>2 DEF Search, Goto, TypeOK
  <2>3. UNCHANGED <<rows, req, level, hits, data, result, source>>
    BY <1>2 DEF Search, caches, aux
  <2>4. RowDrift' /\ HitDrift'
    BY <2>1, <2>2, <2>3 DEF DriftInv, RowDrift, HitDrift, Drift
  <2>5. DataDrift' /\ AnswerWithinDrift'
    BY <2>1, <2>2, <2>3 DEF DriftInv, DataDrift, AnswerWithinDrift, Drift
  <2> QED BY <1>0, <2>4, <2>5 DEF DriftInv
<1>3. ASSUME NEW t \in Threads, Evaluate(t) PROVE DriftInv'
  <2>1. \A u \in Threads \ {t} : pc'[u] = pc[u] /\ hits'[u] = hits[u]
    BY <1>0, <1>3 DEF Evaluate, Goto, TypeOK
  <2>2. pc'[t] \in {"hit", "miss"}
    BY <1>0, <1>3 DEF Evaluate, Goto, TypeOK
  <2>3. UNCHANGED <<rows, req, level, data, result, source>>
    BY <1>3 DEF Evaluate, caches, aux
  <2>4. \A x \in hits'[t] : x \in rows[level[t]] /\ Similar(req[t], x.q)
    BY <1>0, <1>3 DEF Evaluate, Fetch, TypeOK
  <2>5. \A x \in hits'[t] : Dist(x.q, x.ans) <= Drift(level[t] + 1)
    BY <2>4, <1>a DEF DriftInv, RowDrift
  <2>6. RowDrift' /\ HitDrift'
    BY <2>1, <2>3, <2>4, <2>5 DEF DriftInv, RowDrift, HitDrift, Drift
  <2>7. DataDrift' /\ AnswerWithinDrift'
    BY <2>1, <2>2, <2>3 DEF DriftInv, DataDrift, AnswerWithinDrift, Drift
  <2> QED BY <1>0, <2>6, <2>7 DEF DriftInv
<1>3a. ASSUME NEW t \in Threads, Reject(t) PROVE DriftInv'
  <2>1. \A u \in Threads \ {t} : pc'[u] = pc[u] /\ hits'[u] = hits[u]
    BY <1>0, <1>3a DEF Reject, Goto, TypeOK
  <2>2. pc'[t] = "miss"
    BY <1>0, <1>3a DEF Reject, Goto, TypeOK
  <2>3. UNCHANGED <<rows, req, level, data, result, source>>
    BY <1>3a DEF Reject, caches, aux
  <2>4. RowDrift' /\ HitDrift'
    BY <2>1, <2>2, <2>3 DEF DriftInv, RowDrift, HitDrift, Drift
  <2>5. DataDrift' /\ AnswerWithinDrift'
    BY <2>1, <2>2, <2>3 DEF DriftInv, DataDrift, AnswerWithinDrift, Drift
  <2> QED BY <1>0, <2>4, <2>5 DEF DriftInv
<1>4. ASSUME NEW t \in Threads, Hit(t) PROVE DriftInv'
  <2>1. PICK m \in hits[t] : \E x \in WholeData(t, m.ans) :
            /\ rows' = IF SessionAt(req[t], level[t]) = NoSession THEN rows
                       ELSE [rows EXCEPT ![level[t]] =
                                Joined(rows[level[t]], x.id, req[t].session)]
            /\ source' = [source EXCEPT ![t] = level[t]]
            /\ Return(t, m.ans, level[t])
    BY <1>4 DEF Hit
  <2>2. PICK id : /\ \/ rows' = rows
                     \/ rows' = [rows EXCEPT ![level[t]] =
                                    Joined(rows[level[t]], id, req[t].session)]
                  /\ source' = [source EXCEPT ![t] = level[t]]
                  /\ Return(t, m.ans, level[t])
    BY <2>1
  <2>3. m \in Row /\ pc[t] = "hit"
    BY <1>0, <1>4, <2>1 DEF TypeOK, Hit
  <2>4. m.q \in Questions /\ m.ans \in Questions /\ m.ans \in Answers
    BY <2>3 DEF Row, Answers
  <2>5. Dist(req[t].q, m.q) <= Radius
    BY <1>a, <2>1, <2>3, <2>4, RadiusAssumption DEF DriftInv, HitDrift
  <2>6. Dist(m.q, m.ans) <= Drift(level[t] + 1)
    BY <2>1, <2>3 DEF DriftInv, HitDrift
  <2>7. Drift(level[t]) = Drift(level[t] + 1) + Radius /\ Drift(level[t] + 1) \in Nat
    BY <1>a, DriftFacts
  <2>8. req[t].q \in Int /\ m.q \in Int /\ m.ans \in Int
    BY <1>a, <1>b, <2>4
  <2>9. /\ Dist(req[t].q, m.ans) <= Dist(req[t].q, m.q) + Dist(m.q, m.ans)
        /\ Dist(req[t].q, m.ans) \in Nat /\ Dist(req[t].q, m.q) \in Nat
        /\ Dist(m.q, m.ans) \in Nat
    BY <2>8, DistFacts
  <2>10. Dist(req[t].q, m.ans) <= Drift(level[t])
    BY <1>b, <2>5, <2>6, <2>7, <2>9
  <2>11. /\ source'[t] = level[t]
         /\ \A u \in Threads \ {t} : source'[u] = source[u]
    BY <1>0, <2>2 DEF TypeOK
  <2>12. UNCHANGED req
    BY <1>4 DEF Hit
  <2>13. source'[t] >= level[t] /\ Dist(req[t].q, m.ans) <= Drift(source'[t])
    BY <1>a, <2>10, <2>11
  <2>14. DataDrift' /\ AnswerWithinDrift'
    BY <1>0, <2>2, <2>4, <2>11, <2>12, <2>13, ReturnDrift
  <2>15. RowDrift'
    <3>1. CASE rows' = rows
      BY <3>1 DEF DriftInv, RowDrift, Drift
    <3>2. CASE rows' = [rows EXCEPT ![level[t]] =
                           Joined(rows[level[t]], id, req[t].session)]
      <4>1. ASSUME NEW l \in Levels, NEW y \in rows'[l]
            PROVE  \E x \in rows[l] : y.q = x.q /\ y.ans = x.ans
        <5>1. CASE l = level[t]
          <6>1. y \in Joined(rows[l], id, req[t].session)
            BY <1>0, <3>2, <4>1, <5>1 DEF TypeOK
          <6>2. PICK x \in rows[l] :
                    y = IF x.id = id THEN [x EXCEPT !.sess = @ \cup {req[t].session}] ELSE x
            BY <6>1 DEF Joined
          <6>3. x \in Row
            BY <1>0 DEF TypeOK
          <6> QED BY <6>2, <6>3 DEF Row
        <5>2. CASE l # level[t]
          BY <1>0, <3>2, <4>1, <5>2 DEF TypeOK
        <5> QED BY <5>1, <5>2
      <4> QED BY <4>1 DEF DriftInv, RowDrift, Drift
    <3> QED BY <2>2, <3>1, <3>2
  <2>16. HitDrift'
    <3>1. \A u \in Threads \ {t} : /\ pc'[u] = pc[u] /\ hits'[u] = hits[u]
                                   /\ level'[u] = level[u] /\ req'[u] = req[u]
      BY <1>0, <1>4, <2>2 DEF TypeOK, Hit, Return, Goto
    <3>2. pc'[t] # "hit"
      BY <1>0, <2>2 DEF TypeOK, Return, Goto
    <3> QED BY <3>1, <3>2 DEF DriftInv, HitDrift, Drift
  <2> QED BY <1>0, <2>14, <2>15, <2>16 DEF DriftInv
<1>5. ASSUME NEW t \in Threads, Descend(t) PROVE DriftInv'
  <2>1. \A u \in Threads \ {t} : pc'[u] = pc[u] /\ level'[u] = level[u]
    BY <1>0, <1>5 DEF Descend, Goto, TypeOK
  <2>2. pc'[t] \in {"search", "miss"}
    BY <1>0, <1>5 DEF Descend, Goto, Start, TypeOK
  <2>3. UNCHANGED <<rows, req, hits, data, result, source>>
    BY <1>5 DEF Descend, caches, aux
  <2>4. RowDrift' /\ HitDrift'
    BY <2>1, <2>2, <2>3 DEF DriftInv, RowDrift, HitDrift, Drift
  <2>5. DataDrift' /\ AnswerWithinDrift'
    BY <2>1, <2>2, <2>3 DEF DriftInv, DataDrift, AnswerWithinDrift, Drift
  <2> QED BY <1>0, <2>4, <2>5 DEF DriftInv
<1>6. ASSUME NEW t \in Threads, AsyncDescend(t) \/ ModelRaises(t) \/ LookupRaises(t)
      PROVE  DriftInv'
  <2>1. \A u \in Threads \ {t} : pc'[u] = pc[u] /\ result'[u] = result[u]
    BY <1>0, <1>6 DEF AsyncDescend, ModelRaises, LookupRaises, Abort, Goto, TypeOK
  <2>2. pc'[t] = "idle" /\ result'[t] \notin Questions
    BY <1>0, <1>6, NoneAssumption DEF AsyncDescend, ModelRaises, LookupRaises, Abort, Goto, TypeOK
  <2>3. UNCHANGED <<rows, req, level, hits, data, source>>
    BY <1>6 DEF AsyncDescend, ModelRaises, LookupRaises, Abort, caches
  <2>4. RowDrift' /\ HitDrift'
    BY <2>1, <2>2, <2>3 DEF DriftInv, RowDrift, HitDrift, Drift
  <2>5. DataDrift' /\ AnswerWithinDrift'
    BY <2>1, <2>2, <2>3 DEF DriftInv, DataDrift, AnswerWithinDrift, Drift
  <2> QED BY <1>0, <2>4, <2>5 DEF DriftInv
\* Only pc, level, data and result of t can change in what follows
<1>7. ASSUME NEW t \in Threads, NEW d \in Answers, NEW src, Return(t, d, src),
             UNCHANGED <<rows, req, hits, source>>, pc[t] # "hit",
             d \in Questions => /\ source[t] >= level[t]
                                /\ Dist(req[t].q, d) <= Drift(source[t])
      PROVE  DriftInv'
  <2>1. DataDrift' /\ AnswerWithinDrift'
    BY <1>0, <1>7, ReturnDrift
  <2>2. \A u \in Threads \ {t} : pc'[u] = pc[u] /\ level'[u] = level[u]
    BY <1>0, <1>7 DEF TypeOK, Return, Goto
  <2>3. pc'[t] # "hit"
    BY <1>0, <1>7 DEF TypeOK, Return, Goto
  <2>4. RowDrift' /\ HitDrift'
    BY <1>7, <2>2, <2>3 DEF DriftInv, RowDrift, HitDrift, Drift
  <2> QED BY <1>0, <2>1, <2>4 DEF DriftInv
<1>8. ASSUME NEW t \in Threads, CallModel(t) PROVE DriftInv'
  <2>1. CASE req[t].mode = "get" \/ (req[t].search_only /\ ~req[t].async)
    <3>1. /\ Return(t, NoAnswer, 0) /\ UNCHANGED <<rows, req, hits, source>>
          /\ pc[t] = "miss" /\ NoAnswer \in Answers /\ NoAnswer \notin Questions
      BY <1>8, <2>1, NoneAssumption DEF CallModel, caches, Answers
    <3> QED BY <3>1, <1>7
  <2>2. CASE ~(req[t].mode = "get" \/ (req[t].search_only /\ ~req[t].async))
    <3>1. /\ data'[t] = req[t].q /\ source'[t] = Depth + 1 /\ pc'[t] = "unwind"
          /\ \A u \in Threads \ {t} :
                data'[u] = data[u] /\ source'[u] = source[u] /\ pc'[u] = pc[u]
      BY <1>0, <1>8, <2>2 DEF CallModel, Goto, TypeOK
    <3>2. UNCHANGED <<rows, req, level, hits, result>>
      BY <1>8, <2>2 DEF CallModel, caches
    <3>c. req[t].q \in Int
      BY <1>a, <1>b
    <3>d. level[t] \in Nat /\ level[t] <= Depth /\ Depth \in Nat
      BY <1>a
    <3>a. req[t].q \in Int /\ Depth + 1 > level[t]
      BY <3>c, <3>d
    <3>b. Dist(req[t].q, req[t].q) = 0
      BY <3>a, DistFacts
    <3>3. Dist(req[t].q, req[t].q) <= Drift(Depth + 1) /\ Depth + 1 > level[t]
      BY <3>a, <3>b, DriftFacts
    <3>4. RowDrift' /\ HitDrift'
      BY <3>1, <3>2 DEF DriftInv, RowDrift, HitDrift, Drift
    <3>5. DataDrift'
      BY <3>1, <3>2, <3>3 DEF DriftInv, DataDrift, Drift
    <3>6. AnswerWithinDrift'
      BY <3>1, <3>2 DEF DriftInv, AnswerWithinDrift, Drift
    <3> QED BY <1>0, <3>4, <3>5, <3>6 DEF DriftInv
  <2> QED BY <2>1, <2>2
<1>9. ASSUME NEW t \in Threads, Unwind(t) PROVE DriftInv'
  <2>1. UNCHANGED <<rows, req, hits, source>> /\ pc[t] = "unwind"
    BY <1>9 DEF Unwind, caches
  <2>2. NoAnswer \in Answers /\ data[t] \in Answers /\ NoAnswer \notin Questions
    BY <1>0, NoneAssumption DEF TypeOK, Answers
  <2>3. CASE Return(t, data[t], source[t])
    <3>1. data[t] \in Questions => /\ source[t] >= level[t]
                                   /\ Dist(req[t].q, data[t]) <= Drift(source[t])
      BY <1>0, <1>a, <2>1 DEF DriftInv, DataDrift, TypeOK
    <3> QED BY <1>7, <2>1, <2>2, <2>3, <3>1
  <2>4. CASE Return(t, NoAnswer, source[t])
    BY <1>7, <2>1, <2>2, <2>4
  <2>5. CASE Goto(t, "save") /\ UNCHANGED <<level, data, result, kept>>
    <3>1. pc'[t] = "save" /\ \A u \in Threads \ {t} : pc'[u] = pc[u]
      BY <1>0, <2>5 DEF Goto, TypeOK
    <3>2. RowDrift' /\ HitDrift'
      BY <2>1, <2>5, <3>1 DEF DriftInv, RowDrift, HitDrift, Drift
    <3>3. DataDrift' /\ AnswerWithinDrift'
      BY <2>1, <2>5, <3>1 DEF DriftInv, DataDrift, AnswerWithinDrift, Drift
    <3> QED BY <1>0, <3>2, <3>3 DEF DriftInv
  <2> QED BY <1>9, <2>3, <2>4, <2>5 DEF Unwind
<1>10. ASSUME NEW t \in Threads, Save(t) PROVE DriftInv'
  <2>1. PICK row : /\ row.q = req[t].q /\ row.ans = data[t]
                   /\ rows' = [rows EXCEPT ![level[t]] = @ \cup {row}]
    BY <1>10 DEF Save
  <2>2. UNCHANGED <<req, level, hits, data, result, source>> /\ pc[t] = "save"
    BY <1>10 DEF Save, frame
  <2>3. pc'[t] = "count" /\ \A u \in Threads \ {t} : pc'[u] = pc[u]
    BY <1>0, <1>10 DEF Save, Goto, TypeOK
  <2>4. data[t] \in Questions
    BY <1>0, <2>2 DEF TypeOK
  <2>5. /\ source[t] >= level[t] + 1
        /\ source[t] \in 0..(Depth + 1) /\ level[t] + 1 \in 0..(Depth + 1)
        /\ Dist(req[t].q, data[t]) <= Drift(source[t])
    BY <1>0, <1>a, <2>2, <2>4 DEF DriftInv, DataDrift, TypeOK
  <2>6. /\ Drift(source[t]) <= Drift(level[t] + 1)
        /\ Drift(source[t]) \in Nat /\ Drift(level[t] + 1) \in Nat
    BY <2>5, DriftFacts
  <2>7. req[t].q \in Int /\ data[t] \in Int
    BY <1>a, <1>b, <2>4
  <2>8. Dist(req[t].q, data[t]) \in Nat
    BY <2>7, DistFacts
  <2>9. Dist(row.q, row.ans) <= Drift(level[t] + 1)
    BY <2>1, <2>5, <2>6, <2>8
  <2>10. ASSUME NEW l \in Levels, NEW x \in rows'[l]
         PROVE  Dist(x.q, x.ans) <= Drift(l + 1)
    <3>1. x \in rows[l] \/ (l = level[t] /\ x = row)
      BY <1>0, <1>a, <2>1, <2>10 DEF TypeOK
    <3> QED BY <3>1, <2>9 DEF DriftInv, RowDrift
  <2>11. RowDrift'
    BY <2>10 DEF RowDrift, Drift
  <2>12. HitDrift' /\ DataDrift'
    BY <2>2, <2>3 DEF DriftInv, HitDrift, DataDrift, Drift
  <2>13. AnswerWithinDrift'
    BY <2>2, <2>3 DEF DriftInv, AnswerWithinDrift, Drift
  <2> QED BY <1>0, <2>11, <2>12, <2>13 DEF DriftInv
<1>11. ASSUME NEW t \in Threads, SaveRaises(t) \/ CheckFlush(t) PROVE DriftInv'
  <2>1. UNCHANGED <<rows, req, hits, source>> /\ pc[t] \in {"save", "count", "flush"}
    BY <1>11 DEF SaveRaises, CheckFlush, caches
  <2>2. data[t] \in Questions /\ data[t] \in Answers /\ NoAnswer \in Answers
    BY <1>0, <2>1 DEF TypeOK, Answers
  <2>3. source[t] >= level[t] /\ Dist(req[t].q, data[t]) <= Drift(source[t])
    BY <1>0, <1>a, <2>1, <2>2 DEF DriftInv, DataDrift, TypeOK
  <2>4. PICK d, src : d \in {data[t], NoAnswer} /\ Return(t, d, src)
    BY <1>11 DEF SaveRaises, CheckFlush, AfterSave
  <2> QED BY <1>7, <2>1, <2>2, <2>3, <2>4, NoneAssumption
<1>12. ASSUME NEW t \in Threads, CountSave(t) PROVE DriftInv'
  <2>1. pc'[t] = "flush" /\ pc[t] = "count" /\ \A u \in Threads \ {t} : pc'[u] = pc[u]
    BY <1>0, <1>12 DEF CountSave, Goto, TypeOK
  <2>2. UNCHANGED <<rows, req, level, hits, data, result, source>>
    BY <1>12 DEF CountSave, frame, aux
  <2>3. RowDrift' /\ HitDrift'
    BY <2>1, <2>2 DEF DriftInv, RowDrift, HitDrift, Drift
  <2>4. DataDrift' /\ AnswerWithinDrift'
    BY <2>1, <2>2 DEF DriftInv, DataDrift, AnswerWithinDrift, Drift
  <2> QED BY <1>0, <2>3, <2>4 DEF DriftInv
\* The remaining steps leave every call alone
<1>13. ASSUME UNCHANGED <<pc, req, level, hits, data, result, source>>, RowDrift'
       PROVE  DriftInv'
  <2>1. HitDrift' /\ DataDrift'
    BY <1>13 DEF DriftInv, HitDrift, DataDrift, Drift
  <2>2. AnswerWithinDrift'
    BY <1>13 DEF DriftInv, AnswerWithinDrift, Drift
  <2> QED BY <1>0, <1>13, <2>1, <2>2 DEF DriftInv
<1>14. ASSUME NEW l \in Levels, NEW x \in rows[l], Evict(l, x) PROVE DriftInv'
  <2>1. \A m \in Levels : rows'[m] \subseteq rows[m]
    BY <1>0, <1>14 DEF Evict, TypeOK
  <2>2. RowDrift'
    BY <2>1 DEF DriftInv, RowDrift, Drift
  <2> QED BY <1>13, <1>14, <2>2 DEF Evict, frame
<1>15. ASSUME NEW l \in Levels, NEW q \in Questions, ImportData(l, q) PROVE DriftInv'
  <2>1. PICK row : row.q = q /\ row.ans = q /\ rows' = [rows EXCEPT ![l] = @ \cup {row}]
    BY <1>15 DEF ImportData
  <2>a. q \in Int /\ l + 1 \in 0..(Depth + 1)
    BY <1>b, DepthAssumption DEF Levels
  <2>b. Dist(q, q) = 0
    BY <2>a, DistFacts
  <2>c. Drift(l + 1) \in Nat
    BY <2>a, DriftFacts
  <2>2. Dist(q, q) = 0 /\ Drift(l + 1) \in Nat
    BY <2>b, <2>c
  <2>3. ASSUME NEW m \in Levels, NEW x \in rows'[m]
        PROVE  Dist(x.q, x.ans) <= Drift(m + 1)
    <3>1. x \in rows[m] \/ (m = l /\ x = row)
      BY <1>0, <2>1, <2>3 DEF TypeOK
    <3> QED BY <3>1, <2>1, <2>2 DEF DriftInv, RowDrift
  <2>4. RowDrift'
    BY <2>3 DEF RowDrift, Drift
  <2> QED BY <1>13, <1>15, <2>4 DEF ImportData, frame, aux
<1>16. ASSUME NEW s \in Sessions, Drop(s) PROVE DriftInv'
  <2>1. 1 \in Levels
    BY DepthAssumption DEF Levels
  <2>2. ASSUME NEW l \in Levels, NEW y \in rows'[l]
        PROVE  \E x \in rows[l] : y.q = x.q /\ y.ans = x.ans
    <3>1. CASE l = 1
      <4>1. PICK x \in rows[1] : y = [x EXCEPT !.sess = @ \ {s}]
        BY <1>0, <1>16, <2>1, <2>2, <3>1 DEF Drop, TypeOK
      <4>2. x \in Row
        BY <1>0, <2>1 DEF TypeOK
      <4> QED BY <3>1, <4>1, <4>2 DEF Row
    <3>2. CASE l # 1
      BY <1>0, <1>16, <2>2, <3>2 DEF Drop, TypeOK
    <3> QED BY <3>1, <3>2
  <2>3. RowDrift'
    BY <2>2 DEF DriftInv, RowDrift, Drift
  <2> QED BY <1>13, <1>16, <2>3 DEF Drop, frame
<1>17. CASE UNCHANGED vars
  <2>1. UNCHANGED <<rows, pc, req, level, hits, data, result, source>>
    BY <1>17 DEF vars, caches, frame, aux
  <2>2. RowDrift'
    BY <2>1 DEF DriftInv, RowDrift, Drift
  <2> QED BY <1>13, <2>1, <2>2
<1> QED
  BY <1>1, <1>2, <1>3, <1>3a, <1>4, <1>5, <1>6, <1>8, <1>9, <1>10, <1>11,
     <1>12, <1>14, <1>15, <1>16, <1>17 DEF Next, Continue, LookUp, Obtain, AtRest

\* THEOREM: on a chain of any depth, an answer from the cache of level l is
\* at most Depth + 1 - l similarity radii away from the question asked, and
\* an answer of the model not at all.
THEOREM DriftCorrect == Spec => []AnswerWithinDrift
<1>1. DriftInv => AnswerWithinDrift
  BY DEF DriftInv
<1> QED BY <1>1, DriftInit, DriftStep, PTL DEF Spec

-----------------------------------------------------------------------------
(* Automatic flushing, in a process with one caller.                       *)

\* Quotient and remainder.
LEMMA DivMod ==
    ASSUME NEW c \in Nat, NEW n \in Nat \ {0}
    PROVE  c % n \in 0..(n - 1) /\ c \div n \in Nat /\ c = n * (c \div n) + (c % n)
OBVIOUS

\* The remainder is unique.
LEMMA ModUnique ==
    ASSUME NEW n \in Nat \ {0}, NEW a \in Int, NEW b \in Int,
           NEW x \in 0..(n - 1), NEW y \in 0..(n - 1), n * a + x = n * b + y
    PROVE  x = y
OBVIOUS

\* Counting up, the remainder grows by one or becomes 0.
LEMMA ModSuccessor ==
    ASSUME NEW c \in Nat, NEW n \in Nat \ {0}, (c + 1) % n # 0
    PROVE  (c + 1) % n = (c % n) + 1
<1>1. c % n \in 0..(n - 1) /\ c \div n \in Nat /\ c = n * (c \div n) + (c % n)
  BY DivMod
<1>2. /\ (c + 1) % n \in 0..(n - 1) /\ (c + 1) \div n \in Nat
      /\ c + 1 = n * ((c + 1) \div n) + ((c + 1) % n)
  <2> DEFINE d == c + 1
  <2>1. d \in Nat
    OBVIOUS
  <2> HIDE DEF d
  <2>2. d % n \in 0..(n - 1) /\ d \div n \in Nat /\ d = n * (d \div n) + (d % n)
    BY <2>1, DivMod
  <2> QED BY <2>2 DEF d
<1> DEFINE a == c \div n
           b == (c + 1) \div n
           x == c % n
           y == (c + 1) % n
<1>3. a \in Nat /\ b \in Nat /\ x \in 0..(n - 1) /\ y \in 0..(n - 1)
  BY <1>1, <1>2
<1>4. n * a + (x + 1) = n * b + y
  BY <1>1, <1>2
<1>5. y # 0
  OBVIOUS
<1> HIDE DEF a, b, x, y
<1>6. CASE x + 1 \in 0..(n - 1)
  BY <1>3, <1>4, <1>6, ModUnique DEF x, y
<1>7. CASE x = n - 1
  <2>1. n * (a + 1) + 0 = n * b + y
    BY <1>3, <1>4, <1>7
  <2>2. a + 1 \in Int /\ b \in Int /\ 0 \in 0..(n - 1)
    BY <1>3
  <2> QED BY <1>3, <1>5, <2>1, <2>2, ModUnique
<1> QED BY <1>3, <1>6, <1>7

\* One caller: what the theorem on flushing is about.
SingleCaller == \E t : Threads = {t}

Rest(l) == count[l] % AutoFlush

\* A level has at most as many answers waiting as saves were counted since
\* the last multiple of auto_flush; one more between save and count; and as
\* many as there may be between the count that reaches a multiple and the
\* flush.
WithinFlush(t, l) ==
    \/ pc[t] = "count" /\ level[t] = l /\ unflushed[l] <= Rest(l) + 1
    \/ pc[t] = "flush" /\ level[t] = l /\ (Rest(l) # 0 => unflushed[l] <= Rest(l))
    \/ ~(pc[t] \in {"count", "flush"} /\ level[t] = l) /\ unflushed[l] <= Rest(l)

FlushInv ==
    /\ TypeOK
    /\ failures = 0 => \A t \in Threads, l \in Levels : WithinFlush(t, l)

\* Every step of the only caller keeps the bound.
LEMMA FlushStep == SingleCaller /\ FlushInv /\ [Next]_vars => FlushInv'
<1> SUFFICES ASSUME SingleCaller, FlushInv, [Next]_vars PROVE FlushInv'
  OBVIOUS
<1>0. TypeOK /\ TypeOK'
  BY TypeStep DEF FlushInv
<1>a. AutoFlush \in Nat \ {0}
  BY LimitsAssumption
<1>b. \A l \in Levels : /\ Rest(l) \in Nat /\ unflushed[l] \in Nat
                        /\ count[l] \in Nat
  <2> SUFFICES ASSUME NEW l \in Levels
               PROVE  Rest(l) \in Nat /\ unflushed[l] \in Nat /\ count[l] \in Nat
    OBVIOUS
  <2>1. unflushed[l] \in Nat /\ count[l] \in Nat
    BY <1>0 DEF TypeOK
  <2>2. Rest(l) \in 0..(AutoFlush - 1)
    BY <1>a, <2>1, DivMod DEF Rest
  <2> QED BY <1>a, <2>1, <2>2
\* steps before the save and on the way back
<1>1. ASSUME NEW t \in Threads, UNCHANGED <<count, unflushed, failures>>,
             pc[t] \notin {"count", "flush"}, pc'[t] \notin {"count", "flush"}
      PROVE  FlushInv'
  <2>1. \A l \in Levels : WithinFlush(t, l) => WithinFlush(t, l)'
    BY <1>1 DEF WithinFlush, Rest
  <2>2. Threads = {t}
    BY DEF SingleCaller
  <2> QED BY <1>0, <1>1, <2>1, <2>2 DEF FlushInv
<1>2. ASSUME NEW t \in Threads, NEW r \in Requests, Begin(t, r) PROVE FlushInv'
  <2>1. pc[t] = "idle" /\ pc'[t] \in {"search", "miss"}
    BY <1>0, <1>2 DEF Begin, Goto, Start, TypeOK
  <2> QED BY <1>1, <1>2, <2>1 DEF Begin, caches
<1>3. ASSUME NEW t \in Threads, Search(t) \/ Evaluate(t) \/ Reject(t) \/ Descend(t)
      PROVE  FlushInv'
  <2>1. /\ pc[t] \in {"search", "evaluate", "hit", "miss"}
        /\ pc'[t] \in {"search", "evaluate", "hit", "miss"}
    BY <1>0, <1>3 DEF Search, Evaluate, Reject, Descend, Goto, Start, TypeOK
  <2> QED BY <1>1, <1>3, <2>1 DEF Search, Evaluate, Reject, Descend, caches
<1>4. ASSUME NEW t \in Threads, Hit(t) PROVE FlushInv'
  <2>1. \E m \in hits[t] : Return(t, m.ans, level[t])
    BY <1>4 DEF Hit
  <2>2. pc[t] = "hit" /\ pc'[t] \in {"idle", "unwind"}
    BY <1>0, <1>4, <2>1 DEF Hit, Return, Goto, TypeOK
  <2> QED BY <1>1, <1>4, <2>2 DEF Hit
<1>5. ASSUME NEW t \in Threads, AsyncDescend(t) \/ CallModel(t) PROVE FlushInv'
  <2>1. pc[t] = "miss" /\ pc'[t] \in {"idle", "unwind"}
    BY <1>0, <1>5 DEF AsyncDescend, CallModel, Abort, Return, Goto, TypeOK
  <2> QED BY <1>1, <1>5, <2>1 DEF AsyncDescend, CallModel, caches
<1>6. ASSUME NEW t \in Threads, Unwind(t) PROVE FlushInv'
  <2>1. pc[t] = "unwind" /\ pc'[t] \in {"idle", "unwind", "save"}
    BY <1>0, <1>6 DEF Unwind, Return, Goto, TypeOK
  <2> QED BY <1>1, <1>6, <2>1 DEF Unwind, caches
<1>7. ASSUME NEW t \in Threads, ModelRaises(t) \/ LookupRaises(t) \/ SaveRaises(t)
      PROVE  FlushInv'
  <2>1. failures' = failures + 1
    BY <1>7 DEF ModelRaises, LookupRaises, SaveRaises
  <2>2. failures' # 0
    BY <1>0, <2>1 DEF TypeOK
  <2> QED BY <1>0, <2>2 DEF FlushInv
<1>8. ASSUME NEW t \in Threads, Save(t) PROVE FlushInv'
  <2>1. Threads = {t}
    BY DEF SingleCaller
  <2>2. /\ pc[t] = "save" /\ pc'[t] = "count" /\ level' = level /\ count' = count
        /\ failures' = failures
        /\ unflushed' = [unflushed EXCEPT ![level[t]] = @ + 1]
    BY <1>0, <1>8 DEF Save, Goto, TypeOK, frame
  <2>3. ASSUME NEW l \in Levels, failures = 0 PROVE WithinFlush(t, l)'
    <3>1. unflushed[l] <= Rest(l)
      BY <2>2, <2>3 DEF FlushInv, WithinFlush
    <3>2. unflushed'[l] = IF l = level[t] THEN unflushed[l] + 1 ELSE unflushed[l]
      BY <1>0, <2>2 DEF TypeOK
    <3>3. Rest(l)' = Rest(l) /\ level'[t] = level[t]
      BY <2>2 DEF Rest
    <3> QED BY <1>b, <2>2, <3>1, <3>2, <3>3 DEF WithinFlush
  <2> QED BY <1>0, <2>1, <2>2, <2>3 DEF FlushInv
<1>9. ASSUME NEW t \in Threads, CountSave(t) PROVE FlushInv'
  <2>1. Threads = {t}
    BY DEF SingleCaller
  <2>2. /\ pc[t] = "count" /\ pc'[t] = "flush" /\ level' = level /\ unflushed' = unflushed
        /\ failures' = failures
        /\ count' = [count EXCEPT ![level[t]] = @ + 1]
    BY <1>0, <1>9 DEF CountSave, Goto, TypeOK, frame
  <2>3. ASSUME NEW l \in Levels, failures = 0 PROVE WithinFlush(t, l)'
    <3>1. WithinFlush(t, l)
      BY <2>3 DEF FlushInv
    <3>2. CASE l = level[t]
      <4>1. unflushed[l] <= Rest(l) + 1
        BY <2>2, <3>1, <3>2 DEF WithinFlush
      <4>2. count'[l] = count[l] + 1
        BY <1>0, <2>2, <3>2 DEF TypeOK
      <4>3. Rest(l)' # 0 => Rest(l)' = Rest(l) + 1
        BY <1>a, <1>b, <4>2, ModSuccessor DEF Rest
      <4> QED BY <2>2, <3>2, <4>1, <4>3 DEF WithinFlush
    <3>3. CASE l # level[t]
      <4>1. unflushed[l] <= Rest(l)
        BY <3>1, <3>3 DEF WithinFlush
      <4>2. Rest(l)' = Rest(l)
        BY <1>0, <2>2, <3>3 DEF Rest, TypeOK
      <4> QED BY <2>2, <3>3, <4>1, <4>2 DEF WithinFlush
    <3> QED BY <3>2, <3>3
  <2> QED BY <1>0, <2>1, <2>2, <2>3 DEF FlushInv
<1>10. ASSUME NEW t \in Threads, CheckFlush(t) PROVE FlushInv'
  <2>1. Threads = {t}
    BY DEF SingleCaller
  <2>2. pc[t] = "flush" /\ pc'[t] \in {"idle", "unwind"} /\ count' = count
        /\ failures' = failures
    BY <1>0, <1>10 DEF CheckFlush, Return, Goto, TypeOK
  <2>3. ASSUME NEW l \in Levels, failures = 0 PROVE WithinFlush(t, l)'
    <3>1. WithinFlush(t, l) /\ Rest(l)' = Rest(l) /\ level[t] \in Levels
      BY <1>0, <2>2, <2>3 DEF FlushInv, Rest, TypeOK
    <3>2. unflushed'[l] = 0 \/ (unflushed'[l] = unflushed[l] /\ (l = level[t] => Rest(l) # 0))
      BY <1>10, <3>1 DEF CheckFlush, Flushed, Rest
    <3>3. unflushed'[l] <= Rest(l)
      BY <1>b, <2>2, <3>1, <3>2 DEF WithinFlush
    <3> QED BY <2>2, <3>1, <3>3 DEF WithinFlush
  <2> QED BY <1>0, <2>1, <2>2, <2>3 DEF FlushInv
<1>11. ASSUME UNCHANGED <<pc, level, count, unflushed, failures>> PROVE FlushInv'
  <2>1. \A t \in Threads, l \in Levels : WithinFlush(t, l) => WithinFlush(t, l)'
    BY <1>11 DEF WithinFlush, Rest
  <2> QED BY <1>0, <1>11, <2>1 DEF FlushInv
<1>12. ASSUME NEW l \in Levels, NEW x \in rows[l], Evict(l, x) PROVE FlushInv'
  BY <1>11, <1>12 DEF Evict, frame
<1>13. ASSUME NEW l \in Levels, NEW q \in Questions, ImportData(l, q) PROVE FlushInv'
  BY <1>11, <1>13 DEF ImportData, frame
<1>14. ASSUME NEW s \in Sessions, Drop(s) PROVE FlushInv'
  BY <1>11, <1>14 DEF Drop, frame
<1>15. CASE UNCHANGED vars
  BY <1>11, <1>15 DEF vars, caches, frame
<1> QED
  BY <1>2, <1>3, <1>4, <1>5, <1>6, <1>7, <1>8, <1>9, <1>10, <1>12, <1>13,
     <1>14, <1>15 DEF Next, Continue, LookUp, Obtain, AtRest

\* The initial state.
LEMMA FlushInit == Init => FlushInv
<1> SUFFICES ASSUME Init PROVE FlushInv
  OBVIOUS
<1>1. 0 % AutoFlush \in Nat
  BY LimitsAssumption, DivMod
<1>2. \A t \in Threads, l \in Levels : WithinFlush(t, l)
  BY <1>1 DEF Init, WithinFlush, Rest
<1> QED BY <1>2, TypeInit DEF FlushInv

\* THEOREM: with one caller, whatever the requests, the depth and auto_flush,
\* fewer than auto_flush answers of a level wait to be flushed between
\* requests as long as no call has raised.
THEOREM FlushCorrect ==
    ASSUME SingleCaller PROVE Spec => []UnflushedBounded
<1>1. FlushInv => UnflushedBounded
  <2> SUFFICES ASSUME FlushInv, failures = 0, \A t \in Threads : pc[t] = "idle",
                      NEW l \in Levels
               PROVE  unflushed[l] < AutoFlush
    BY DEF UnflushedBounded
  <2>1. unflushed[l] <= Rest(l)
    BY DEF SingleCaller, FlushInv, WithinFlush
  <2>2. count[l] \in Nat /\ unflushed[l] \in Nat /\ AutoFlush \in Nat \ {0}
    BY LimitsAssumption DEF FlushInv, TypeOK
  <2>3. Rest(l) \in 0..(AutoFlush - 1)
    BY <2>2, DivMod DEF Rest
  <2> QED BY <2>1, <2>2, <2>3
<1>2. SingleCaller
  OBVIOUS
<1>3. FlushInv /\ [Next]_vars => FlushInv'
  BY <1>2, FlushStep
<1> QED BY <1>1, <1>3, FlushInit, PTL DEF Spec

-----------------------------------------------------------------------------
(* Exceptions.                                                             *)

\* aadapt never reaches a second cache: there it raises a NameError.
NoAsyncChain == Depth = 1 \/ \A r \in Requests : ~r.async

LEMMA ErrorsStep ==
    ASSUME NoAsyncChain, TypeOK, ErrorsExplained, [Next]_vars
    PROVE  ErrorsExplained'
<1>a. Raised \notin Answers
  BY NoneAssumption DEF Answers
<1>b. NoAnswer \in Answers /\ \A t \in Threads : data[t] \in Answers
  BY DEF TypeOK, Answers
\* an answer is returned
<1>1. ASSUME NEW t \in Threads, NEW d \in Answers, NEW src, Return(t, d, src),
             \A u \in Threads \ {t} : trouble'[u] = trouble[u]
      PROVE  ErrorsExplained'
  <2>1. \A u \in Threads \ {t} : pc'[u] = pc[u] /\ result'[u] = result[u]
    BY <1>1 DEF Return, Goto, TypeOK
  <2>2. pc'[t] = "idle" => result'[t] = d
    BY <1>1 DEF Return, Goto, TypeOK
  <2> QED BY <1>a, <1>1, <2>1, <2>2 DEF ErrorsExplained
\* the request goes on
<1>2. ASSUME NEW t \in Threads, NEW label \in Labels \ {"idle"}, Goto(t, label),
             UNCHANGED result, \A u \in Threads \ {t} : trouble'[u] = trouble[u]
      PROVE  ErrorsExplained'
  BY <1>2 DEF ErrorsExplained, Goto, TypeOK
<1>3. ASSUME NEW t \in Threads, NEW r \in Requests, Begin(t, r) PROVE ErrorsExplained'
  <2>1. Start(r, 1) \in Labels \ {"idle"}
    BY DEF Start, Labels
  <2> QED BY <1>2, <1>3, <2>1 DEF Begin, TypeOK
<1>4. ASSUME NEW t \in Threads, Search(t) \/ Evaluate(t) \/ Reject(t) \/ Descend(t)
      PROVE  ErrorsExplained'
  <2>1. \E label \in Labels \ {"idle"} : Goto(t, label)
    BY <1>4 DEF Search, Evaluate, Reject, Descend, Start, Labels
  <2>2. UNCHANGED <<result, trouble>>
    BY <1>4 DEF Search, Evaluate, Reject, Descend, aux
  <2> QED BY <1>2, <2>1, <2>2
<1>5. ASSUME NEW t \in Threads, Hit(t) PROVE ErrorsExplained'
  <2>1. PICK m \in hits[t] : Return(t, m.ans, level[t])
    BY <1>5 DEF Hit
  <2>2. m.ans \in Answers
    BY <2>1 DEF TypeOK, Row, Answers
  <2> QED BY <1>1, <1>5, <2>1, <2>2 DEF Hit
<1>6. ASSUME NEW t \in Threads, LookupRaises(t) \/ ModelRaises(t) PROVE ErrorsExplained'
  <2>1. /\ trouble'[t] \in {"model", "lookup"}
        /\ \A u \in Threads \ {t} :
              trouble'[u] = trouble[u] /\ pc'[u] = pc[u] /\ result'[u] = result[u]
    BY <1>6 DEF LookupRaises, ModelRaises, Abort, Goto, TypeOK
  <2> QED BY <2>1 DEF ErrorsExplained
<1>7. ASSUME NEW t \in Threads, AsyncDescend(t) PROVE ErrorsExplained'
  <2>1. level[t] < Depth /\ req[t].async /\ req[t] \in Requests /\ level[t] \in 1..Depth
    BY <1>7 DEF AsyncDescend, TypeOK, Levels
  <2> QED BY <2>1, DepthAssumption DEF NoAsyncChain
<1>8. ASSUME NEW t \in Threads, CallModel(t) PROVE ErrorsExplained'
  <2>1. CASE Return(t, NoAnswer, 0)
    BY <1>1, <1>8, <1>b, <2>1 DEF CallModel
  <2>2. CASE Goto(t, "unwind") /\ UNCHANGED result
    <3>1. "unwind" \in Labels \ {"idle"}
      BY DEF Labels
    <3> QED BY <1>2, <1>8, <2>2, <3>1 DEF CallModel
  <2> QED BY <1>8, <2>1, <2>2 DEF CallModel
<1>9. ASSUME NEW t \in Threads, Unwind(t) PROVE ErrorsExplained'
  <2>1. CASE Return(t, data[t], source[t]) \/ Return(t, NoAnswer, source[t])
    BY <1>1, <1>9, <1>b, <2>1 DEF Unwind
  <2>2. CASE Goto(t, "save") /\ UNCHANGED result
    <3>1. "save" \in Labels \ {"idle"}
      BY DEF Labels
    <3> QED BY <1>2, <1>9, <2>2, <3>1 DEF Unwind
  <2> QED BY <1>9, <2>1, <2>2 DEF Unwind
<1>10. ASSUME NEW t \in Threads, Save(t) \/ CountSave(t) PROVE ErrorsExplained'
  <2>1. \E label \in Labels \ {"idle"} : Goto(t, label)
    BY <1>10 DEF Save, CountSave, Labels
  <2>2. UNCHANGED <<result, trouble>>
    BY <1>10 DEF Save, CountSave, aux
  <2> QED BY <1>2, <2>1, <2>2
<1>11. ASSUME NEW t \in Threads, SaveRaises(t) PROVE ErrorsExplained'
  <2>1. Return(t, data[t], 0) /\ \A u \in Threads \ {t} : trouble'[u] = trouble[u]
    BY <1>11 DEF SaveRaises, TypeOK
  <2> QED BY <1>1, <1>b, <2>1
<1>12. ASSUME NEW t \in Threads, CheckFlush(t) PROVE ErrorsExplained'
  <2>1. AfterSave(t) \in Answers /\ Return(t, AfterSave(t), source[t])
    BY <1>12, <1>b DEF CheckFlush, AfterSave
  <2> QED BY <1>1, <1>12, <2>1 DEF CheckFlush
<1>13. ASSUME NEW l \in Levels, NEW x \in rows[l], Evict(l, x) PROVE ErrorsExplained'
  <2>1. UNCHANGED <<pc, result>> /\ \A t \in Threads : pc[t] = "idle" => trouble'[t] = trouble[t]
    BY <1>13 DEF Evict, TypeOK
  <2> QED BY <2>1 DEF ErrorsExplained
<1>14. ASSUME UNCHANGED <<pc, result, trouble>> PROVE ErrorsExplained'
  BY <1>14 DEF ErrorsExplained
<1>15. ASSUME NEW l \in Levels, NEW q \in Questions, ImportData(l, q) PROVE ErrorsExplained'
  BY <1>14, <1>15 DEF ImportData, aux
<1>16. ASSUME NEW s \in Sessions, Drop(s) PROVE ErrorsExplained'
  BY <1>14, <1>16 DEF Drop
<1>17. CASE UNCHANGED vars
  BY <1>14, <1>17 DEF vars, aux
<1> QED
  BY <1>3, <1>4, <1>5, <1>6, <1>7, <1>8, <1>9, <1>10, <1>11, <1>12, <1>13, <1>15,
     <1>16, <1>17 DEF Next, Continue, LookUp, Obtain, AtRest

\* THEOREM: for one cache and any requests, or a chain of caches and adapt, a
\* caller sees an exception only when the model or a lookup raised one during
\* its request; what save, flush or its count raises is swallowed at every
\* level.
THEOREM ErrorsCorrect ==
    ASSUME NoAsyncChain PROVE Spec => []ErrorsExplained
<1>1. Init => ErrorsExplained
  BY NoneAssumption DEF Init, ErrorsExplained
<1>2. NoAsyncChain
  OBVIOUS
<1>3. TypeOK /\ ErrorsExplained /\ [Next]_vars => ErrorsExplained'
  BY <1>2, ErrorsStep
<1> QED BY <1>1, <1>3, TypeCorrect, PTL DEF Spec

-----------------------------------------------------------------------------
(* Where an answer comes from.                                             *)

\* A request has no source on its way down; on its way back, what has a source
\* is an answer, unless the callbacks of put and get took it away.
SourceOf(t) ==
    /\ pc[t] \in {"search", "evaluate", "hit", "miss"} => source[t] = 0
    /\ pc[t] = "unwind" /\ source[t] # 0 /\ (req[t].mode = "ask" \/ level[t] = Depth) =>
          data[t] \in Questions
    /\ pc[t] = "idle" /\ source[t] \in Levels /\ (req[t].mode = "ask" \/ Depth = 1) =>
          result[t] # NoAnswer

SourceKnown == \A t \in Threads : SourceOf(t)

\* An answer that is returned keeps its source.
LEMMA ReturnSource ==
    ASSUME TypeOK, NEW t \in Threads, NEW d \in Answers, NEW src, Return(t, d, src),
           req'[t] = req[t],
           req[t].mode = "ask" /\ source'[t] # 0 => d \in Questions,
           Depth = 1 /\ source'[t] \in Levels => d # NoAnswer
    PROVE  SourceOf(t)'
<1>1. level[t] \in Levels /\ Depth \in Nat \ {0} /\ NoAnswer \notin Questions
  BY DepthAssumption, NoneAssumption DEF TypeOK
<1>2. CASE level[t] = 1
  <2>1. pc'[t] = "idle" /\ result'[t] = d
    BY <1>2 DEF Return, Goto, TypeOK
  <2> QED BY <1>1, <2>1 DEF SourceOf, Levels
<1>3. CASE level[t] # 1
  <2>1. pc'[t] = "unwind" /\ data'[t] = d /\ level'[t] = level[t] - 1
    BY <1>3 DEF Return, Goto, TypeOK
  <2>2. level'[t] # Depth
    BY <1>1, <2>1 DEF Levels
  <2> QED BY <2>1, <2>2 DEF SourceOf
<1> QED BY <1>2, <1>3

LEMMA SourceStep ==
    ASSUME DriftInv, SourceKnown, [Next]_vars
    PROVE  SourceKnown'
<1>0. TypeOK /\ DataDrift
  BY DEF DriftInv
<1>a. NoAnswer \in Answers /\ NoAnswer \notin Questions /\ Questions \subseteq Answers
  BY NoneAssumption DEF Answers
<1>b. \A t \in Threads : /\ data[t] \in Answers
                         /\ pc[t] \in {"save", "count", "flush"} => data[t] \in Questions
                         /\ level[t] \in Levels
  BY <1>0 DEF TypeOK
\* with one cache, what comes back comes from the model
<1>c. ASSUME NEW t \in Threads, Depth = 1, data[t] \in Questions,
             pc[t] \in {"unwind", "save", "count", "flush"}
      PROVE  source[t] \notin Levels
  <2>1. source[t] > level[t]
    BY <1>0, <1>c DEF DataDrift
  <2> QED BY <1>b, <1>c, <2>1 DEF Levels
\* steps of t leave the other calls alone
<1>1. ASSUME NEW t \in Threads, SourceOf(t)',
             \A u \in Threads \ {t} :
                /\ pc'[u] = pc[u] /\ source'[u] = source[u] /\ req'[u] = req[u]
                /\ level'[u] = level[u] /\ data'[u] = data[u] /\ result'[u] = result[u]
      PROVE  SourceKnown'
  BY <1>1 DEF SourceKnown, SourceOf
<1>2. ASSUME NEW t \in Threads, NEW d \in Answers, NEW src, Return(t, d, src),
             UNCHANGED req, \A u \in Threads \ {t} : source'[u] = source[u],
             req[t].mode = "ask" /\ source'[t] # 0 => d \in Questions,
             Depth = 1 /\ source'[t] \in Levels => d # NoAnswer
      PROVE  SourceKnown'
  <2>1. SourceOf(t)'
    BY <1>0, <1>2, ReturnSource
  <2>2. \A u \in Threads \ {t} :
           /\ pc'[u] = pc[u] /\ level'[u] = level[u]
           /\ data'[u] = data[u] /\ result'[u] = result[u]
    BY <1>0, <1>2 DEF Return, Goto, TypeOK
  <2> QED BY <1>1, <1>2, <2>1, <2>2
<1>3. ASSUME NEW t \in Threads, NEW r \in Requests, Begin(t, r) PROVE SourceKnown'
  <2>1. pc'[t] \in {"search", "miss"} /\ source'[t] = 0
    BY <1>0, <1>3 DEF Begin, Goto, Start, TypeOK
  <2>2. SourceOf(t)'
    BY <2>1 DEF SourceOf
  <2> QED BY <1>0, <1>1, <1>3, <2>2 DEF Begin, Goto, TypeOK
<1>4. ASSUME NEW t \in Threads, Search(t) \/ Evaluate(t) \/ Reject(t) \/ Descend(t)
      PROVE  SourceKnown'
  <2>1. /\ pc[t] \in {"search", "evaluate", "hit", "miss"}
        /\ pc'[t] \in {"search", "evaluate", "hit", "miss"}
        /\ \A u \in Threads \ {t} : pc'[u] = pc[u] /\ level'[u] = level[u]
    BY <1>0, <1>4 DEF Search, Evaluate, Reject, Descend, Goto, Start, TypeOK
  <2>2. UNCHANGED <<source, req, data, result>>
    BY <1>4 DEF Search, Evaluate, Reject, Descend, aux
  <2>3. SourceOf(t)'
    BY <2>1, <2>2 DEF SourceOf, SourceKnown
  <2> QED BY <1>1, <2>1, <2>2, <2>3
<1>5. ASSUME NEW t \in Threads, Hit(t) PROVE SourceKnown'
  <2>1. PICK m \in hits[t] : /\ source' = [source EXCEPT ![t] = level[t]]
                             /\ Return(t, m.ans, level[t])
    BY <1>5 DEF Hit
  <2>2. m.ans \in Questions
    BY <1>0, <2>1 DEF TypeOK, Row
  <2>3. UNCHANGED req /\ \A u \in Threads \ {t} : source'[u] = source[u]
    BY <1>0, <1>5, <2>1 DEF Hit, TypeOK
  <2> QED BY <1>2, <1>a, <2>1, <2>2, <2>3
<1>6. ASSUME NEW t \in Threads, LookupRaises(t) \/ ModelRaises(t) \/ AsyncDescend(t)
      PROVE  SourceKnown'
  <2>1. /\ pc[t] \in {"search", "evaluate", "hit", "miss"} /\ pc'[t] = "idle"
        /\ \A u \in Threads \ {t} : pc'[u] = pc[u] /\ result'[u] = result[u]
    BY <1>0, <1>6 DEF LookupRaises, ModelRaises, AsyncDescend, Abort, Goto, TypeOK
  <2>2. UNCHANGED <<source, req, level, data>>
    BY <1>6 DEF LookupRaises, ModelRaises, AsyncDescend, Abort
  <2>3. source'[t] = 0
    BY <2>1, <2>2 DEF SourceOf, SourceKnown
  <2>4. SourceOf(t)'
    BY <2>1, <2>3 DEF SourceOf, Levels
  <2> QED BY <1>1, <2>1, <2>2, <2>4
<1>7. ASSUME NEW t \in Threads, CallModel(t) PROVE SourceKnown'
  <2>1. CASE Return(t, NoAnswer, 0) /\ UNCHANGED source
    <3>1. source'[t] = 0 /\ UNCHANGED req
      BY <1>7, <2>1 DEF CallModel, SourceKnown, SourceOf
    <3> QED BY <1>2, <1>a, <2>1, <3>1 DEF Levels
  <2>2. CASE /\ data' = [data EXCEPT ![t] = req[t].q]
             /\ source' = [source EXCEPT ![t] = Depth + 1]
             /\ Goto(t, "unwind") /\ UNCHANGED <<level, result, kept>>
    <3>1. pc'[t] = "unwind" /\ data'[t] = req[t].q /\ req[t].q \in Questions
      BY <1>0, <2>2, RequestFacts DEF Goto, TypeOK
    <3>2. SourceOf(t)'
      BY <3>1 DEF SourceOf
    <3> QED BY <1>0, <1>1, <1>7, <2>2, <3>2 DEF CallModel, Goto, TypeOK
  <2> QED BY <1>7, <2>1, <2>2 DEF CallModel
<1>8. ASSUME NEW t \in Threads, Unwind(t) PROVE SourceKnown'
  <2>1. UNCHANGED <<req, source>> /\ pc[t] = "unwind" /\ SourceOf(t)
    BY <1>8 DEF Unwind, SourceKnown
  <2>2. CASE Return(t, data[t], source[t])
    <3>1. req[t].mode = "ask" /\ source'[t] # 0 => data[t] \in Questions
      BY <2>1 DEF SourceOf
    <3>2. Depth = 1 /\ source'[t] \in Levels => data[t] # NoAnswer
      BY <1>a, <1>b, <2>1 DEF SourceOf, Levels
    <3> QED BY <1>2, <1>b, <2>1, <2>2, <3>1, <3>2
  <2>3. CASE data[t] # NoAnswer /\ req[t].mode = "get" /\ Return(t, NoAnswer, source[t])
    <3>1. Depth = 1 => source'[t] \notin Levels
      BY <1>b, <1>c, <2>1, <2>3 DEF Answers
    <3> QED BY <1>2, <1>a, <2>1, <2>3, <3>1
  <2>4. CASE Goto(t, "save") /\ UNCHANGED <<level, data, result, kept>>
    <3>1. pc'[t] = "save" /\ \A u \in Threads \ {t} : pc'[u] = pc[u]
      BY <1>0, <2>4 DEF Goto, TypeOK
    <3>2. SourceOf(t)'
      BY <3>1 DEF SourceOf
    <3> QED BY <1>1, <2>1, <2>4, <3>1, <3>2
  <2> QED BY <1>8, <2>2, <2>3, <2>4 DEF Unwind
<1>9. ASSUME NEW t \in Threads, Save(t) \/ CountSave(t) PROVE SourceKnown'
  <2>1. pc'[t] \in {"count", "flush"} /\ \A u \in Threads \ {t} : pc'[u] = pc[u]
    BY <1>0, <1>9 DEF Save, CountSave, Goto, TypeOK
  <2>2. UNCHANGED <<source, req, level, data, result>>
    BY <1>9 DEF Save, CountSave, frame, aux
  <2>3. SourceOf(t)'
    BY <2>1 DEF SourceOf
  <2> QED BY <1>1, <2>1, <2>2, <2>3
<1>10. ASSUME NEW t \in Threads, SaveRaises(t) \/ CheckFlush(t) PROVE SourceKnown'
  <2>1. UNCHANGED <<req, source>> /\ pc[t] \in {"save", "count", "flush"}
    BY <1>10 DEF SaveRaises, CheckFlush
  <2>2. PICK d, src : /\ Return(t, d, src)
                      /\ d = data[t] \/ (req[t].mode = "put" /\ d = NoAnswer)
    BY <1>10 DEF SaveRaises, CheckFlush, AfterSave
  <2>3. data[t] \in Questions /\ d \in Answers
    BY <1>a, <1>b, <2>1, <2>2
  <2>4. Depth = 1 => source'[t] \notin Levels
    BY <1>c, <2>1, <2>3
  <2> QED BY <1>2, <1>a, <2>1, <2>2, <2>3, <2>4
<1>11. ASSUME UNCHANGED <<pc, source, req, level, data, result>> PROVE SourceKnown'
  BY <1>11 DEF SourceKnown, SourceOf
<1>12. ASSUME NEW l \in Levels, NEW x \in rows[l], Evict(l, x) PROVE SourceKnown'
  BY <1>11, <1>12 DEF Evict, frame
<1>13. ASSUME NEW l \in Levels, NEW q \in Questions, ImportData(l, q) PROVE SourceKnown'
  BY <1>11, <1>13 DEF ImportData, frame, aux
<1>14. ASSUME NEW s \in Sessions, Drop(s) PROVE SourceKnown'
  BY <1>11, <1>14 DEF Drop, frame
<1>15. CASE UNCHANGED vars
  BY <1>11, <1>15 DEF vars, frame, aux
<1> QED
  BY <1>3, <1>4, <1>5, <1>6, <1>7, <1>8, <1>9, <1>10, <1>12, <1>13, <1>14, <1>15
     DEF Next, Continue, LookUp, Obtain, AtRest

LEMMA DriftInvariant == Spec => []DriftInv
BY DriftInit, DriftStep, PTL DEF Spec

LEMMA SourceInvariant == Spec => []SourceKnown
<1>1. Init => SourceKnown
  BY DEF Init, SourceKnown, SourceOf, Levels
<1>2. DriftInv /\ SourceKnown /\ [Next]_vars => SourceKnown'
  BY SourceStep
<1> QED BY <1>1, <1>2, DriftInvariant, PTL DEF Spec

\* Callbacks of put and get return None on the way back through a chain.
AnswersPass == Depth = 1 \/ \A r \in Requests : r.mode = "ask"

\* THEOREM: what some cache of a chain of any depth answers reaches the
\* caller of adapt or aadapt, through every level that saves it, fails to, or
\* is disabled; with one cache, the callers of put and get too.
THEOREM HitsReturned ==
    ASSUME AnswersPass PROVE Spec => []HitReachesCaller
<1>1. TypeOK /\ SourceKnown => HitReachesCaller
  <2> SUFFICES ASSUME TypeOK, SourceKnown PROVE HitReachesCaller
    OBVIOUS
  <2>1. \A t \in Threads : req[t] \in Requests
    BY DEF TypeOK
  <2> QED BY <2>1 DEF SourceKnown, SourceOf, HitReachesCaller, AnswersPass
<1> QED BY <1>1, TypeCorrect, SourceInvariant, PTL

-----------------------------------------------------------------------------
(* What level 1 keeps.                                                     *)

\* Between its save and its return at level 1 a request's row is there, or was
\* evicted.
SavedHere ==
    \A t \in Threads :
        pc[t] \in {"count", "flush"} /\ level[t] = 1 /\ trouble[t] = "none" =>
            \E x \in rows[1] : x.q = req[t].q

KeptInv == StoredInFirst /\ SavedHere

\* put saves in the last cache of a chain and returns None to the others.
PutAtOneLevel == Depth = 1 \/ \A r \in Requests : r.mode # "put"

\* A session that joins a row, and one that leaves, change no question.
LEMMA JoinedQuestions ==
    ASSUME NEW S \in SUBSET Row, NEW i, NEW s, NEW x \in S
    PROVE  \E y \in Joined(S, i, s) : y.q = x.q
<1> DEFINE y == IF x.id = i THEN [x EXCEPT !.sess = @ \cup {s}] ELSE x
<1>1. y \in Joined(S, i, s)
  BY DEF Joined
<1>2. y.q = x.q
  BY DEF Row
<1> QED BY <1>1, <1>2

LEMMA KeptStep ==
    ASSUME PutAtOneLevel, TypeOK, SourceKnown, KeptInv, [Next]_vars
    PROVE  KeptInv'
<1>a. 1 \in Levels /\ rows[1] \subseteq Row /\ NoAnswer \notin Questions
  BY DepthAssumption, NoneAssumption DEF Levels, TypeOK
\* A step that takes no row of level 1 away and leaves every call before count
\* or where it was
<1>1. ASSUME \A x \in rows[1] : \E y \in rows'[1] : y.q = x.q,
             \A q \in kept' \ kept : \E y \in rows'[1] : y.q = q,
             \A t \in Threads :
                \/ pc'[t] \notin {"count", "flush"}
                \/ /\ pc[t] \in {"count", "flush"} /\ level'[t] = level[t]
                   /\ req'[t] = req[t] /\ trouble'[t] = trouble[t]
      PROVE  KeptInv'
  <2>1. StoredInFirst'
    BY <1>1 DEF KeptInv, StoredInFirst
  <2>2. SavedHere'
    BY <1>1 DEF KeptInv, SavedHere
  <2> QED BY <2>1, <2>2 DEF KeptInv
\* A return, which owes nothing it does not have
<1>2. ASSUME NEW t \in Threads, NEW d, NEW src, Return(t, d, src), UNCHANGED req,
             \A x \in rows[1] : \E y \in rows'[1] : y.q = x.q,
             \A u \in Threads \ {t} : trouble'[u] = trouble[u],
             level[t] = 1 => \A q \in Owed(t, src) : \E y \in rows'[1] : y.q = q
      PROVE  KeptInv'
  <2>1. \A q \in kept' \ kept : \E y \in rows'[1] : y.q = q
    BY <1>2 DEF Return
  <2>2. pc'[t] \notin {"count", "flush"}
    BY <1>2 DEF Return, Goto, TypeOK
  <2>3. \A u \in Threads \ {t} : pc'[u] = pc[u] /\ level'[u] = level[u] /\ req'[u] = req[u]
    BY <1>2 DEF Return, Goto, TypeOK
  <2> QED BY <1>1, <1>2, <2>1, <2>2, <2>3
\* A step of t on the way down
<1>3. ASSUME NEW t \in Threads, NEW label \in Labels \ {"count", "flush"}, Goto(t, label),
             UNCHANGED <<rows, kept>>,
             \A u \in Threads \ {t} :
                level'[u] = level[u] /\ req'[u] = req[u] /\ trouble'[u] = trouble[u]
      PROVE  KeptInv'
  <2>1. pc'[t] = label /\ \A u \in Threads \ {t} : pc'[u] = pc[u]
    BY <1>3 DEF Goto, TypeOK
  <2> QED BY <1>1, <1>3, <2>1
<1>4. ASSUME NEW t \in Threads, NEW r \in Requests, Begin(t, r) PROVE KeptInv'
  <2>1. Start(r, 1) \in Labels \ {"count", "flush"} /\ Goto(t, Start(r, 1))
    BY <1>4 DEF Begin, Start, Labels
  <2>2. /\ UNCHANGED <<rows, kept>>
        /\ \A u \in Threads \ {t} :
              level'[u] = level[u] /\ req'[u] = req[u] /\ trouble'[u] = trouble[u]
    BY <1>4 DEF Begin, caches, TypeOK
  <2> QED BY <1>3, <2>1, <2>2
<1>5. ASSUME NEW t \in Threads, Search(t) \/ Evaluate(t) \/ Reject(t) \/ Descend(t)
      PROVE  KeptInv'
  <2>1. \E label \in Labels \ {"count", "flush"} : Goto(t, label)
    BY <1>5 DEF Search, Evaluate, Reject, Descend, Start, Labels
  <2>2. /\ UNCHANGED <<rows, kept>>
        /\ \A u \in Threads \ {t} :
              level'[u] = level[u] /\ req'[u] = req[u] /\ trouble'[u] = trouble[u]
    BY <1>5 DEF Search, Evaluate, Reject, Descend, caches, aux, TypeOK
  <2> QED BY <1>3, <2>1, <2>2
<1>6. ASSUME NEW t \in Threads, LookupRaises(t) \/ ModelRaises(t) \/ AsyncDescend(t)
      PROVE  KeptInv'
  <2>1. Goto(t, "idle") /\ "idle" \in Labels \ {"count", "flush"}
    BY <1>6 DEF LookupRaises, ModelRaises, AsyncDescend, Abort, Labels
  <2>2. /\ UNCHANGED <<rows, kept>>
        /\ \A u \in Threads \ {t} :
              level'[u] = level[u] /\ req'[u] = req[u] /\ trouble'[u] = trouble[u]
    BY <1>6 DEF LookupRaises, ModelRaises, AsyncDescend, Abort, caches, TypeOK
  <2> QED BY <1>3, <2>1, <2>2
<1>7. ASSUME NEW t \in Threads, Hit(t) PROVE KeptInv'
  <2>1. PICK m \in hits[t] : \E x \in WholeData(t, m.ans) :
            /\ rows' = IF SessionAt(req[t], level[t]) = NoSession THEN rows
                       ELSE [rows EXCEPT ![level[t]] =
                                Joined(rows[level[t]], x.id, req[t].session)]
            /\ Return(t, m.ans, level[t])
    BY <1>7 DEF Hit
  <2>2. PICK i : /\ \/ rows' = rows
                    \/ rows' = [rows EXCEPT ![level[t]] =
                                   Joined(rows[level[t]], i, req[t].session)]
                 /\ Return(t, m.ans, level[t])
    BY <2>1
  <2>3. ASSUME NEW x \in rows[1] PROVE \E y \in rows'[1] : y.q = x.q
    <3>1. CASE rows'[1] = rows[1]
      BY <3>1
    <3>2. CASE rows'[1] = Joined(rows[1], i, req[t].session)
      BY <1>a, <3>2, JoinedQuestions
    <3> QED BY <1>a, <2>2, <3>1, <3>2 DEF TypeOK
  <2>4. level[t] = 1 => Owed(t, level[t]) = {}
    BY DEF Owed
  <2> QED BY <1>2, <1>7, <2>2, <2>3, <2>4 DEF Hit
<1>8. ASSUME NEW t \in Threads, CallModel(t) PROVE KeptInv'
  <2>1. CASE Return(t, NoAnswer, 0)
    BY <1>2, <1>8, <2>1 DEF CallModel, caches, Owed
  <2>2. CASE Goto(t, "unwind") /\ UNCHANGED <<level, kept>>
    <3>1. "unwind" \in Labels \ {"count", "flush"}
      BY DEF Labels
    <3> QED BY <1>3, <1>8, <2>2, <3>1 DEF CallModel, caches
  <2> QED BY <1>8, <2>1, <2>2 DEF CallModel
<1>9. ASSUME NEW t \in Threads, Unwind(t) PROVE KeptInv'
  <2>1. UNCHANGED <<rows, req, trouble>> /\ pc[t] = "unwind" /\ SourceOf(t)
    BY <1>9 DEF Unwind, caches, SourceKnown
  <2>2. CASE /\ data[t] = NoAnswer \/ level[t] \notin req[t].enabled
             /\ Return(t, data[t], source[t])
    <3>1. ASSUME level[t] = 1, Owed(t, source[t]) # {} PROVE FALSE
      <4>1. req[t].mode \in {"ask", "put"} /\ data[t] = NoAnswer /\ source[t] > 1
        BY <2>2, <3>1 DEF Owed
      <4>2. req[t] \in Requests /\ source[t] # 0
        BY <4>1 DEF TypeOK
      <4>3. req[t].mode = "ask" \/ level[t] = Depth
        BY <3>1, <4>1, <4>2 DEF PutAtOneLevel
      <4> QED BY <1>a, <2>1, <4>1, <4>2, <4>3 DEF SourceOf
    <3> QED BY <1>2, <2>1, <2>2, <3>1
  <2>3. CASE req[t].mode = "get" /\ Return(t, NoAnswer, source[t])
    <3>1. Owed(t, source[t]) = {}
      BY <2>3 DEF Owed
    <3> QED BY <1>2, <2>1, <2>3, <3>1
  <2>4. CASE Goto(t, "save") /\ UNCHANGED <<level, kept>>
    <3>1. "save" \in Labels \ {"count", "flush"}
      BY DEF Labels
    <3> QED BY <1>3, <2>1, <2>4, <3>1
  <2> QED BY <1>9, <2>2, <2>3, <2>4 DEF Unwind
<1>10. ASSUME NEW t \in Threads, Save(t) PROVE KeptInv'
  <2>1. PICK row : row.q = req[t].q /\ rows' = [rows EXCEPT ![level[t]] = @ \cup {row}]
    BY <1>10 DEF Save
  <2>2. UNCHANGED <<req, level, trouble, kept>>
    BY <1>10 DEF Save, frame
  <2>3. rows[1] \subseteq rows'[1] /\ (level[t] = 1 => row \in rows'[1])
    BY <1>a, <2>1 DEF TypeOK
  <2>4. \A u \in Threads \ {t} : pc'[u] = pc[u]
    BY <1>10 DEF Save, Goto, TypeOK
  <2>5. StoredInFirst'
    BY <2>2, <2>3 DEF KeptInv, StoredInFirst
  <2>6. SavedHere'
    BY <2>1, <2>2, <2>3, <2>4 DEF KeptInv, SavedHere
  <2> QED BY <2>5, <2>6 DEF KeptInv
<1>11. ASSUME NEW t \in Threads, CountSave(t) PROVE KeptInv'
  <2>1. pc[t] = "count" /\ \A u \in Threads \ {t} : pc'[u] = pc[u]
    BY <1>11 DEF CountSave, Goto, TypeOK
  <2>2. UNCHANGED <<rows, req, level, trouble, kept>>
    BY <1>11 DEF CountSave, frame, aux
  <2> QED BY <1>1, <2>1, <2>2
<1>12. ASSUME NEW t \in Threads, SaveRaises(t) PROVE KeptInv'
  <2>1. UNCHANGED <<rows, req>> /\ Return(t, data[t], 0)
        /\ \A u \in Threads \ {t} : trouble'[u] = trouble[u]
    BY <1>12 DEF SaveRaises, caches, TypeOK
  <2>2. Owed(t, 0) = {}
    BY DEF Owed
  <2> QED BY <1>2, <2>1, <2>2
<1>13. ASSUME NEW t \in Threads, CheckFlush(t) PROVE KeptInv'
  <2>1. /\ UNCHANGED <<rows, req, trouble>> /\ pc[t] = "flush"
        /\ Return(t, AfterSave(t), source[t])
    BY <1>13 DEF CheckFlush
  <2>2. level[t] = 1 => \A q \in Owed(t, source[t]) : \E y \in rows[1] : y.q = q
    BY <2>1 DEF Owed, KeptInv, SavedHere
  <2> QED BY <1>2, <2>1, <2>2
<1>14. ASSUME NEW l \in Levels, NEW x \in rows[l], Evict(l, x) PROVE KeptInv'
  <2>1. UNCHANGED <<pc, level, req>> /\ rows' = [rows EXCEPT ![l] = @ \ {x}]
    BY <1>14 DEF Evict, frame
  <2>2. CASE l # 1
    <3>1. rows'[1] = rows[1] /\ UNCHANGED <<kept, trouble>>
      BY <1>14, <1>a, <2>1, <2>2 DEF Evict, TypeOK
    <3> QED BY <1>1, <2>1, <3>1
  <2>3. CASE l = 1
    <3>1. /\ rows'[1] = rows[1] \ {x} /\ kept' = kept \ {x.q}
          /\ \A t \in Threads :
                trouble'[t] = IF pc[t] # "idle" /\ req[t].q = x.q
                              THEN "evicted" ELSE trouble[t]
      BY <1>14, <1>a, <2>1, <2>3 DEF Evict, TypeOK
    <3>2. StoredInFirst'
      BY <3>1 DEF KeptInv, StoredInFirst
    <3>3. SavedHere'
      BY <2>1, <3>1 DEF KeptInv, SavedHere
    <3> QED BY <3>2, <3>3 DEF KeptInv
  <2> QED BY <2>2, <2>3
<1>15. ASSUME NEW l \in Levels, NEW q \in Questions, ImportData(l, q) PROVE KeptInv'
  <2>1. rows[1] \subseteq rows'[1] /\ UNCHANGED <<pc, level, req, trouble, kept>>
    BY <1>15, <1>a DEF ImportData, frame, aux, TypeOK
  <2> QED BY <1>1, <2>1
<1>16. ASSUME NEW s \in Sessions, Drop(s) PROVE KeptInv'
  <2>1. /\ rows'[1] = {[x EXCEPT !.sess = @ \ {s}] : x \in rows[1]}
        /\ UNCHANGED <<pc, level, req, trouble, kept>>
    BY <1>16, <1>a DEF Drop, frame, TypeOK
  <2>2. ASSUME NEW x \in rows[1] PROVE \E y \in rows'[1] : y.q = x.q
    <3>1. [x EXCEPT !.sess = @ \ {s}] \in rows'[1]
      BY <2>1
    <3>2. [x EXCEPT !.sess = @ \ {s}].q = x.q
      BY <1>a DEF Row
    <3> QED BY <3>1, <3>2
  <2> QED BY <1>1, <2>1, <2>2
<1>17. CASE UNCHANGED vars
  BY <1>1, <1>17 DEF vars, caches, frame, aux
<1> QED
  BY <1>4, <1>5, <1>6, <1>7, <1>8, <1>9, <1>10, <1>11, <1>12, <1>13, <1>14, <1>15,
     <1>16, <1>17 DEF Next, Continue, LookUp, Obtain, AtRest

\* THEOREM: on a chain of any depth and with any callers of adapt, aadapt and
\* get, and of put too where there is one cache, a question that went past
\* level 1 without trouble is answered from level 1 from then on, until
\* level 1 evicts it.
THEOREM FirstCacheKeeps ==
    ASSUME PutAtOneLevel PROVE Spec => []StoredInFirst
<1>1. Init => KeptInv
  BY DEF Init, KeptInv, StoredInFirst, SavedHere
<1>2. PutAtOneLevel
  OBVIOUS
<1>3. TypeOK /\ SourceKnown /\ KeptInv /\ [Next]_vars => KeptInv'
  BY <1>2, KeptStep
<1>4. KeptInv => StoredInFirst
  BY DEF KeptInv
<1> QED BY <1>1, <1>3, <1>4, TypeCorrect, SourceInvariant, PTL DEF Spec

-----------------------------------------------------------------------------
(* Rows a session was given.                                               *)

\* Ids are new, and a row knows the sessions that were given its answer, unless
\* another row with that answer joined in its place, as long as it is there.
SessionRows ==
    /\ \A x \in rows[1] : x.id <= lastId
    /\ \A p \in received : p[2] <= lastId
    /\ \A p \in received \ passed : \A x \in rows[1] : x.id = p[2] => p[1] \in x.sess

\* What the search of a session found, it has not been given, or not joined.
HitsNew ==
    \A t \in Threads : pc[t] = "hit" =>
        \A x \in hits[t] :
            x.id <= lastId /\ <<req[t].session, x.id>> \notin received \ passed

OnceInv == SessionRows /\ HitsNew /\ RowOncePerSession

LEMMA OnceStep ==
    ASSUME SingleCaller, Depth = 1, TypeOK, OnceInv, [Next]_vars
    PROVE  OnceInv'
<1>a. Levels = {1} /\ rows[1] \subseteq Row /\ lastId \in Nat
  BY DEF Levels, TypeOK
<1>b. \A t \in Threads : level[t] = 1 /\ SessionAt(req[t], level[t]) = req[t].session
  BY <1>a DEF TypeOK, SessionAt
<1>c. received \subseteq (Sessions \X Nat) /\ NoSession \notin Sessions
  BY NoneAssumption DEF TypeOK
\* A step that changes no row and gives none
<1>1. ASSUME UNCHANGED <<rows, lastId, received, repeated, passed>>,
             \A t \in Threads : pc'[t] = "hit" =>
                pc[t] = "hit" /\ hits'[t] = hits[t] /\ req'[t] = req[t]
      PROVE  OnceInv'
  <2>1. SessionRows' /\ RowOncePerSession'
    BY <1>1 DEF OnceInv, SessionRows, RowOncePerSession
  <2>2. HitsNew'
    BY <1>1 DEF OnceInv, HitsNew
  <2> QED BY <2>1, <2>2 DEF OnceInv
\* The same, for the steps of the caller
<1>2. ASSUME NEW t \in Threads, pc'[t] # "hit", UNCHANGED <<rows, lastId, received, repeated, passed>>
      PROVE  OnceInv'
  BY <1>1, <1>2 DEF SingleCaller
<1>3. ASSUME NEW t \in Threads, NEW r \in Requests, Begin(t, r) PROVE OnceInv'
  <2>1. pc'[t] # "hit"
    BY <1>3 DEF Begin, Goto, Start, TypeOK
  <2> QED BY <1>2, <1>3, <2>1 DEF Begin, caches
<1>4. ASSUME NEW t \in Threads, Search(t) \/ Reject(t) \/ Descend(t) PROVE OnceInv'
  <2>1. pc'[t] # "hit"
    BY <1>4 DEF Search, Reject, Descend, Goto, Start, TypeOK
  <2> QED BY <1>2, <1>4, <2>1 DEF Search, Reject, Descend, caches, aux
<1>5. ASSUME NEW t \in Threads, Evaluate(t) PROVE OnceInv'
  <2>1. UNCHANGED <<rows, lastId, received, repeated, passed, req>>
    BY <1>5 DEF Evaluate, caches, aux
  <2>2. \A x \in hits'[t] : /\ x \in rows[1]
                            /\ req[t].session # NoSession => req[t].session \notin x.sess
    BY <1>5, <1>b DEF Evaluate, Fetch, TypeOK
  <2>3. ASSUME NEW x \in hits'[t] PROVE <<req[t].session, x.id>> \notin received \ passed
    <3>1. SUFFICES ASSUME <<req[t].session, x.id>> \in received \ passed PROVE FALSE
      OBVIOUS
    <3>2. req[t].session \in x.sess
      BY <2>2, <3>1 DEF OnceInv, SessionRows
    <3>3. req[t].session \in Sessions
      BY <1>c, <3>1
    <3> QED BY <1>c, <2>2, <3>2, <3>3
  <2>4. SessionRows' /\ RowOncePerSession'
    BY <2>1 DEF OnceInv, SessionRows, RowOncePerSession
  <2>5. HitsNew'
    BY <2>1, <2>2, <2>3 DEF SingleCaller, HitsNew, OnceInv, SessionRows
  <2> QED BY <2>4, <2>5 DEF OnceInv
<1>6. ASSUME NEW t \in Threads, LookupRaises(t) \/ ModelRaises(t) \/ AsyncDescend(t)
      PROVE  OnceInv'
  <2>1. pc'[t] # "hit"
    BY <1>6 DEF LookupRaises, ModelRaises, AsyncDescend, Abort, Goto, TypeOK
  <2> QED BY <1>2, <1>6, <2>1 DEF LookupRaises, ModelRaises, AsyncDescend, caches
<1>7. ASSUME NEW t \in Threads, Hit(t) PROVE OnceInv'
  <2> DEFINE s == req[t].session
  <2>1. PICK m \in hits[t] : \E x \in WholeData(t, m.ans) :
            /\ rows' = IF SessionAt(req[t], level[t]) = NoSession THEN rows
                       ELSE [rows EXCEPT ![level[t]] =
                                Joined(rows[level[t]], x.id, req[t].session)]
            /\ received' = received \cup Given(t, m.id)
            /\ repeated' = repeated \cup (received \cap Given(t, m.id))
            /\ passed' = IF x.id = m.id THEN passed ELSE passed \cup Given(t, m.id)
            /\ Return(t, m.ans, level[t])
    BY <1>7 DEF Hit
  <2>2. PICK x \in hits[t] :
            /\ rows' = IF s = NoSession THEN rows
                       ELSE [rows EXCEPT ![1] = Joined(rows[1], x.id, s)]
            /\ received' = received \cup Given(t, m.id)
            /\ repeated' = repeated \cup (received \cap Given(t, m.id))
            /\ passed' = IF x.id = m.id THEN passed ELSE passed \cup Given(t, m.id)
            /\ Return(t, m.ans, level[t])
    BY <1>b, <2>1 DEF WholeData
  <2>3. pc[t] = "hit" /\ lastId' = lastId
    BY <1>7 DEF Hit
  <2>4. <<s, m.id>> \notin received \ passed
    BY <2>2, <2>3 DEF OnceInv, HitsNew
  <2>5. RowOncePerSession'
    BY <2>2, <2>4 DEF OnceInv, RowOncePerSession, Given
  <2>6. HitsNew'
    <3>1. pc'[t] # "hit"
      BY <2>2 DEF Return, Goto, TypeOK
    <3> QED BY <3>1 DEF SingleCaller, HitsNew
  <2>7. CASE s = NoSession
    <3>1. UNCHANGED <<rows, received, passed>>
      BY <2>2, <2>7 DEF Given
    <3>2. SessionRows'
      BY <2>3, <3>1 DEF OnceInv, SessionRows
    <3> QED BY <2>5, <2>6, <3>2 DEF OnceInv
  <2>8. CASE s # NoSession
    <3>1. /\ rows'[1] = Joined(rows[1], x.id, s) /\ received' = received \cup {<<s, m.id>>}
          /\ passed \subseteq passed' /\ (x.id # m.id => <<s, m.id>> \in passed')
      BY <1>a, <2>2, <2>8 DEF TypeOK, Given
    <3>2. ASSUME NEW y \in rows'[1]
          PROVE  \E z \in rows[1] : /\ y.id = z.id /\ z.sess \subseteq y.sess
                                    /\ z.id = x.id => s \in y.sess
      <4>1. PICK z \in rows[1] :
                y = IF z.id = x.id THEN [z EXCEPT !.sess = @ \cup {s}] ELSE z
        BY <3>1 DEF Joined
      <4>2. z \in Row
        BY <1>a
      <4> QED BY <4>1, <4>2 DEF Row
    <3>3. m.id <= lastId
      BY <2>2, <2>3 DEF OnceInv, HitsNew
    <3>a. \A p \in received' \ passed' :
              p \in received \ passed \/ (p = <<s, x.id>> /\ x.id = m.id)
      BY <3>1
    <3>b. ASSUME NEW p \in received' \ passed', NEW y \in rows'[1], y.id = p[2]
          PROVE  p[1] \in y.sess
      <4>1. PICK z \in rows[1] : /\ y.id = z.id /\ z.sess \subseteq y.sess
                                 /\ z.id = x.id => s \in y.sess
        BY <3>2
      <4>2. CASE p \in received \ passed
        BY <3>b, <4>1, <4>2 DEF OnceInv, SessionRows
      <4>3. CASE p = <<s, x.id>>
        BY <3>b, <4>1, <4>3
      <4> QED BY <3>a, <4>2, <4>3
    <3>4. SessionRows'
      BY <2>3, <3>1, <3>2, <3>3, <3>b DEF OnceInv, SessionRows
    <3> QED BY <2>5, <2>6, <3>4 DEF OnceInv
  <2> QED BY <2>7, <2>8
<1>8. ASSUME NEW t \in Threads, CallModel(t) PROVE OnceInv'
  <2>1. pc'[t] # "hit"
    BY <1>8 DEF CallModel, Return, Goto, TypeOK
  <2> QED BY <1>2, <1>8, <2>1 DEF CallModel, caches
<1>9. ASSUME NEW t \in Threads, Unwind(t) PROVE OnceInv'
  <2>1. pc'[t] # "hit"
    BY <1>9 DEF Unwind, Return, Goto, TypeOK
  <2> QED BY <1>2, <1>9, <2>1 DEF Unwind, caches
<1>10. ASSUME NEW t \in Threads, Save(t) PROVE OnceInv'
  <2> DEFINE s == req[t].session
             row == [id |-> lastId + 1, q |-> req[t].q, ans |-> data[t],
                     sess |-> {s} \ {NoSession}]
  <2>1. /\ rows'[1] = rows[1] \cup {row} /\ lastId' = lastId + 1
        /\ received' = received \cup Given(t, lastId + 1)
        /\ repeated' = repeated /\ passed' = passed
    BY <1>10, <1>a, <1>b DEF Save, TypeOK
  <2>2. row.id = lastId + 1 /\ row.sess = {s} \ {NoSession}
    OBVIOUS
  <2>3. \A p \in received' : p \in received \/ (p = <<s, lastId + 1>> /\ s # NoSession)
    BY <2>1 DEF Given
  <2> HIDE DEF row
  <2>4. \A x \in rows[1] : x.id \in Nat /\ x.id <= lastId
    BY <1>a DEF OnceInv, SessionRows, Row
  <2>5. \A p \in received : p[2] \in Nat /\ p[2] <= lastId
    BY <1>c DEF OnceInv, SessionRows
  <2>6. ASSUME NEW p \in received' \ passed', NEW x \in rows'[1], x.id = p[2]
        PROVE  p[1] \in x.sess
    <3>1. CASE p \in received /\ x \in rows[1]
      BY <2>1, <2>6, <3>1 DEF OnceInv, SessionRows
    <3>2. CASE p \in received /\ x = row
      BY <1>a, <2>2, <2>5, <2>6, <3>2
    <3>3. CASE p = <<s, lastId + 1>> /\ s # NoSession /\ x \in rows[1]
      BY <1>a, <2>4, <2>6, <3>3
    <3>4. CASE p = <<s, lastId + 1>> /\ s # NoSession /\ x = row
      BY <2>2, <3>4
    <3> QED BY <2>1, <2>3, <3>1, <3>2, <3>3, <3>4
  <2>7. /\ \A x \in rows'[1] : x.id <= lastId + 1
        /\ \A p \in received' : p[2] <= lastId + 1
    BY <1>a, <2>1, <2>2, <2>3, <2>4, <2>5
  <2>8. SessionRows'
    BY <2>1, <2>6, <2>7 DEF SessionRows
  <2>9. HitsNew'
    <3>1. pc'[t] # "hit"
      BY <1>10 DEF Save, Goto, TypeOK
    <3> QED BY <3>1 DEF SingleCaller, HitsNew
  <2> QED BY <2>1, <2>8, <2>9 DEF OnceInv, RowOncePerSession
<1>11. ASSUME NEW t \in Threads, SaveRaises(t) \/ CountSave(t) \/ CheckFlush(t)
       PROVE  OnceInv'
  <2>1. pc'[t] # "hit"
    BY <1>11 DEF SaveRaises, CountSave, CheckFlush, Return, Goto, TypeOK
  <2> QED BY <1>2, <1>11, <2>1 DEF SaveRaises, CountSave, CheckFlush, caches, aux
<1>12. ASSUME NEW l \in Levels, NEW x \in rows[l], Evict(l, x) PROVE OnceInv'
  <2>1. rows'[1] \subseteq rows[1]
    BY <1>12, <1>a DEF Evict, TypeOK
  <2>2. UNCHANGED <<lastId, received, repeated, passed, pc, hits, req>>
    BY <1>12 DEF Evict, frame
  <2>3. SessionRows'
    BY <2>1, <2>2 DEF OnceInv, SessionRows
  <2>4. HitsNew' /\ RowOncePerSession'
    BY <2>2 DEF OnceInv, HitsNew, RowOncePerSession
  <2> QED BY <2>3, <2>4 DEF OnceInv
<1>13. ASSUME NEW l \in Levels, NEW q \in Questions, ImportData(l, q) PROVE OnceInv'
  <2>1. PICK row : row.id = lastId + 1 /\ rows'[1] = rows[1] \cup {row}
    <3> DEFINE row == [id |-> lastId + 1, q |-> q, ans |-> q, sess |-> {}]
    <3>1. l = 1 /\ rows' = [rows EXCEPT ![l] = rows[l] \cup {row}] /\ row.id = lastId + 1
      BY <1>13, <1>a DEF ImportData
    <3> HIDE DEF row
    <3>2. rows'[1] = rows[1] \cup {row}
      BY <1>a, <3>1 DEF TypeOK
    <3> QED BY <3>1, <3>2
  <2>2. UNCHANGED <<received, repeated, passed, pc, hits, req>> /\ lastId' = lastId + 1
    BY <1>13 DEF ImportData, frame, aux
  <2>3. \A x \in rows[1] : x.id \in Nat /\ x.id <= lastId
    BY <1>a DEF OnceInv, SessionRows, Row
  <2>4. \A p \in received : p[2] \in Nat /\ p[2] <= lastId
    BY <1>c DEF OnceInv, SessionRows
  <2>5. \A p \in received : row.id # p[2]
    BY <1>a, <2>1, <2>4
  <2>6. SessionRows'
    BY <1>a, <2>1, <2>2, <2>3, <2>4, <2>5 DEF OnceInv, SessionRows
  <2>7. HitsNew' /\ RowOncePerSession'
    <3>1. \A t \in Threads : \A x \in hits[t] : x.id \in Nat
      BY DEF TypeOK, Row
    <3>2. ASSUME NEW t \in Threads, pc[t] = "hit", NEW x \in hits[t] PROVE x.id <= lastId + 1
      <4>1. x.id <= lastId /\ x.id \in Nat
        BY <3>1, <3>2 DEF OnceInv, HitsNew
      <4> QED BY <1>a, <4>1
    <3>3. \A t \in Threads : pc'[t] = "hit" =>
             \A x \in hits'[t] : /\ x.id <= lastId'
                                 /\ <<req'[t].session, x.id>> \notin received' \ passed'
      <4>1. \A t \in Threads : pc[t] = "hit" =>
               \A x \in hits[t] : <<req[t].session, x.id>> \notin received \ passed
        BY DEF OnceInv, HitsNew
      <4> QED BY <2>2, <3>2, <4>1
    <3>4. HitsNew'
      BY <3>3 DEF HitsNew
    <3> QED BY <2>2, <3>4 DEF OnceInv, RowOncePerSession
  <2> QED BY <2>6, <2>7 DEF OnceInv
<1>14. ASSUME NEW s \in Sessions, Drop(s) PROVE OnceInv'
  <2>1. /\ rows'[1] = {[x EXCEPT !.sess = @ \ {s}] : x \in rows[1]}
        /\ received' = {p \in received : p[1] # s}
        /\ repeated' = {p \in repeated : p[1] # s}
        /\ passed' = {p \in passed : p[1] # s}
        /\ UNCHANGED <<lastId, pc, hits, req>>
    BY <1>14, <1>a DEF Drop, frame, TypeOK
  <2>2. ASSUME NEW y \in rows'[1]
        PROVE  \E x \in rows[1] : y.id = x.id /\ y.sess = x.sess \ {s}
    <3>1. PICK x \in rows[1] : y = [x EXCEPT !.sess = @ \ {s}]
      BY <2>1
    <3> QED BY <1>a, <3>1 DEF Row
  <2>3. SessionRows'
    BY <2>1, <2>2 DEF OnceInv, SessionRows
  <2>4. HitsNew' /\ RowOncePerSession'
    BY <2>1 DEF OnceInv, HitsNew, RowOncePerSession
  <2> QED BY <2>3, <2>4 DEF OnceInv
<1>15. CASE UNCHANGED vars
  BY <1>1, <1>15 DEF vars, caches, frame, aux
<1> QED
  BY <1>3, <1>4, <1>5, <1>6, <1>7, <1>8, <1>9, <1>10, <1>11, <1>12, <1>13, <1>14, <1>15
     DEF Next, Continue, LookUp, Obtain, AtRest

\* THEOREM: with one cache and one caller, whatever sessions it uses, drops and
\* mixes with requests without one, a session is given the answer of a row it
\* was given before only if another row with the same answer joined the session
\* then; although rows are evicted and imported in between.
THEOREM SessionCorrect ==
    ASSUME SingleCaller, Depth = 1 PROVE Spec => []RowOncePerSession
<1>1. Init => OnceInv
  <2> SUFFICES ASSUME Init PROVE OnceInv
    OBVIOUS
  <2>1. 1 \in Levels
    BY DepthAssumption DEF Levels
  <2> QED BY <2>1 DEF Init, OnceInv, SessionRows, HitsNew, RowOncePerSession
<1>2. SingleCaller /\ Depth = 1
  OBVIOUS
<1>3. TypeOK /\ OnceInv /\ [Next]_vars => OnceInv'
  BY <1>2, OnceStep
<1>4. OnceInv => RowOncePerSession
  BY DEF OnceInv
<1> QED BY <1>1, <1>3, <1>4, TypeCorrect, PTL DEF Spec

=============================================================================
