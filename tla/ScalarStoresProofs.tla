------------------------- MODULE ScalarStoresProofs -------------------------
(***************************************************************************)
(* A get returns its own row with its own answers, a row is served until   *)
(* it is marked, and clearing leaves nothing behind, for any number of     *)
(* nodes, rows and calls over any of the stores.                           *)
(*                                                                         *)
(* The argument: an id is one content's, from the moment a store gives it  *)
(* out; marks only come from calls to mark_deleted; and a clear takes what *)
(* was marked when it began, or by now, and knows which of the two it is.  *)
(*                                                                         *)
(* DynamoDB answers from versions of an item: each is the row that was     *)
(* inserted under the id, or of the time after mark_deleted was called.    *)
(*                                                                         *)
(* Redis reads its counter in a command of its own, after incrementing it: *)
(* two nodes that insert can be given one id, and a row is replaced.  So   *)
(* the theorems are about one node inserting in Redis.                     *)
(***************************************************************************)
EXTENDS ScalarStores, FiniteSetTheorems, TLAPS

-----------------------------------------------------------------------------
(* The inductive invariant.                                                *)

Inserting == {"insert", "insert answers", "insert session", "counter get", "execute"}
Given == {"insert answers", "insert session", "execute"}
Getting == {"get", "touch", "read answers"}
Clears == {"clear", "clear sessions", "clear rows"}
Labels == {"idle", "mark", "mark save"} \cup Inserting \cup Getting \cup Clears

RowType == [c : Nat, deleted : {"no", "yes", "unset"}]
LocType == [id : Nat, c : Nat, s : Sessions \cup {NoSession}, row : RowType,
            ids : SUBSET Nat, gone : BOOLEAN]
ResultType == [what : {"none", "row", "raised"}, asked : Nat, got : Nat,
               answers : SUBSET Nat, gone : BOOLEAN]
TableTypes ==
    /\ backend \in Backends
    /\ counter \in Nat /\ inserts \in Nat
    /\ DOMAIN rows \subseteq 1..counter
    /\ \A id \in DOMAIN rows : rows[id] \in RowType /\ rows[id].c <= inserts
    /\ answers \subseteq (1..counter) \X (1..inserts)
    /\ sessions \subseteq (1..counter) \X Sessions
    /\ told \subseteq (1..inserts) \X (1..counter)
CallTypes ==
    /\ pc \in [Processes -> Labels]
    /\ loc \in [Processes -> LocType]
    /\ result \in [Processes -> ResultType]

\* The stores whose answers are in a table of their own.
AnswersApart == backend \in {"sql", "mongo"}

\* The stores whose get looks at the mark as it is.
LooksAtMark == backend \in {"sql", "mongo"}

\* The ids that inserts have returned.
Known == {x[2] : x \in told}

\* An id is one content's.
OneEach == \A x, y \in told : x[1] = y[1] <=> x[2] = y[2]

\* Rows and answers are those of the content that was told their id; a mark is
\* one that mark_deleted set.
RowsAgree ==
    /\ \A x \in told : x[2] \in DOMAIN rows => rows[x[2]].c \in {0, x[1]}
    /\ \A x \in told : \A y \in answers : y[1] = x[2] => y[2] = x[1]
    /\ ~AnswersApart => answers = {}
    /\ \A id \in DOMAIN rows :
          /\ rows[id].deleted = "no" => rows[id].c # 0
          /\ rows[id].deleted = "yes" => id \in marking
          /\ backend \notin {"mongo", "dynamo"} => rows[id].deleted # "unset"
          /\ Redis => rows[id].c # 0 /\ id \in Known
          /\ ~Redis /\ id \in marked => rows[id].deleted # "no"
    /\ marking \subseteq Known /\ marked \subseteq marking

\* A row nobody marked is there, with its answers.
Served ==
    \A x \in told :
        \/ x[2] \in marking
        \/ /\ x[2] \in DOMAIN rows /\ rows[x[2]] = [c |-> x[1], deleted |-> "no"]
           /\ AnswersApart => <<x[2], x[1]>> \in answers

\* Nothing is left of a row that is gone.
NothingLeft ==
    /\ \A x \in answers : x[1] \in DOMAIN rows \cup raced
    /\ backend # "dynamo" => \A x \in sessions : x[1] \in DOMAIN rows \cup raced

\* An insert has a content of its own, and, once it is given one, an id of its
\* own, with its row and answers in place.
InsertOwn(p) ==
    LET l == loc[p]
    IN  /\ pc[p] \in Inserting =>
              /\ p \in Inserters[backend] /\ l.c \in 1..inserts
              /\ \A x \in told : x[1] # l.c
        /\ pc[p] \in Given => l.id \in 1..counter /\ l.id \notin Known
        /\ pc[p] \in {"insert answers", "insert session"} =>
              /\ l.id \in DOMAIN rows /\ rows[l.id] = [c |-> l.c, deleted |-> "no"]
              /\ \A y \in answers : y[1] = l.id => y[2] = l.c
        /\ pc[p] = "insert session" /\ AnswersApart => <<l.id, l.c>> \in answers
        /\ pc[p] = "counter get" => counter \in Nat \ {0} /\ counter \notin Known
        /\ pc[p] \in {"insert answers", "clear sessions", "clear rows"} => backend = "mongo"
        /\ pc[p] = "insert session" => backend \in {"mongo", "dynamo"}
        /\ pc[p] \in {"counter get", "execute", "mark save"} => Redis

\* A get asks for a row by the id that its insert returned.
GetOwn(p) ==
    LET l == loc[p]
    IN  /\ pc[p] \in Getting => <<l.c, l.id>> \in told /\ (l.gone => l.id \in marked)
        /\ pc[p] \in {"touch", "read answers"} =>
              /\ l.row.c = l.c /\ l.row.deleted \in {"no", "yes"}
              /\ l.row.deleted = "yes" => l.id \in marking
              /\ LooksAtMark => ~l.gone

\* A mark is for an id that was returned; a clear takes marked ids, and those
\* it did not read have been marked since.
MarkOwn(p) ==
    LET l == loc[p]
    IN  /\ pc[p] \in {"mark", "mark save"} => l.id \in marking
        /\ pc[p] = "mark save" =>
              l.row = NoRow \/ (<<l.row.c, l.id>> \in told /\ l.row.deleted \in {"no", "yes"})
        /\ pc[p] \notin Clears => l.ids = {}
        /\ pc[p] \in Clears =>
              /\ l.ids \subseteq marking
              /\ AnswersApart => Marked \subseteq l.ids \cup raced
        /\ pc[p] \in {"clear sessions", "clear rows"} => \A y \in answers : y[1] \notin l.ids
        /\ pc[p] = "clear rows" => \A y \in sessions : y[1] \in l.ids => y[1] \in raced

\* Two inserts have two contents and two ids.
DistinctInserts(p, q) ==
    /\ pc[p] \in Inserting /\ pc[q] \in Inserting => loc[p].c # loc[q].c
    /\ pc[p] \in Given /\ pc[q] \in Given => loc[p].id # loc[q].id

\* What a get returned.
ResultOwn(p) ==
    LET r == result[p]
    IN  /\ r.asked # 0 => \E x \in told : x[1] = r.asked
        /\ r.what = "row" => r.got = r.asked /\ r.answers \subseteq {r.asked}
        /\ \/ r.what = "row" /\ r.answers = {r.asked}
           \/ r.what = "none" /\ backend = "dynamo"
           \/ \A x \in told : x[1] = r.asked => x[2] \in marking
        /\ LooksAtMark /\ r.gone => r.what # "row"

CallInv(p) == InsertOwn(p) /\ GetOwn(p) /\ MarkOwn(p) /\ ResultOwn(p)

StoreInv ==
    /\ TableTypes /\ CallTypes
    /\ OneEach /\ RowsAgree /\ Served /\ NothingLeft
    /\ \A p \in Processes : CallInv(p)
    /\ \A p, q \in Processes : p # q => DistinctInserts(p, q)

\* A version of an item is the row that was inserted under its id, before or
\* after the insert returned, or it is of the time after mark_deleted was called.
VersionsAgree ==
    backend = "dynamo" =>
        /\ versions \subseteq (1..counter) \X RowType
        /\ \A v \in versions : v[1] \in marking \/ v[2].deleted = "no"
        /\ \A v \in versions : v[2].deleted = "no" =>
              \/ <<v[2].c, v[1]>> \in told
              \/ \E q \in Processes :
                    pc[q] = "insert session" /\ loc[q].id = v[1] /\ loc[q].c = v[2].c

Inv == StoreInv /\ VersionsAgree

-----------------------------------------------------------------------------
(* Rows, stores and types.                                                 *)

LEMMA WithoutFacts ==
    ASSUME NEW f, NEW S
    PROVE  /\ DOMAIN Without(f, S) = DOMAIN f \ S
           /\ \A j \in DOMAIN f \ S : Without(f, S)[j] = f[j]
BY DEF Without, Restrict

\* What is known of the store that is configured.
LEMMA StoreFacts ==
    ASSUME backend \in Backends
    PROVE  /\ backend \in {"sql", "mongo", "redis", "redis_ttl", "dynamo"}
           /\ Embedded <=> ~AnswersApart
           /\ Store.unset <=> backend \in {"mongo", "dynamo"}
           /\ Store.expires <=> backend = "redis_ttl"
           /\ Store.sessions = "cleared" <=> backend # "dynamo"
<1>1. backend \in {"sql", "mongo", "redis", "redis_ttl", "dynamo"}
  BY StoresAssumption DEF Stores
<1>2. CASE backend = "sql"
  BY <1>2 DEF Embedded, Store, Stores, AnswersApart, SqlTables
<1>3. CASE backend = "mongo"
  BY <1>3 DEF Embedded, Store, Stores, AnswersApart, MongoCollections
<1>4. CASE backend = "redis"
  BY <1>4 DEF Embedded, Store, Stores, AnswersApart, RedisModels
<1>5. CASE backend = "redis_ttl"
  BY <1>5 DEF Embedded, Store, Stores, AnswersApart, RedisModels, RedisExpiring
<1>6. CASE backend = "dynamo"
  BY <1>6 DEF Embedded, Store, Stores, AnswersApart, DynamoTable
<1> QED BY <1>1, <1>2, <1>3, <1>4, <1>5, <1>6

\* The parts of the invariant.
LEMMA InvParts ==
    ASSUME StoreInv, NEW p \in Processes
    PROVE  /\ InsertOwn(p) /\ GetOwn(p) /\ MarkOwn(p) /\ ResultOwn(p)
           /\ pc[p] \in Labels /\ loc[p] \in LocType /\ result[p] \in ResultType
           /\ counter \in Nat /\ inserts \in Nat
           /\ Known \subseteq 1..counter /\ marking \subseteq Known /\ marked \subseteq marking
<1>1. Known \subseteq 1..counter
  BY DEF StoreInv, TableTypes, Known
<1> QED BY <1>1 DEF StoreInv, CallInv, TableTypes, CallTypes, RowsAgree

LEMMA NoTypes == NoRow \in RowType /\ NoLoc \in LocType /\ NoResult \in ResultType
BY DEF NoRow, NoLoc, NoResult, RowType, LocType, ResultType

-----------------------------------------------------------------------------
(* What the step of one call leaves of the others.                         *)

\* Rows, answers and sessions that are not p's own change only under a mark.
Rely(p) ==
    /\ backend' = backend /\ counter' \in Nat /\ counter <= counter'
    /\ inserts' \in Nat /\ inserts <= inserts'
    /\ told \subseteq told' /\ marking \subseteq marking' /\ marked \subseteq marked'
    /\ raced \subseteq raced'
    /\ counter' # counter => pc[p] \in Inserting
    /\ \A x \in told' \ told :
          /\ pc[p] \in Inserting /\ x[1] = loc[p].c
          /\ x[2] = counter + 1 \/ (pc[p] \in Given /\ x[2] = loc[p].id)
    /\ AnswersApart => \A id \in DOMAIN rows :
          id \notin marking => id \in DOMAIN rows' /\ rows'[id] = rows[id]
    /\ backend = "dynamo" => \A id \in DOMAIN rows :
          id \notin marking => id \in DOMAIN rows' /\ rows'[id] = rows[id]
    /\ \A y \in answers : y[1] \notin marking => y \in answers'
    /\ \A y \in answers' \ answers :
          y[1] = counter + 1 \/ (pc[p] = "insert answers" /\ y[1] = loc[p].id)
    /\ \A y \in sessions' \ sessions :
          y[1] \notin marking \/ y[1] \in raced' \/ y[1] \notin Going
    /\ AnswersApart /\ Clearing => Marked' \subseteq Marked \cup raced'

\* Single: the inserts of Redis have one node.
SingleRedisInserter ==
    \A b \in Backends \cap {"redis", "redis_ttl"} : \A p, q \in Inserters[b] : p = q

LEMMA InsertOthers ==
    ASSUME StoreInv, SingleRedisInserter, NEW p \in Processes, NEW q \in Processes, Rely(p),
           q # p \/ (told' = told /\ answers' \subseteq answers /\ counter' = counter),
           pc'[q] = pc[q], loc'[q] = loc[q]
    PROVE  InsertOwn(q)'
<1> DEFINE l == loc[q]
<1>1. /\ InsertOwn(q) /\ InsertOwn(p) /\ l \in LocType /\ loc[p] \in LocType
      /\ counter \in Nat /\ inserts \in Nat
      /\ Known \subseteq 1..counter /\ marking \subseteq Known
      /\ answers \subseteq (1..counter) \X (1..inserts) /\ backend \in Backends
  BY InvParts DEF StoreInv, TableTypes
<1>2. q # p => DistinctInserts(p, q)
  BY DEF StoreInv
<1>3. backend' = backend /\ counter' \in Nat /\ counter <= counter'
      /\ inserts' \in Nat /\ inserts <= inserts'
  BY DEF Rely
<1>4. ASSUME pc[q] \in Inserting
      PROVE  /\ q \in Inserters[backend] /\ l.c \in 1..inserts'
             /\ \A x \in told' : x[1] # l.c
  <2>1. q \in Inserters[backend] /\ l.c \in 1..inserts /\ \A x \in told : x[1] # l.c
    BY <1>1, <1>4 DEF InsertOwn
  <2>2. ASSUME NEW x \in told' \ told PROVE x[1] # l.c
    <3>1. pc[p] \in Inserting /\ x[1] = loc[p].c /\ q # p
      BY <2>2 DEF Rely
    <3> QED BY <1>2, <1>4, <3>1 DEF DistinctInserts
  <2> QED BY <1>1, <1>3, <2>1, <2>2
<1>5. ASSUME pc[q] \in Given
      PROVE  l.id \in 1..counter' /\ l.id \notin Known' /\ l.id \notin marking
  <2>1. l.id \in 1..counter /\ l.id \notin Known
    BY <1>1, <1>5 DEF InsertOwn
  <2>2. ASSUME NEW x \in told' \ told PROVE x[2] # l.id
    <3>1. q # p /\ (x[2] = counter + 1 \/ (pc[p] \in Given /\ x[2] = loc[p].id))
      BY <2>2 DEF Rely
    <3>2. counter + 1 # l.id
      BY <1>1, <2>1
    <3> QED BY <1>2, <1>5, <3>1, <3>2 DEF DistinctInserts
  <2>3. \A x \in told' : x[2] # l.id
    BY <2>1, <2>2 DEF Known
  <2>4. l.id \in 1..counter'
    BY <1>1, <1>3, <2>1
  <2> QED BY <1>1, <2>1, <2>3, <2>4 DEF Known
<1>6. ASSUME pc[q] \in {"insert answers", "insert session"}
      PROVE  /\ l.id \in DOMAIN rows' /\ rows'[l.id] = [c |-> l.c, deleted |-> "no"]
             /\ \A y \in answers' : y[1] = l.id => y[2] = l.c
             /\ pc[q] = "insert session" => (AnswersApart => <<l.id, l.c>> \in answers')
  <2>0. pc[q] \in Given
    BY <1>6 DEF Given
  <2>1. /\ l.id \in DOMAIN rows /\ rows[l.id] = [c |-> l.c, deleted |-> "no"]
        /\ \A y \in answers : y[1] = l.id => y[2] = l.c
        /\ pc[q] = "insert session" => (AnswersApart => <<l.id, l.c>> \in answers)
        /\ backend \in {"mongo", "dynamo"}
    BY <1>1, <1>6 DEF InsertOwn
  <2>2. l.id \notin marking /\ l.id \in 1..counter
    BY <1>1, <1>5, <2>0 DEF InsertOwn
  <2>3. l.id \in DOMAIN rows' /\ rows'[l.id] = rows[l.id]
    BY <2>1, <2>2 DEF Rely, AnswersApart
  <2>4. ASSUME NEW y \in answers' \ answers PROVE y[1] # l.id
    <3>1. q # p /\ (y[1] = counter + 1 \/ (pc[p] = "insert answers" /\ y[1] = loc[p].id))
      BY <2>4 DEF Rely
    <3>2. counter + 1 # l.id
      BY <1>1, <2>2
    <3> QED BY <1>2, <2>0, <3>1, <3>2 DEF DistinctInserts, Given
  <2>5. <<l.id, l.c>> \in answers => <<l.id, l.c>> \in answers'
    BY <2>2 DEF Rely
  <2> QED BY <2>1, <2>3, <2>4, <2>5
<1>7. ASSUME pc[q] = "counter get" PROVE counter' \in Nat \ {0} /\ counter' \notin Known'
  <2>1. counter \in Nat \ {0} /\ counter \notin Known /\ Redis /\ q \in Inserters[backend]
    BY <1>1, <1>7 DEF InsertOwn, Inserting
  <2>2. ASSUME pc[p] \in Inserting, q # p PROVE FALSE
    <3>1. p \in Inserters[backend]
      BY <1>1, <2>2 DEF InsertOwn
    <3> QED BY <1>1, <2>1, <2>2, <3>1 DEF SingleRedisInserter, Redis
  <2>3. counter' = counter /\ \A x \in told' : x \in told
    BY <2>2 DEF Rely
  <2> QED BY <2>1, <2>3 DEF Known
<1>8. /\ pc[q] \in {"insert answers", "clear sessions", "clear rows"} => backend = "mongo"
      /\ pc[q] = "insert session" => backend \in {"mongo", "dynamo"}
      /\ pc[q] \in {"counter get", "execute", "mark save"} => backend \in {"redis", "redis_ttl"}
  BY <1>1 DEF InsertOwn, Redis
<1> QED BY <1>3, <1>4, <1>5, <1>6, <1>7, <1>8 DEF InsertOwn, AnswersApart, Redis

LEMMA GetMarkOthers ==
    ASSUME StoreInv, NEW p \in Processes, NEW q \in Processes, Rely(p),
           q # p \/ (told' = told /\ answers' \subseteq answers /\ counter' = counter),
           pc'[q] = pc[q], loc'[q] = loc[q]
    PROVE  GetOwn(q)' /\ MarkOwn(q)'
<1> DEFINE l == loc[q]
<1>1. /\ GetOwn(q) /\ MarkOwn(q) /\ InsertOwn(p) /\ InsertOwn(q) /\ l \in LocType
      /\ counter \in Nat /\ Known \subseteq 1..counter /\ marking \subseteq Known
      /\ pc[q] \in Labels /\ backend \in Backends
  BY InvParts DEF StoreInv, TableTypes
<1>2. /\ backend' = backend /\ told \subseteq told' /\ marking \subseteq marking'
      /\ marked \subseteq marked' /\ raced \subseteq raced'
  BY DEF Rely
<1>3. GetOwn(q)'
  BY <1>1, <1>2 DEF GetOwn, LooksAtMark
<1>4. ASSUME pc[q] \in Clears
      PROVE  /\ l.ids \subseteq marking'
             /\ AnswersApart => Marked' \subseteq l.ids \cup raced'
  <2>1. l.ids \subseteq marking /\ (AnswersApart => Marked \subseteq l.ids \cup raced)
    BY <1>1, <1>4 DEF MarkOwn
  <2>2. Clearing
    BY <1>4 DEF Clearing, Clears
  <2> QED BY <1>2, <2>1, <2>2 DEF Rely
<1>5. ASSUME pc[q] \in {"clear sessions", "clear rows"}
      PROVE  \A y \in answers' : y[1] \notin l.ids
  <2>1. l.ids \subseteq marking /\ \A y \in answers : y[1] \notin l.ids
    BY <1>1, <1>5 DEF MarkOwn, Clears
  <2>2. ASSUME NEW y \in answers' \ answers PROVE y[1] \notin l.ids
    <3>1. y[1] = counter + 1 \/ (pc[p] = "insert answers" /\ y[1] = loc[p].id)
      BY <2>2 DEF Rely
    <3>2. counter + 1 \notin Known
      BY <1>1
    <3>3. pc[p] = "insert answers" => loc[p].id \notin Known
      BY <1>1 DEF InsertOwn, Given
    <3> QED BY <1>1, <2>1, <3>1, <3>2, <3>3
  <2> QED BY <2>1, <2>2
<1>6. ASSUME pc[q] = "clear rows"
      PROVE  \A y \in sessions' : y[1] \in l.ids => y[1] \in raced'
  <2>1. /\ l.ids \subseteq marking
        /\ \A y \in sessions : y[1] \in l.ids => y[1] \in raced
    BY <1>1, <1>6 DEF MarkOwn, Clears
  <2>2. ASSUME NEW y \in sessions' \ sessions, y[1] \in l.ids PROVE y[1] \in raced'
    <3>1. y[1] \in Going
      BY <1>1, <1>6, <2>1, <2>2 DEF Going
    <3> QED BY <2>1, <2>2, <3>1 DEF Rely
  <2> QED BY <1>2, <2>1, <2>2
<1>7. /\ pc[q] \in {"mark", "mark save"} => l.id \in marking'
      /\ pc[q] = "mark save" =>
            l.row = NoRow \/ (<<l.row.c, l.id>> \in told' /\ l.row.deleted \in {"no", "yes"})
      /\ pc[q] \notin Clears => l.ids = {}
  BY <1>1, <1>2 DEF MarkOwn
<1> QED BY <1>2, <1>3, <1>4, <1>5, <1>6, <1>7 DEF MarkOwn, AnswersApart

\* What a get has returned stays right.
LEMMA ResultOthers ==
    ASSUME StoreInv, NEW p \in Processes, NEW q \in Processes, Rely(p),
           result'[q] = result[q]
    PROVE  ResultOwn(q)'
<1> DEFINE r == result[q]
<1>1. ResultOwn(q) /\ InsertOwn(p) /\ inserts \in Nat
  BY InvParts DEF StoreInv, TableTypes
<1>2. backend' = backend /\ told \subseteq told' /\ marking \subseteq marking'
  BY DEF Rely
<1>3. ASSUME NEW x \in told' \ told PROVE x[1] # r.asked
  <2>1. /\ pc[p] \in Inserting /\ x[1] = loc[p].c /\ loc[p].c \in 1..inserts
        /\ \A y \in told : y[1] # loc[p].c
    BY <1>1, <1>3 DEF Rely, InsertOwn
  <2>2. x[1] # 0
    BY <1>1, <2>1
  <2> QED BY <1>1, <2>1, <2>2 DEF ResultOwn
<1>4. \/ r.what = "row" /\ r.answers = {r.asked}
      \/ r.what = "none" /\ backend = "dynamo"
      \/ \A x \in told' : x[1] = r.asked => x[2] \in marking'
  BY <1>1, <1>2, <1>3 DEF ResultOwn
<1> QED BY <1>1, <1>2, <1>4 DEF ResultOwn, LooksAtMark

\* A step of p keeps the invariant if it does so for the tables and for p.
LEMMA Combine ==
    ASSUME StoreInv, SingleRedisInserter, NEW p \in Processes, NEW l \in Labels,
           NEW v \in LocType, Rely(p),
           pc' = [pc EXCEPT ![p] = l], loc' = [loc EXCEPT ![p] = v],
           result' \in [Processes -> ResultType],
           \A q \in Processes \ {p} : result'[q] = result[q],
           TableTypes', OneEach', RowsAgree', Served', NothingLeft',
           InsertOwn(p)', GetOwn(p)', MarkOwn(p)', ResultOwn(p)',
           l \in Inserting => (pc[p] \in Inserting /\ v.c = loc[p].c) \/ v.c = inserts + 1,
           l \in Given => \/ pc[p] \in Given /\ v.id = loc[p].id
                          \/ v.id = counter + 1
                          \/ Redis /\ pc[p] \in Inserting
    PROVE  StoreInv'
<1>1. /\ pc \in [Processes -> Labels] /\ loc \in [Processes -> LocType]
      /\ backend \in Backends /\ counter \in Nat /\ inserts \in Nat /\ backend' = backend
  BY DEF StoreInv, CallTypes, TableTypes, Rely
<1>2. /\ pc'[p] = l /\ loc'[p] = v
      /\ \A q \in Processes \ {p} : pc'[q] = pc[q] /\ loc'[q] = loc[q]
      /\ pc' \in [Processes -> Labels] /\ loc' \in [Processes -> LocType]
  BY <1>1
<1>3. CallTypes'
  BY <1>2 DEF CallTypes
<1>4. \A q \in Processes : CallInv(q)'
  <2> SUFFICES ASSUME NEW q \in Processes \ {p} PROVE CallInv(q)'
    BY DEF CallInv
  <2>1. InsertOwn(q)'
    BY <1>2, InsertOthers
  <2>2. GetOwn(q)' /\ MarkOwn(q)'
    BY <1>2, GetMarkOthers
  <2>3. ResultOwn(q)'
    BY ResultOthers
  <2> QED BY <2>1, <2>2, <2>3 DEF CallInv
<1>5. ASSUME NEW q \in Processes \ {p}
      PROVE  /\ l \in Inserting /\ pc[q] \in Inserting => v.c # loc[q].c
             /\ l \in Given /\ pc[q] \in Given => v.id # loc[q].id
  <2>1. /\ InsertOwn(p) /\ InsertOwn(q) /\ DistinctInserts(p, q)
    BY InvParts DEF StoreInv
  <2>2. ASSUME l \in Inserting, pc[q] \in Inserting PROVE v.c # loc[q].c
    <3>1. loc[q].c \in 1..inserts
      BY <2>1, <2>2 DEF InsertOwn
    <3>2. inserts + 1 # loc[q].c
      BY <1>1, <3>1
    <3> QED BY <2>1, <2>2, <3>2 DEF DistinctInserts
  <2>3. ASSUME l \in Given, pc[q] \in Given PROVE v.id # loc[q].id
    <3>1. loc[q].id \in 1..counter
      BY <2>1, <2>3 DEF InsertOwn
    <3>2. counter + 1 # loc[q].id
      BY <1>1, <3>1
    <3>3. ~ (Redis /\ pc[p] \in Inserting)
      <4> SUFFICES ASSUME Redis, pc[p] \in Inserting PROVE FALSE
        OBVIOUS
      <4>1. p \in Inserters[backend] /\ q \in Inserters[backend]
        BY <2>1, <2>3 DEF InsertOwn, Inserting, Given
      <4> QED BY <1>1, <4>1 DEF SingleRedisInserter, Redis
    <3> QED BY <2>1, <2>3, <3>2, <3>3 DEF DistinctInserts
  <2> QED BY <2>2, <2>3
<1>6. ASSUME NEW q \in Processes, NEW u \in Processes, q # u PROVE DistinctInserts(q, u)'
  <2>1. CASE q = p
    BY <1>2, <1>5, <1>6, <2>1 DEF DistinctInserts
  <2>2. CASE u = p
    BY <1>2, <1>5, <1>6, <2>2 DEF DistinctInserts
  <2>3. CASE q # p /\ u # p
    BY <1>2, <1>6, <2>3 DEF DistinctInserts, StoreInv
  <2> QED BY <2>1, <2>2, <2>3
<1> QED BY <1>3, <1>4, <1>6 DEF StoreInv

\* A step that leaves the tables alone.
LEMMA QuietTables ==
    ASSUME StoreInv, UNCHANGED <<backend, tables, aux>>, inserts' \in Nat, inserts <= inserts'
    PROVE  /\ \A p \in Processes : Rely(p)
           /\ TableTypes' /\ OneEach' /\ RowsAgree' /\ Served' /\ NothingLeft'
<1>1. /\ TableTypes /\ OneEach /\ RowsAgree /\ Served /\ NothingLeft
  BY DEF StoreInv
<1>2. /\ backend' = backend /\ rows' = rows /\ answers' = answers /\ sessions' = sessions
      /\ counter' = counter /\ told' = told /\ marking' = marking /\ marked' = marked
      /\ raced' = raced
  BY DEF tables, aux
<1>3. counter \in Nat /\ counter <= counter /\ inserts \in Nat
  BY <1>1 DEF TableTypes
<1>4. \A p \in Processes : Rely(p)
  BY <1>2, <1>3 DEF Rely, Marked
<1>5. TableTypes'
  <2>1. \A id \in DOMAIN rows : rows[id] \in RowType /\ rows[id].c <= inserts'
    BY <1>1, <1>3 DEF TableTypes, RowType
  <2>2. answers \subseteq (1..counter) \X (1..inserts')
    BY <1>1, <1>3 DEF TableTypes
  <2>3. told \subseteq (1..inserts') \X (1..counter)
    BY <1>1, <1>3 DEF TableTypes
  <2> QED BY <1>1, <1>2, <2>1, <2>2, <2>3 DEF TableTypes
<1>6. OneEach' /\ Served' /\ NothingLeft'
  BY <1>1, <1>2 DEF OneEach, Served, NothingLeft, AnswersApart
<1>7. RowsAgree'
  BY <1>1, <1>2 DEF RowsAgree, AnswersApart, Redis, Known
<1> QED BY <1>4, <1>5, <1>6, <1>7

\* A call that has ended holds nothing.
LEMMA IdleOwn ==
    ASSUME NEW p \in Processes, pc'[p] = "idle", loc'[p] = NoLoc
    PROVE  InsertOwn(p)' /\ GetOwn(p)' /\ MarkOwn(p)'
<1>1. NoLoc.ids = {}
  BY DEF NoLoc
<1>2. InsertOwn(p)'
  BY DEF InsertOwn, Inserting, Given
<1>3. GetOwn(p)'
  BY DEF GetOwn, Getting
<1>4. MarkOwn(p)'
  BY <1>1 DEF MarkOwn, Clears
<1> QED BY <1>2, <1>3, <1>4

\* Types of the calls, one by one.
LEMMA CallKinds ==
    ASSUME StoreInv
    PROVE  /\ pc \in [Processes -> Labels] /\ loc \in [Processes -> LocType]
           /\ result \in [Processes -> ResultType]
           /\ backend \in Backends /\ counter \in Nat /\ inserts \in Nat
           /\ TableTypes /\ OneEach /\ RowsAgree /\ Served /\ NothingLeft
BY DEF StoreInv, CallTypes, TableTypes

-----------------------------------------------------------------------------
(* Steps that read.                                                        *)

LEMMA InsertBegins ==
    ASSUME StoreInv, SingleRedisInserter, NEW p \in Processes,
           NEW s \in Sessions \cup {NoSession}, Insert(p, s)
    PROVE  StoreInv'
<1> DEFINE v == [NoLoc EXCEPT !.c = inserts + 1, !.s = s]
<1>0. /\ pc \in [Processes -> Labels] /\ loc \in [Processes -> LocType]
      /\ result \in [Processes -> ResultType]
      /\ backend \in Backends /\ counter \in Nat /\ inserts \in Nat
      /\ TableTypes /\ OneEach /\ RowsAgree /\ Served /\ NothingLeft
  BY CallKinds
<1>1. /\ pc' = [pc EXCEPT ![p] = "insert"] /\ loc' = [loc EXCEPT ![p] = v]
      /\ result' = result /\ inserts' = inserts + 1 /\ UNCHANGED <<backend, tables, aux>>
      /\ p \in Inserters[backend]
  BY DEF Insert, Goto, Hold
<1>2. inserts' \in Nat /\ inserts <= inserts' /\ inserts + 1 \in Nat
  BY <1>0, <1>1
<1>3. v \in LocType /\ v.c = inserts + 1 /\ v.ids = {} /\ v.s = s
  BY <1>2 DEF LocType, NoLoc, NoRow, RowType
<1> HIDE DEF v
<1>4. /\ Rely(p) /\ TableTypes' /\ OneEach' /\ RowsAgree' /\ Served' /\ NothingLeft'
  BY <1>1, <1>2, QuietTables
<1>5. pc'[p] = "insert" /\ loc'[p] = v
  BY <1>0, <1>1
<1>6. InsertOwn(p)'
  <2>1. told \subseteq (1..inserts) \X (1..counter)
    BY <1>0 DEF TableTypes
  <2>2. \A x \in told : x[1] # inserts + 1
    BY <1>0, <2>1
  <2>3. told' = told /\ backend' = backend /\ inserts + 1 \in 1..inserts'
    BY <1>0, <1>1, <1>2 DEF aux
  <2> QED BY <1>1, <1>3, <1>5, <2>2, <2>3 DEF InsertOwn, Inserting, Given
<1>7. GetOwn(p)' /\ MarkOwn(p)'
  BY <1>3, <1>5 DEF GetOwn, MarkOwn, Getting, Clears
<1>8. ResultOwn(p)'
  BY <1>1, <1>4, ResultOthers
<1>9. "insert" \in Labels /\ "insert" \notin Given
  BY DEF Labels, Inserting, Given
<1> QED BY <1>0, <1>1, <1>3, <1>4, <1>6, <1>7, <1>8, <1>9, Combine

LEMMA GetBegins ==
    ASSUME StoreInv, SingleRedisInserter, NEW p \in Processes, NEW c, NEW id, Get(p, c, id)
    PROVE  StoreInv'
<1> DEFINE g == id \in marked
           v == [NoLoc EXCEPT !.id = id, !.c = c, !.gone = g]
<1>0. /\ pc \in [Processes -> Labels] /\ loc \in [Processes -> LocType]
      /\ result \in [Processes -> ResultType]
      /\ backend \in Backends /\ counter \in Nat /\ inserts \in Nat
      /\ TableTypes /\ OneEach /\ RowsAgree /\ Served /\ NothingLeft
  BY CallKinds
<1>1. /\ pc' = [pc EXCEPT ![p] = "get"] /\ loc' = [loc EXCEPT ![p] = v]
      /\ result' = result /\ inserts' = inserts /\ UNCHANGED <<backend, tables, aux>>
      /\ <<c, id>> \in told
  BY DEF Get, Goto, Hold, At
<1>2. c \in Nat /\ id \in Nat /\ inserts <= inserts
  <2>1. told \subseteq (1..inserts) \X (1..counter)
    BY <1>0 DEF TableTypes
  <2> QED BY <1>0, <1>1, <2>1
<1>10. g \in BOOLEAN /\ (g => id \in marked)
  OBVIOUS
<1> HIDE DEF g
<1>3. v \in LocType /\ v.c = c /\ v.id = id /\ v.ids = {} /\ v.gone = g
  BY <1>2, <1>10 DEF LocType, NoLoc, NoRow, RowType
<1> HIDE DEF v
<1>4. /\ Rely(p) /\ TableTypes' /\ OneEach' /\ RowsAgree' /\ Served' /\ NothingLeft'
  BY <1>0, <1>1, <1>2, QuietTables
<1>5. pc'[p] = "get" /\ loc'[p] = v
  BY <1>0, <1>1
<1>6. InsertOwn(p)' /\ MarkOwn(p)'
  BY <1>3, <1>5 DEF InsertOwn, MarkOwn, Inserting, Given, Clears
<1>7. GetOwn(p)'
  <2>1. told' = told /\ marked' = marked
    BY <1>1 DEF aux
  <2>2. v.gone => id \in marked
    BY <1>3, <1>10
  <2>3. <<v.c, v.id>> \in told /\ (v.gone => v.id \in marked)
    BY <1>1, <1>3, <2>2
  <2> QED BY <1>5, <2>1, <2>3 DEF GetOwn
<1>8. ResultOwn(p)'
  BY <1>1, <1>4, ResultOthers
<1>9. "get" \in Labels /\ "get" \notin Inserting /\ "get" \notin Given
  BY DEF Labels, Inserting, Given, Getting
<1> QED BY <1>0, <1>1, <1>3, <1>4, <1>6, <1>7, <1>8, <1>9, Combine

\* A get reads the row of its own content.
LEMMA GetReads ==
    ASSUME StoreInv, VersionsAgree, SingleRedisInserter, NEW p \in Processes, GetRead(p)
    PROVE  StoreInv'
<1> DEFINE id == loc[p].id
<1>14. PICK row \in Found(id) :
          /\ row.deleted = "no" \/ (Redis /\ row.deleted = "yes")
          /\ loc' = [loc EXCEPT ![p] = [loc[p] EXCEPT !.row = row]]
  BY DEF GetRead, Hold
<1> DEFINE v == [loc[p] EXCEPT !.row = row]
<1>0. /\ pc \in [Processes -> Labels] /\ loc \in [Processes -> LocType]
      /\ result \in [Processes -> ResultType]
      /\ backend \in Backends /\ counter \in Nat /\ inserts \in Nat
      /\ TableTypes /\ OneEach /\ RowsAgree /\ Served /\ NothingLeft
  BY CallKinds
<1>1. /\ pc' = [pc EXCEPT ![p] = "touch"] /\ loc' = [loc EXCEPT ![p] = v]
      /\ result' = result /\ inserts' = inserts /\ UNCHANGED <<backend, tables, aux>>
      /\ pc[p] = "get"
      /\ row.deleted = "no" \/ (Redis /\ row.deleted = "yes")
  BY <1>14 DEF GetRead, Goto, At
<1>2. \/ backend # "dynamo" /\ id \in DOMAIN rows /\ row = rows[id] /\ row \in RowType
      \/ backend = "dynamo" /\ row \in RowType /\ <<id, row>> \in versions
  <2>1. CASE backend = "dynamo"
    <3>1. PICK x \in versions : x[1] = id /\ row = x[2]
      BY <1>14, <2>1 DEF Found
    <3>2. versions \subseteq (1..counter) \X RowType
      BY <2>1 DEF VersionsAgree
    <3>3. x[2] \in RowType /\ x = <<x[1], x[2]>>
      BY <3>2
    <3> QED BY <2>1, <3>1, <3>3
  <2>2. CASE backend # "dynamo"
    BY <1>0, <1>14, <2>2 DEF Found, TableTypes
  <2> QED BY <2>1, <2>2
<1>3. loc[p] \in LocType
  BY <1>0
<1>4. /\ v \in LocType /\ v.row = row /\ v.id = id /\ v.c = loc[p].c
      /\ v.ids = loc[p].ids /\ v.gone = loc[p].gone
  <2>1. row \in RowType
    BY <1>2
  <2> QED BY <1>3, <2>1 DEF LocType
<1>5. <<loc[p].c, id>> \in told /\ (loc[p].gone => id \in marked) /\ loc[p].ids = {}
  BY <1>1, InvParts DEF GetOwn, MarkOwn, Getting, Clears
<1>6. /\ row.c = loc[p].c /\ row.deleted \in {"no", "yes"}
      /\ row.deleted = "yes" => id \in marking
      /\ LooksAtMark => ~loc[p].gone
  <2>0. CASE backend = "dynamo"
    <3>1. <<id, row>> \in versions /\ row.deleted = "no" /\ ~LooksAtMark
      BY <1>1, <1>2, <2>0 DEF Redis, LooksAtMark
    <3>2. \/ <<row.c, id>> \in told
          \/ \E q \in Processes : pc[q] = "insert session" /\ loc[q].id = id
      BY <2>0, <3>1 DEF VersionsAgree
    <3>3. id \in Known
      <4>1. <<loc[p].c, id>>[2] = id
        OBVIOUS
      <4> QED BY <1>5, <4>1 DEF Known
    <3>4. ASSUME NEW q \in Processes, pc[q] = "insert session" PROVE loc[q].id # id
      <4>1. InsertOwn(q) /\ pc[q] \in Given
        BY <3>4, InvParts DEF Given
      <4> QED BY <3>3, <4>1 DEF InsertOwn
    <3>5. <<row.c, id>> \in told
      BY <3>2, <3>4
    <3> QED BY <1>0, <1>5, <3>1, <3>5 DEF OneEach
  <2>3. ASSUME backend # "dynamo" PROVE id \in DOMAIN rows /\ row = rows[id]
    BY <1>2, <2>3
  <2>1. ASSUME backend # "dynamo"
        PROVE
        /\ row.c \in {0, loc[p].c} /\ (row.deleted = "no" => row.c # 0) /\ (Redis => row.c # 0)
        /\ row.deleted = "yes" => id \in marking
        /\ ~Redis /\ id \in marked => row.deleted # "no"
    BY <1>0, <1>5, <2>1, <2>3 DEF RowsAgree
  <2>4. LooksAtMark => ~Redis /\ backend # "dynamo"
    BY DEF LooksAtMark, Redis
  <2> QED BY <1>1, <1>5, <2>0, <2>1, <2>4
<1> HIDE DEF v, id
<1>7. inserts <= inserts
  BY <1>0
<1>8. /\ Rely(p) /\ TableTypes' /\ OneEach' /\ RowsAgree' /\ Served' /\ NothingLeft'
  BY <1>0, <1>1, <1>7, QuietTables
<1>9. pc'[p] = "touch" /\ loc'[p] = v
  BY <1>0, <1>1
<1>10. InsertOwn(p)' /\ MarkOwn(p)'
  BY <1>4, <1>5, <1>9 DEF InsertOwn, MarkOwn, Inserting, Given, Clears
<1>11. GetOwn(p)'
  <2>1. told' = told /\ marked' = marked /\ marking' = marking /\ backend' = backend
    BY <1>1 DEF aux
  <2> QED BY <1>4, <1>5, <1>6, <1>9, <2>1 DEF GetOwn, LooksAtMark
<1>12. ResultOwn(p)'
  BY <1>1, <1>8, ResultOthers
<1>13. "touch" \in Labels /\ "touch" \notin Inserting /\ "touch" \notin Given
  BY DEF Labels, Inserting, Given, Getting
<1> QED BY <1>0, <1>1, <1>4, <1>8, <1>10, <1>11, <1>12, <1>13, Combine

\* What a get returns, from what it returned.
LEMMA ResultMade ==
    ASSUME NEW p \in Processes, NEW r, result'[p] = r, NEW id, <<r.asked, id>> \in told',
           r.what = "row" => r.got = r.asked /\ r.answers \subseteq {r.asked},
           \/ r.what = "row" /\ r.answers = {r.asked}
           \/ r.what = "none" /\ backend' = "dynamo"
           \/ \A x \in told' : x[1] = r.asked => x[2] \in marking',
           LooksAtMark' /\ r.gone => r.what # "row"
    PROVE  ResultOwn(p)'
<1>1. \E x \in told' : x[1] = r.asked
  <2>1. <<r.asked, id>>[1] = r.asked
    OBVIOUS
  <2> QED BY <2>1
<1> QED BY <1>1 DEF ResultOwn

\* What a get returns is of the row it asks for; it returns nothing only when
\* the row was marked, or none in DynamoDB.
LEMMA GetEnds ==
    ASSUME StoreInv, VersionsAgree, SingleRedisInserter, NEW p \in Processes,
           GetNone(p) \/ ReadAnswers(p)
    PROVE  StoreInv'
<1> DEFINE id == loc[p].id
           c == loc[p].c
           r == result'[p]
<1>0. /\ pc \in [Processes -> Labels] /\ loc \in [Processes -> LocType]
      /\ result \in [Processes -> ResultType]
      /\ backend \in Backends /\ counter \in Nat /\ inserts \in Nat
      /\ TableTypes /\ OneEach /\ RowsAgree /\ Served /\ NothingLeft
  BY CallKinds
<1>1. /\ pc' = [pc EXCEPT ![p] = "idle"] /\ loc' = [loc EXCEPT ![p] = NoLoc]
      /\ inserts' = inserts /\ UNCHANGED <<backend, tables, aux>>
      /\ pc[p] \in {"get", "read answers"}
      /\ told' = told /\ marking' = marking /\ backend' = backend
  BY DEF GetNone, ReadAnswers, Goto, Hold, Done, aux, At
<1>2. /\ <<c, id>> \in told /\ c \in Nat /\ id \in Nat /\ loc[p] \in LocType
      /\ \A x \in told : x[1] = c => x[2] = id
      /\ loc[p].gone \in BOOLEAN
  <2>1. <<c, id>> \in told /\ loc[p] \in LocType
    BY <1>0, <1>1, InvParts DEF GetOwn, Getting
  <2>2. \A x \in told : x[1] = c => x[2] = id
    BY <1>0, <2>1 DEF OneEach
  <2> QED BY <2>1, <2>2 DEF LocType
<1>3. /\ \/ id \in marking
         \/ /\ id \in DOMAIN rows /\ rows[id] = [c |-> c, deleted |-> "no"]
            /\ AnswersApart => <<id, c>> \in answers
  BY <1>0, <1>2 DEF Served
<1>6. /\ Rely(p) /\ TableTypes' /\ OneEach' /\ RowsAgree' /\ Served' /\ NothingLeft'
  <2>1. inserts <= inserts
    BY <1>0
  <2> QED BY <1>0, <1>1, <2>1, QuietTables
<1>7. /\ InsertOwn(p)' /\ GetOwn(p)' /\ MarkOwn(p)'
      /\ "idle" \in Labels /\ "idle" \notin Inserting /\ "idle" \notin Given
  <2>1. pc'[p] = "idle" /\ loc'[p] = NoLoc
    BY <1>0, <1>1
  <2> QED BY <2>1, IdleOwn DEF Labels, Inserting, Given
<1>4. CASE GetNone(p)
  <2>1. PICK w \in {"raised", "none"} :
           result' = [result EXCEPT ![p] = [what |-> w, asked |-> c, got |-> 0,
                                            answers |-> {}, gone |-> loc[p].gone]]
    BY <1>4 DEF GetNone, Returned
  <2>3. id \in marking \/ backend = "dynamo"
    BY <1>3, <1>4 DEF GetNone, Found, Missed
  <2>9. id \in marking \/ (w = "none" /\ backend = "dynamo")
    <3> SUFFICES ASSUME id \notin marking, backend = "dynamo" PROVE w = "none"
      BY <2>3
    <3>1. \A x \in versions : x[1] = id => x[2].deleted = "no"
      BY DEF VersionsAgree
    <3>2. \A row \in Found(id) : row.deleted = "no"
      BY <3>1 DEF Found
    <3>3. Returned(p, "none", 0, {})
      BY <1>4, <3>2 DEF GetNone
    <3>4. result'[p].what = "none" /\ result'[p].what = w
      BY <1>0, <2>1, <3>3 DEF Returned
    <3> QED BY <3>4
  <2>4. /\ r = [what |-> w, asked |-> c, got |-> 0, answers |-> {}, gone |-> loc[p].gone]
        /\ \A q \in Processes \ {p} : result'[q] = result[q]
    BY <1>0, <2>1
  <2>5. r \in ResultType
    BY <1>2, <2>4 DEF ResultType
  <2>6. result' \in [Processes -> ResultType]
    BY <1>0, <2>1, <2>4, <2>5
  <2>7. r.asked = c /\ r.what # "row" /\ r.what = w
    BY <2>4
  <2>8. ResultOwn(p)'
    <3>1. \/ r.what = "none" /\ backend' = "dynamo"
          \/ \A x \in told' : x[1] = r.asked => x[2] \in marking'
      BY <1>1, <1>2, <2>7, <2>9
    <3> HIDE DEF r
    <3> QED BY <1>1, <1>2, <2>7, <3>1, ResultMade DEF r
  <2> QED BY <2>4, <2>6, <2>8, <1>0, <1>1, <1>6, <1>7, Combine, NoTypes
<1>5. CASE ReadAnswers(p)
  <2> DEFINE a == IF Embedded THEN {loc[p].row.c} ELSE AnswersOf(id)
  <2>1. /\ result' = [result EXCEPT ![p] = [what |-> "row", asked |-> c, got |-> loc[p].row.c,
                                            answers |-> a, gone |-> loc[p].gone]]
        /\ pc[p] = "read answers"
    BY <1>5 DEF ReadAnswers, Returned, At
  <2>2. loc[p].row.c = c /\ (LooksAtMark => ~loc[p].gone)
    BY <2>1, InvParts DEF GetOwn
  <2>3. a \subseteq {c} /\ (id \notin marking => a = {c})
    <3>1. CASE Embedded
      BY <2>2, <3>1
    <3>2. CASE ~Embedded
      <4>1. \A y \in answers : y[1] = id => y[2] = c
        BY <1>0, <1>2 DEF RowsAgree
      <4>2. AnswersOf(id) \subseteq {c}
        BY <4>1 DEF AnswersOf
      <4>3. <<id, c>> \in answers => c \in AnswersOf(id)
        BY DEF AnswersOf
      <4>4. AnswersApart
        BY <1>0, <3>2, StoreFacts
      <4> QED BY <1>3, <3>2, <4>2, <4>3, <4>4
    <3> QED BY <3>1, <3>2
  <2> HIDE DEF a
  <2>4. /\ r = [what |-> "row", asked |-> c, got |-> c, answers |-> a, gone |-> loc[p].gone]
        /\ \A q \in Processes \ {p} : result'[q] = result[q]
    BY <1>0, <2>1, <2>2
  <2>5. r \in ResultType
    BY <1>2, <2>3, <2>4 DEF ResultType
  <2>6. result' \in [Processes -> ResultType]
    BY <1>0, <2>1, <2>2, <2>4, <2>5
  <2>7. r.asked = c /\ r.got = c /\ r.answers = a /\ r.gone = loc[p].gone
    BY <2>4
  <2>8. LooksAtMark' /\ r.gone => r.what # "row"
    BY <1>1, <1>2, <2>2, <2>7 DEF LooksAtMark
  <2>9. a = {c} \/ \A x \in told' : x[1] = c => x[2] \in marking'
    BY <1>1, <1>2, <2>3
  <2>10. \/ r.what = "row" /\ r.answers = {r.asked}
         \/ \A x \in told' : x[1] = r.asked => x[2] \in marking'
    BY <2>4, <2>7, <2>9
  <2>11. ResultOwn(p)'
    <3> HIDE DEF r
    <3> QED BY <1>1, <1>2, <2>3, <2>7, <2>8, <2>10, ResultMade DEF r
  <2> QED BY <2>4, <2>6, <2>11, <1>0, <1>1, <1>6, <1>7, Combine, NoTypes
<1> QED BY <1>4, <1>5

LEMMA MarkFinds ==
    ASSUME StoreInv, SingleRedisInserter, NEW p \in Processes, MarkFind(p)
    PROVE  StoreInv'
<1> DEFINE id == loc[p].id
           row == RowOf(id)
           v == [loc[p] EXCEPT !.row = row]
<1>0. /\ pc \in [Processes -> Labels] /\ loc \in [Processes -> LocType]
      /\ result \in [Processes -> ResultType]
      /\ backend \in Backends /\ counter \in Nat /\ inserts \in Nat
      /\ TableTypes /\ OneEach /\ RowsAgree /\ Served /\ NothingLeft
  BY CallKinds
<1>1. /\ pc' = [pc EXCEPT ![p] = "mark save"] /\ loc' = [loc EXCEPT ![p] = v]
      /\ result' = result /\ inserts' = inserts /\ UNCHANGED <<backend, tables, aux>>
      /\ pc[p] = "mark" /\ Redis
  BY DEF MarkFind, Goto, Hold, At
<1>2. row \in RowType
  BY <1>0, NoTypes DEF RowOf, TableTypes
<1>3. loc[p] \in LocType /\ id \in marking /\ loc[p].ids = {}
  BY <1>0, <1>1, InvParts DEF MarkOwn, Clears
<1>4. v \in LocType /\ v.row = row /\ v.id = id /\ v.ids = {}
  <2> HIDE DEF row
  <2> QED BY <1>2, <1>3 DEF LocType
<1>5. row = NoRow \/ (<<row.c, id>> \in told /\ row.deleted \in {"no", "yes"})
  <2> SUFFICES ASSUME id \in DOMAIN rows PROVE <<row.c, id>> \in told /\ row.deleted \in {"no", "yes"}
    BY DEF RowOf
  <2>1. row = rows[id] /\ row.c # 0 /\ id \in Known /\ row.deleted # "unset"
    BY <1>0, <1>1 DEF RowOf, RowsAgree, Redis
  <2>2. PICK x \in told : x[2] = id
    BY <2>1 DEF Known
  <2>3. row.c = x[1] /\ x = <<x[1], x[2]>>
    BY <1>0, <2>1, <2>2 DEF RowsAgree, TableTypes
  <2> QED BY <1>2, <2>1, <2>2, <2>3 DEF RowType
<1> HIDE DEF v, row, id
<1>6. inserts <= inserts
  BY <1>0
<1>7. /\ Rely(p) /\ TableTypes' /\ OneEach' /\ RowsAgree' /\ Served' /\ NothingLeft'
  BY <1>0, <1>1, <1>6, QuietTables
<1>8. pc'[p] = "mark save" /\ loc'[p] = v
  BY <1>0, <1>1
<1>9. told' = told /\ marking' = marking /\ backend' = backend
  BY <1>1 DEF aux
<1>10. InsertOwn(p)' /\ GetOwn(p)'
  BY <1>1, <1>8, <1>9 DEF InsertOwn, GetOwn, Inserting, Given, Getting, Redis
<1>11. MarkOwn(p)'
  BY <1>3, <1>4, <1>5, <1>8, <1>9 DEF MarkOwn, Clears
<1>12. ResultOwn(p)'
  BY <1>1, <1>7, ResultOthers
<1>13. "mark save" \in Labels /\ "mark save" \notin Inserting /\ "mark save" \notin Given
  BY DEF Labels, Inserting, Given
<1> QED BY <1>0, <1>1, <1>4, <1>7, <1>10, <1>11, <1>12, <1>13, Combine

LEMMA ClearBegins ==
    ASSUME StoreInv, VersionsAgree, SingleRedisInserter, NEW p \in Processes, ClearFind(p)
    PROVE  StoreInv'
<1>0. /\ pc \in [Processes -> Labels] /\ loc \in [Processes -> LocType]
      /\ result \in [Processes -> ResultType]
      /\ backend \in Backends /\ counter \in Nat /\ inserts \in Nat
      /\ TableTypes /\ OneEach /\ RowsAgree /\ Served /\ NothingLeft
  BY CallKinds
<1>1. PICK S \in SUBSET (Marked \cup Listed) :
         /\ loc' = [loc EXCEPT ![p] = [NoLoc EXCEPT !.ids = S]]
         /\ IF backend = "dynamo" THEN S \subseteq Listed ELSE S = Marked
  BY DEF ClearFind, Hold
<1> DEFINE v == [NoLoc EXCEPT !.ids = S]
<1>2. /\ pc' = [pc EXCEPT ![p] = "clear"]
      /\ result' = result /\ inserts' = inserts /\ UNCHANGED <<backend, tables, aux>>
  BY DEF ClearFind, Goto
<1>3. S \subseteq marking /\ S \subseteq Nat
  <2>1. Marked \subseteq marking
    BY <1>0 DEF Marked, RowsAgree
  <2>2. DOMAIN rows \subseteq 1..counter
    BY <1>0 DEF TableTypes
  <2>3. ASSUME backend = "dynamo", NEW j \in Listed PROVE j \in marking /\ j \in 1..counter
    BY <2>3 DEF Listed, VersionsAgree
  <2>4. CASE backend = "dynamo"
    BY <1>0, <1>1, <2>3, <2>4
  <2>5. CASE backend # "dynamo"
    BY <1>0, <1>1, <2>1, <2>2, <2>5 DEF Marked
  <2> QED BY <2>4, <2>5
<1>4. v \in LocType /\ v.ids = S
  BY <1>1, <1>3, NoTypes DEF LocType, NoLoc
<1> HIDE DEF v
<1>5. inserts <= inserts
  BY <1>0
<1>6. /\ Rely(p) /\ TableTypes' /\ OneEach' /\ RowsAgree' /\ Served' /\ NothingLeft'
  BY <1>0, <1>2, <1>5, QuietTables
<1>7. loc' = [loc EXCEPT ![p] = v]
  BY <1>1 DEF v
<1>8. pc'[p] = "clear" /\ loc'[p] = v
  BY <1>0, <1>2, <1>7
<1>9. marking' = marking /\ backend' = backend /\ rows' = rows /\ raced' = raced
  BY <1>2 DEF aux, tables
<1>10. InsertOwn(p)' /\ GetOwn(p)'
  BY <1>8 DEF InsertOwn, GetOwn, Inserting, Given, Getting
<1>11. MarkOwn(p)'
  <2>1. Marked' = Marked
    BY <1>9 DEF Marked
  <2>2. S \subseteq marking /\ (AnswersApart => Marked \subseteq S \cup raced)
    BY <1>1, <1>3 DEF AnswersApart
  <2> QED BY <1>4, <1>8, <1>9, <2>1, <2>2 DEF MarkOwn, AnswersApart, Clears
<1>12. ResultOwn(p)'
  BY <1>2, <1>6, ResultOthers
<1>13. "clear" \in Labels /\ "clear" \notin Inserting /\ "clear" \notin Given
  BY DEF Labels, Inserting, Given, Clears
<1> QED BY <1>0, <1>2, <1>4, <1>6, <1>7, <1>10, <1>11, <1>12, <1>13, Combine

\* Redis gives its counter's value, one that no other row has.
LEMMA CounterGets ==
    ASSUME StoreInv, SingleRedisInserter, NEW p \in Processes, CounterGet(p)
    PROVE  StoreInv'
<1> DEFINE v == [loc[p] EXCEPT !.id = counter]
<1>0. /\ pc \in [Processes -> Labels] /\ loc \in [Processes -> LocType]
      /\ result \in [Processes -> ResultType]
      /\ backend \in Backends /\ counter \in Nat /\ inserts \in Nat
      /\ TableTypes /\ OneEach /\ RowsAgree /\ Served /\ NothingLeft
  BY CallKinds
<1>1. /\ pc' = [pc EXCEPT ![p] = "execute"] /\ loc' = [loc EXCEPT ![p] = v]
      /\ result' = result /\ inserts' = inserts /\ UNCHANGED <<backend, tables, aux>>
      /\ pc[p] = "counter get"
  BY DEF CounterGet, Goto, Hold, At
<1>2. loc[p] \in LocType /\ loc[p].ids = {}
  BY <1>0, <1>1, InvParts DEF MarkOwn, Clears
<1>3. v \in LocType /\ v.c = loc[p].c /\ v.id = counter /\ v.ids = {}
  BY <1>0, <1>2 DEF LocType
<1>4. /\ p \in Inserters[backend] /\ loc[p].c \in 1..inserts /\ (\A x \in told : x[1] # loc[p].c)
      /\ counter \in Nat \ {0} /\ counter \notin Known /\ Redis
  BY <1>1, InvParts DEF InsertOwn, Inserting
<1> HIDE DEF v
<1>5. inserts <= inserts /\ counter \in 1..counter
  BY <1>0, <1>4
<1>6. /\ Rely(p) /\ TableTypes' /\ OneEach' /\ RowsAgree' /\ Served' /\ NothingLeft'
  BY <1>0, <1>1, <1>5, QuietTables
<1>7. pc'[p] = "execute" /\ loc'[p] = v
  BY <1>0, <1>1
<1>8. told' = told /\ backend' = backend /\ counter' = counter /\ Known' = Known
  BY <1>1 DEF aux, tables, Known
<1>9. InsertOwn(p)'
  <2>1. Redis' /\ inserts' = inserts /\ v.c \in 1..inserts /\ v.id = counter /\ v.c = loc[p].c
    BY <1>1, <1>3, <1>4, <1>8 DEF Redis
  <2>2. \A x \in told' : x[1] # v.c
    BY <1>4, <1>8, <2>1
  <2>3. v.id \in 1..counter' /\ v.id \notin Known'
    BY <1>4, <1>5, <1>8, <2>1
  <2>4. p \in Inserters[backend']
    BY <1>4, <1>8
  <2> QED BY <1>7, <2>1, <2>2, <2>3, <2>4 DEF InsertOwn
<1>10. GetOwn(p)' /\ MarkOwn(p)'
  BY <1>3, <1>7 DEF GetOwn, MarkOwn, Getting, Clears
<1>11. ResultOwn(p)'
  BY <1>1, <1>6, ResultOthers
<1>12. "execute" \in Labels /\ pc[p] \in Inserting
  BY <1>1 DEF Labels, Inserting
<1> QED BY <1>0, <1>1, <1>3, <1>4, <1>6, <1>9, <1>10, <1>11, <1>12, Combine

-----------------------------------------------------------------------------
(* Steps that write.                                                       *)

\* A step that ends a call.
LEMMA EndsCall ==
    ASSUME StoreInv, SingleRedisInserter, NEW p \in Processes, Rely(p), Done(p),
           result' = result, TableTypes', OneEach', RowsAgree', Served', NothingLeft'
    PROVE  StoreInv'
<1>1. /\ pc \in [Processes -> Labels] /\ loc \in [Processes -> LocType]
      /\ result \in [Processes -> ResultType]
  BY CallKinds
<1>2. pc' = [pc EXCEPT ![p] = "idle"] /\ loc' = [loc EXCEPT ![p] = NoLoc]
  BY DEF Done, Goto, Hold
<1>3. pc'[p] = "idle" /\ loc'[p] = NoLoc
  BY <1>1, <1>2
<1>4. InsertOwn(p)' /\ GetOwn(p)' /\ MarkOwn(p)'
  BY <1>3, IdleOwn
<1>5. ResultOwn(p)'
  BY ResultOthers
<1>6. "idle" \in Labels /\ "idle" \notin Inserting /\ "idle" \notin Given
  BY DEF Labels, Inserting, Given
<1> QED BY <1>1, <1>2, <1>4, <1>5, <1>6, Combine, NoTypes

\* A step of no call, or of one that is a single step.
LEMMA NoCall ==
    ASSUME StoreInv, SingleRedisInserter, NEW p \in Processes, Rely(p),
           pc' = pc, loc' = loc, result' = result, told' = told, counter' = counter,
           answers' \subseteq answers,
           TableTypes', OneEach', RowsAgree', Served', NothingLeft'
    PROVE  StoreInv'
<1>1. CallTypes'
  BY DEF StoreInv, CallTypes
<1>2. \A q \in Processes : CallInv(q)'
  <2> SUFFICES ASSUME NEW q \in Processes PROVE CallInv(q)'
    OBVIOUS
  <2>1. InsertOwn(q)'
    BY InsertOthers
  <2>2. GetOwn(q)' /\ MarkOwn(q)'
    BY GetMarkOthers
  <2>3. ResultOwn(q)'
    BY ResultOthers
  <2> QED BY <2>1, <2>2, <2>3 DEF CallInv
<1>3. \A q, u \in Processes : q # u => DistinctInserts(q, u)'
  BY DEF StoreInv, DistinctInserts
<1> QED BY <1>1, <1>2, <1>3 DEF StoreInv

\* What an insert knows of its content and of its id.
LEMMA InsertFacts ==
    ASSUME StoreInv, NEW p \in Processes, pc[p] \in Inserting
    PROVE  /\ loc[p] \in LocType /\ loc[p].c \in 1..inserts /\ loc[p].ids = {}
           /\ \A x \in told : x[1] # loc[p].c
           /\ pc[p] \in Given => loc[p].id \in 1..counter /\ loc[p].id \notin Known
           /\ counter + 1 \notin DOMAIN rows /\ counter + 1 \notin Known
           /\ counter + 1 \in 1..(counter + 1) /\ counter + 1 \in Nat
           /\ \A y \in answers : y[1] # counter + 1
           /\ \A y \in sessions : y[1] # counter + 1
           /\ \A s \in Sessions \cup {NoSession} : \A id :
                 Linked(id, s) \subseteq {id} \X Sessions
<1>1. InsertOwn(p) /\ MarkOwn(p) /\ counter \in Nat /\ Known \subseteq 1..counter /\ TableTypes
      /\ loc[p] \in LocType
  BY InvParts DEF StoreInv
<1>2. loc[p].ids = {}
  BY <1>1 DEF MarkOwn, Inserting, Clears
<1>3. \A id \in 1..counter : id # counter + 1
  BY <1>1
<1>4. counter + 1 \in 1..(counter + 1) /\ counter + 1 \in Nat
  BY <1>1
<1>5. \A s \in Sessions \cup {NoSession} : \A id : Linked(id, s) \subseteq {id} \X Sessions
  BY DEF Linked
<1> QED BY <1>1, <1>2, <1>3, <1>4, <1>5 DEF InsertOwn, TableTypes

\* An insert tells an id that nobody was told before.
LEMMA Tells ==
    ASSUME StoreInv, NEW c, NEW id, told' = told \cup {<<c, id>>},
           \A x \in told : x[1] # c, id \notin Known
    PROVE  OneEach' /\ Known' = Known \cup {id}
<1>1. \A x \in told : x[1] # c /\ x[2] # id
  BY DEF Known
<1>2. \A x, y \in told : x[1] = y[1] <=> x[2] = y[2]
  BY DEF StoreInv, OneEach
<1>3. \A x \in told' : x \in told \/ (x[1] = c /\ x[2] = id)
  OBVIOUS
<1>4. OneEach'
  BY <1>1, <1>2, <1>3 DEF OneEach
<1>5. Known' = Known \cup {id}
  <2>1. <<c, id>> \in told' /\ <<c, id>>[2] = id
    OBVIOUS
  <2>2. id \in Known' /\ Known \subseteq Known'
    BY <2>1 DEF Known
  <2>3. Known' \subseteq Known \cup {id}
    BY <1>3 DEF Known
  <2> QED BY <2>2, <2>3
<1> QED BY <1>4, <1>5

\* SQL's insert is one transaction.
LEMMA SqlInserts ==
    ASSUME StoreInv, SingleRedisInserter, NEW p \in Processes, SqlInsert(p)
    PROVE  StoreInv'
<1> DEFINE n == counter + 1
           c == loc[p].c
           row == [c |-> c, deleted |-> "no"]
<1>0. /\ pc \in [Processes -> Labels] /\ loc \in [Processes -> LocType]
      /\ result \in [Processes -> ResultType]
      /\ backend \in Backends /\ counter \in Nat /\ inserts \in Nat
      /\ TableTypes /\ OneEach /\ RowsAgree /\ Served /\ NothingLeft
  BY CallKinds
<1>1. /\ backend = "sql" /\ pc[p] = "insert" /\ counter' = n
      /\ rows' = Put(rows, n, row) /\ answers' = answers \cup {<<n, c>>}
      /\ sessions' = sessions \cup Linked(n, loc[p].s)
      /\ told' = told \cup {<<c, n>>} /\ Done(p)
      /\ UNCHANGED <<backend, result, inserts, marking, marked, raced>>
  BY DEF SqlInsert, At, Tell
<1>2. pc[p] \in Inserting
  BY <1>1 DEF Inserting
<1>3. /\ c \in 1..inserts /\ c \in Nat /\ c # 0 /\ n \in Nat
      /\ n \notin DOMAIN rows /\ n \notin Known /\ n \in 1..n /\ 1..counter \subseteq 1..n
      /\ (\A x \in told : x[1] # c) /\ (\A y \in answers : y[1] # n)
      /\ Linked(n, loc[p].s) \subseteq {n} \X Sessions
  <2>1. loc[p] \in LocType
    BY <1>0
  <2>2. loc[p].s \in Sessions \cup {NoSession}
    BY <2>1 DEF LocType
  <2> QED BY <1>0, <1>2, <2>2, InsertFacts
<1>4. /\ Known \subseteq 1..counter /\ marking \subseteq Known /\ marked \subseteq marking
  BY InvParts
<1> DEFINE link == Linked(n, loc[p].s)
<1> HIDE DEF n, c, row, link
<1>5. /\ DOMAIN rows' = DOMAIN rows \cup {n} /\ rows'[n] = row
      /\ \A j \in DOMAIN rows : rows'[j] = rows[j]
  <2>1. rows' = Put(rows, n, row)
    BY <1>1
  <2>2. /\ DOMAIN Put(rows, n, row) = DOMAIN rows \cup {n} /\ Put(rows, n, row)[n] = row
        /\ \A j \in DOMAIN rows : j # n => Put(rows, n, row)[j] = rows[j]
    BY DEF Put
  <2>3. \A j \in DOMAIN rows : j # n
    BY <1>3
  <2> QED BY <2>1, <2>2, <2>3
<1>6. OneEach' /\ Known' = Known \cup {n}
  BY <1>1, <1>3, Tells
<1>7. TableTypes'
  <2>1. \A id \in DOMAIN rows' : rows'[id] \in RowType /\ rows'[id].c <= inserts'
    <3>1. row \in RowType /\ row.c <= inserts
      BY <1>0, <1>3 DEF RowType, row
    <3> QED BY <1>0, <1>1, <1>5, <3>1 DEF TableTypes
  <2>2. answers' \subseteq (1..counter') \X (1..inserts')
    BY <1>0, <1>1, <1>3 DEF TableTypes
  <2>3. sessions' \subseteq (1..counter') \X Sessions
    BY <1>0, <1>1, <1>3 DEF TableTypes, link
  <2>4. told' \subseteq (1..inserts') \X (1..counter')
    BY <1>0, <1>1, <1>3 DEF TableTypes
  <2>5. DOMAIN rows' \subseteq 1..counter'
    BY <1>0, <1>1, <1>3, <1>5 DEF TableTypes
  <2> QED BY <1>0, <1>1, <1>3, <2>1, <2>2, <2>3, <2>4, <2>5 DEF TableTypes
<1>8. row.c = c /\ row.deleted = "no"
  BY DEF row
<1>9. RowsAgree'
  <2>1. \A x \in told' : x[2] \in DOMAIN rows' => rows'[x[2]].c \in {0, x[1]}
    <3>1. \A x \in told : x[2] \in DOMAIN rows => rows[x[2]].c \in {0, x[1]}
      BY <1>0 DEF RowsAgree
    <3>2. \A x \in told : x[2] # n
      BY <1>3 DEF Known
    <3> QED BY <1>1, <1>5, <1>8, <3>1, <3>2
  <2>2. \A x \in told' : \A y \in answers' : y[1] = x[2] => y[2] = x[1]
    <3>1. \A x \in told : \A y \in answers : y[1] = x[2] => y[2] = x[1]
      BY <1>0 DEF RowsAgree
    <3>2. \A x \in told : x[2] # n
      BY <1>3 DEF Known
    <3> QED BY <1>1, <1>3, <3>1, <3>2
  <2>3. AnswersApart' /\ backend' = "sql" /\ ~Redis'
    BY <1>1 DEF AnswersApart, Redis
  <2>4. \A id \in DOMAIN rows' :
          /\ rows'[id].deleted = "no" => rows'[id].c # 0
          /\ rows'[id].deleted = "yes" => id \in marking'
          /\ rows'[id].deleted # "unset"
          /\ id \in marked' => rows'[id].deleted # "no"
    <3>1. n \notin marked
      BY <1>3, <1>4
    <3> QED BY <1>0, <1>1, <1>3, <1>5, <1>8, <3>1 DEF RowsAgree, Redis
  <2>5. marking' \subseteq Known' /\ marked' \subseteq marking'
    BY <1>1, <1>4, <1>6
  <2> QED BY <2>1, <2>2, <2>3, <2>4, <2>5 DEF RowsAgree
<1>10. Served'
  <2>1. AnswersApart
    BY <1>1 DEF AnswersApart
  <2>2. ASSUME NEW x \in told
        PROVE  \/ x[2] \in marking
               \/ /\ x[2] \in DOMAIN rows' /\ rows'[x[2]] = [c |-> x[1], deleted |-> "no"]
                  /\ <<x[2], x[1]>> \in answers'
    BY <1>0, <1>1, <1>5, <2>1, <2>2 DEF Served
  <2>3. /\ <<c, n>>[2] \in DOMAIN rows' /\ rows'[n] = [c |-> c, deleted |-> "no"]
        /\ <<n, c>> \in answers'
    BY <1>1, <1>5 DEF row
  <2>4. ASSUME NEW x \in told'
        PROVE  \/ x[2] \in marking
               \/ /\ x[2] \in DOMAIN rows' /\ rows'[x[2]] = [c |-> x[1], deleted |-> "no"]
                  /\ <<x[2], x[1]>> \in answers'
    <3>1. x \in told \/ x = <<c, n>>
      BY <1>1
    <3> QED BY <2>2, <2>3, <3>1
  <2> QED BY <1>1, <2>4 DEF Served
<1>11. NothingLeft'
  <2>1. \A x \in sessions' : x \in sessions \/ x[1] = n
    BY <1>1, <1>3 DEF link
  <2>2. \A x \in answers' : x \in answers \/ x[1] = n
    BY <1>1
  <2> QED BY <1>0, <1>1, <1>5, <2>1, <2>2 DEF NothingLeft
<1>12. Rely(p)
  <2>1. /\ counter' \in Nat /\ counter <= counter' /\ inserts' \in Nat /\ inserts <= inserts'
    BY <1>0, <1>1, <1>3 DEF n
  <2>2. \A x \in told' \ told : pc[p] \in Inserting /\ x[1] = c /\ x[2] = n
    BY <1>1, <1>2
  <2>3. \A y \in answers' \ answers : y[1] = n
    BY <1>1
  <2>4. \A y \in sessions' \ sessions : y[1] \notin marking
    <3>1. \A y \in sessions' \ sessions : y[1] = n
      BY <1>1, <1>3 DEF link
    <3> QED BY <1>3, <1>4, <3>1
  <2>5. Marked' \subseteq Marked
    <3> SUFFICES ASSUME NEW id \in DOMAIN rows', rows'[id].deleted = "yes" PROVE id \in Marked
      BY DEF Marked
    <3> QED BY <1>5, <1>8 DEF Marked
  <2>6. backend' = backend /\ backend # "dynamo" /\ marking' = marking /\ marked' = marked
        /\ raced' = raced
    BY <1>1
  <2> QED BY <1>1, <1>2, <1>5, <2>1, <2>2, <2>3, <2>4, <2>5, <2>6 DEF Rely, n, c
<1> QED BY <1>1, <1>6, <1>7, <1>9, <1>10, <1>11, <1>12, EndsCall

\* MongoDB and DynamoDB make a row with an id of its own.
LEMMA InsertsRow ==
    ASSUME StoreInv, SingleRedisInserter, NEW p \in Processes, InsertRow(p)
    PROVE  StoreInv'
<1> DEFINE n == counter + 1
           c == loc[p].c
           row == [c |-> c, deleted |-> "no"]
           l == IF Embedded THEN "insert session" ELSE "insert answers"
           v == [loc[p] EXCEPT !.id = n]
<1>0. /\ pc \in [Processes -> Labels] /\ loc \in [Processes -> LocType]
      /\ result \in [Processes -> ResultType]
      /\ backend \in Backends /\ counter \in Nat /\ inserts \in Nat
      /\ TableTypes /\ OneEach /\ RowsAgree /\ Served /\ NothingLeft
  BY CallKinds
<1>1. /\ backend \in {"mongo", "dynamo"} /\ pc[p] = "insert" /\ counter' = n
      /\ rows' = Put(rows, n, row)
      /\ pc' = [pc EXCEPT ![p] = l] /\ loc' = [loc EXCEPT ![p] = v]
      /\ UNCHANGED <<backend, answers, sessions, result, inserts, aux>>
      /\ told' = told /\ marking' = marking /\ marked' = marked /\ raced' = raced
  BY DEF InsertRow, At, Goto, Hold, aux
<1>2. pc[p] \in Inserting
  BY <1>1 DEF Inserting
<1>3. /\ c \in 1..inserts /\ c \in Nat /\ c # 0 /\ n \in Nat
      /\ n \notin DOMAIN rows /\ n \notin Known /\ n \in 1..n /\ 1..counter \subseteq 1..n
      /\ (\A x \in told : x[1] # c) /\ (\A y \in answers : y[1] # n)
      /\ loc[p] \in LocType /\ loc[p].ids = {}
  BY <1>0, <1>2, InsertFacts
<1>4. /\ Known \subseteq 1..counter /\ marking \subseteq Known /\ marked \subseteq marking
      /\ p \in Inserters[backend]
  BY <1>2, InvParts DEF InsertOwn
<1>5. /\ v \in LocType /\ v.id = n /\ v.c = c /\ v.ids = {}
  <2> HIDE DEF n
  <2> QED BY <1>3 DEF LocType
<1>6. /\ l \in {"insert session", "insert answers"} /\ l \in Labels /\ l \in Inserting
      /\ l = "insert answers" => backend = "mongo"
      /\ l = "insert session" => ~AnswersApart
  <2>1. Embedded <=> ~AnswersApart
    BY <1>0, StoreFacts
  <2>2. l \in {"insert session", "insert answers"}
    OBVIOUS
  <2>3. l = "insert answers" => backend = "mongo"
    BY <1>1, <2>1 DEF AnswersApart
  <2>4. l = "insert session" => ~AnswersApart
    BY <2>1
  <2> HIDE DEF l
  <2> QED BY <2>2, <2>3, <2>4 DEF Labels, Inserting
<1> HIDE DEF n, c, row, l, v
<1>7. /\ DOMAIN rows' = DOMAIN rows \cup {n} /\ rows'[n] = row
      /\ \A j \in DOMAIN rows : rows'[j] = rows[j]
  <2>1. rows' = Put(rows, n, row)
    BY <1>1
  <2>2. \A j \in DOMAIN rows : j # n
    BY <1>3
  <2> QED BY <2>1, <2>2 DEF Put
<1>8. row.c = c /\ row.deleted = "no" /\ row \in RowType /\ row.c <= inserts
  <2>1. row.c = c /\ row.deleted = "no" /\ row \in RowType
    BY <1>3 DEF row, RowType
  <2> QED BY <1>0, <1>3, <2>1
<1>9. OneEach' /\ Known' = Known
  BY <1>0, <1>1 DEF OneEach, Known
<1>10. TableTypes'
  <2>1. \A id \in DOMAIN rows' : rows'[id] \in RowType /\ rows'[id].c <= inserts'
    BY <1>0, <1>1, <1>7, <1>8 DEF TableTypes
  <2>2. answers' \subseteq (1..counter') \X (1..inserts')
    BY <1>0, <1>1, <1>3 DEF TableTypes
  <2>3. sessions' \subseteq (1..counter') \X Sessions
    BY <1>0, <1>1, <1>3 DEF TableTypes
  <2>4. told' \subseteq (1..inserts') \X (1..counter')
    BY <1>0, <1>1, <1>3 DEF TableTypes
  <2>5. DOMAIN rows' \subseteq 1..counter'
    BY <1>0, <1>1, <1>3, <1>7 DEF TableTypes
  <2> QED BY <1>0, <1>1, <1>3, <2>1, <2>2, <2>3, <2>4, <2>5 DEF TableTypes
<1>11. RowsAgree'
  <2>1. \A x \in told' : x[2] \in DOMAIN rows' => rows'[x[2]].c \in {0, x[1]}
    <3>1. \A x \in told : x[2] \in DOMAIN rows => rows[x[2]].c \in {0, x[1]}
      BY <1>0 DEF RowsAgree
    <3>2. \A x \in told : x[2] # n
      BY <1>3 DEF Known
    <3> QED BY <1>1, <1>7, <3>1, <3>2
  <2>2. \A x \in told' : \A y \in answers' : y[1] = x[2] => y[2] = x[1]
    BY <1>0, <1>1 DEF RowsAgree
  <2>3. ~AnswersApart' => answers' = {}
    BY <1>0, <1>1 DEF AnswersApart, RowsAgree
  <2>4. ~Redis' /\ backend' \in {"mongo", "dynamo"}
    BY <1>1 DEF Redis
  <2>5. \A id \in DOMAIN rows' :
          /\ rows'[id].deleted = "no" => rows'[id].c # 0
          /\ rows'[id].deleted = "yes" => id \in marking'
          /\ id \in marked' => rows'[id].deleted # "no"
    <3>1. n \notin marked /\ ~Redis
      BY <1>1, <1>3, <1>4 DEF Redis
    <3> QED BY <1>0, <1>1, <1>3, <1>7, <1>8, <3>1 DEF RowsAgree
  <2>6. marking' \subseteq Known' /\ marked' \subseteq marking'
    BY <1>1, <1>4, <1>9
  <2> QED BY <2>1, <2>2, <2>3, <2>4, <2>5, <2>6 DEF RowsAgree
<1>12. Served'
  BY <1>0, <1>1, <1>7 DEF Served, AnswersApart
<1>13. NothingLeft'
  BY <1>0, <1>1, <1>7 DEF NothingLeft
<1>14. Rely(p)
  <2>1. /\ counter' \in Nat /\ counter <= counter' /\ inserts' \in Nat /\ inserts <= inserts'
    BY <1>0, <1>1, <1>3 DEF n
  <2>2. Marked' \subseteq Marked
    <3> SUFFICES ASSUME NEW id \in DOMAIN rows', rows'[id].deleted = "yes" PROVE id \in Marked
      BY DEF Marked
    <3> QED BY <1>7, <1>8 DEF Marked
  <2> QED BY <1>1, <1>2, <1>7, <2>1, <2>2 DEF Rely
<1>15. pc'[p] = l /\ loc'[p] = v
  BY <1>0, <1>1
<1>16. InsertOwn(p)'
  <2>1. /\ p \in Inserters[backend'] /\ v.c \in 1..inserts' /\ (\A x \in told' : x[1] # v.c)
        /\ v.id \in 1..counter' /\ v.id \notin Known'
        /\ v.id \in DOMAIN rows' /\ rows'[v.id] = [c |-> v.c, deleted |-> "no"]
        /\ \A y \in answers' : y[1] = v.id => y[2] = v.c
    BY <1>1, <1>3, <1>4, <1>5, <1>7, <1>9 DEF row
  <2>2. /\ l = "insert session" /\ AnswersApart' => <<v.id, v.c>> \in answers'
        /\ l # "counter get"
        /\ l \in {"insert answers", "clear sessions", "clear rows"} => backend' = "mongo"
        /\ l = "insert session" => backend' \in {"mongo", "dynamo"}
        /\ l \notin {"counter get", "execute", "mark save"}
    BY <1>1, <1>6 DEF AnswersApart
  <2> QED BY <1>15, <2>1, <2>2 DEF InsertOwn
<1>17. GetOwn(p)' /\ MarkOwn(p)'
  BY <1>5, <1>6, <1>15 DEF GetOwn, MarkOwn, Getting, Clears
<1>18. ResultOwn(p)'
  BY <1>1, <1>14, ResultOthers
<1>19. /\ l \in Inserting => pc[p] \in Inserting /\ v.c = loc[p].c
       /\ l \in Given => v.id = counter + 1
  BY <1>2, <1>5 DEF c, n
<1> QED BY <1>0, <1>1, <1>5, <1>6, <1>9, <1>10, <1>11, <1>12, <1>13, <1>14, <1>16, <1>17,
           <1>18, <1>19, Combine

\* MongoDB's answers go under the id of the row.
LEMMA InsertsAnswers ==
    ASSUME StoreInv, SingleRedisInserter, NEW p \in Processes, InsertAnswers(p)
    PROVE  StoreInv'
<1> DEFINE k == loc[p].id
           c == loc[p].c
<1>0. /\ pc \in [Processes -> Labels] /\ loc \in [Processes -> LocType]
      /\ result \in [Processes -> ResultType]
      /\ backend \in Backends /\ counter \in Nat /\ inserts \in Nat
      /\ TableTypes /\ OneEach /\ RowsAgree /\ Served /\ NothingLeft
  BY CallKinds
<1>15. pc[p] = "insert answers" /\ pc' = [pc EXCEPT ![p] = "insert session"] /\ loc' = loc
  BY DEF InsertAnswers, At, Goto
<1>1. /\ answers' = answers \cup {<<k, c>>}
      /\ UNCHANGED <<backend, rows, sessions, counter, result, inserts>>
      /\ told' = told /\ marking' = marking /\ marked' = marked /\ raced' = raced
  BY DEF InsertAnswers, aux
<1>2. pc[p] \in Inserting /\ pc[p] \in Given
  BY <1>15 DEF Inserting, Given
<1>3. /\ c \in 1..inserts /\ loc[p] \in LocType /\ loc[p].ids = {}
      /\ (\A x \in told : x[1] # c) /\ k \in 1..counter /\ k \notin Known
  BY <1>2, InsertFacts
<1>4. /\ k \in DOMAIN rows /\ rows[k] = [c |-> c, deleted |-> "no"] /\ backend = "mongo"
      /\ \A y \in answers : y[1] = k => y[2] = c
      /\ p \in Inserters[backend] /\ marking \subseteq Known
  BY <1>2, <1>15, InvParts DEF InsertOwn
<1>5. loc' = [loc EXCEPT ![p] = loc[p]] /\ Known' = Known
  BY <1>0, <1>1, <1>15 DEF Known
<1> HIDE DEF k, c
<1>6. TableTypes'
  <2>1. answers' \subseteq (1..counter') \X (1..inserts')
    BY <1>0, <1>1, <1>3 DEF TableTypes
  <2> QED BY <1>0, <1>1, <2>1 DEF TableTypes
<1>7. RowsAgree'
  <2>1. \A x \in told' : \A y \in answers' : y[1] = x[2] => y[2] = x[1]
    <3>1. \A x \in told : x[2] # k
      BY <1>3 DEF Known
    <3> QED BY <1>0, <1>1, <3>1 DEF RowsAgree
  <2>2. AnswersApart'
    BY <1>1, <1>4 DEF AnswersApart
  <2> QED BY <1>0, <1>1, <1>5, <2>1, <2>2 DEF RowsAgree, Redis
<1>8. OneEach' /\ Served' /\ NothingLeft'
  BY <1>0, <1>1, <1>4 DEF OneEach, Served, NothingLeft, AnswersApart
<1>9. Rely(p)
  <2>1. counter <= counter /\ inserts <= inserts
    BY <1>0
  <2>2. answers \subseteq answers' /\ \A y \in answers' \ answers : y[1] = k
    BY <1>1
  <2>3. backend' = backend /\ counter' = counter /\ inserts' = inserts /\ rows' = rows
        /\ sessions' = sessions
    BY <1>1
  <2>4. told' = told /\ marking' = marking /\ marked' = marked /\ raced' = raced
    BY <1>1
  <2> QED BY <1>0, <1>15, <2>1, <2>2, <2>3, <2>4 DEF Rely, Marked, k
<1>10. pc'[p] = "insert session" /\ loc'[p] = loc[p]
  BY <1>0, <1>1, <1>15
<1>11. InsertOwn(p)'
  <2>1. /\ k \in DOMAIN rows' /\ rows'[k] = [c |-> c, deleted |-> "no"]
        /\ (\A y \in answers' : y[1] = k => y[2] = c) /\ <<k, c>> \in answers'
        /\ p \in Inserters[backend'] /\ backend' = "mongo"
        /\ c \in 1..inserts' /\ (\A x \in told' : x[1] # c)
        /\ k \in 1..counter' /\ k \notin Known'
    BY <1>1, <1>3, <1>4, <1>5
  <2> QED BY <1>10, <2>1 DEF InsertOwn, k, c
<1>12. GetOwn(p)' /\ MarkOwn(p)'
  BY <1>3, <1>10 DEF GetOwn, MarkOwn, Getting, Clears
<1>13. ResultOwn(p)'
  BY <1>1, <1>9, ResultOthers
<1>14. "insert session" \in Labels
  BY DEF Labels, Inserting
<1> QED BY <1>0, <1>1, <1>15, <1>2, <1>3, <1>5, <1>6, <1>7, <1>8, <1>9, <1>11, <1>12, <1>13, <1>14,
           Combine

\* The row is there, its session is joined, and its id is returned.
LEMMA InsertEnds ==
    ASSUME StoreInv, SingleRedisInserter, NEW p \in Processes,
           InsertSession(p) \/ Execute(p)
    PROVE  StoreInv'
<1> DEFINE k == loc[p].id
           c == loc[p].c
           row == [c |-> c, deleted |-> "no"]
           link == Linked(k, loc[p].s)
<1>0. /\ pc \in [Processes -> Labels] /\ loc \in [Processes -> LocType]
      /\ result \in [Processes -> ResultType]
      /\ backend \in Backends /\ counter \in Nat /\ inserts \in Nat
      /\ TableTypes /\ OneEach /\ RowsAgree /\ Served /\ NothingLeft
  BY CallKinds
<1>1. /\ sessions' = sessions \cup link /\ told' = told \cup {<<c, k>>}
      /\ backend' = backend /\ answers' = answers /\ counter' = counter /\ inserts' = inserts
      /\ marking' = marking /\ marked' = marked /\ raced' = raced
  BY DEF InsertSession, Execute, Tell
<1>2. /\ pc[p] \in {"insert session", "execute"} /\ Done(p) /\ result' = result
      /\ pc[p] = "insert session" => rows' = rows
      /\ pc[p] = "execute" => rows' = Put(rows, k, row)
  BY DEF InsertSession, Execute, At
<1>3. pc[p] \in Inserting /\ pc[p] \in Given
  BY <1>2 DEF Inserting, Given
<1>4. /\ c \in 1..inserts /\ c \in Nat /\ c # 0 /\ loc[p] \in LocType
      /\ (\A x \in told : x[1] # c) /\ k \in 1..counter /\ k \notin Known
      /\ link \subseteq {k} \X Sessions
  <2>1. loc[p] \in LocType
    BY <1>0
  <2>2. loc[p].s \in Sessions \cup {NoSession}
    BY <2>1 DEF LocType
  <2> QED BY <1>0, <1>3, <2>2, InsertFacts
<1>5. /\ p \in Inserters[backend] /\ marking \subseteq Known /\ marked \subseteq marking
      /\ pc[p] = "insert session" => /\ k \in DOMAIN rows /\ rows[k] = row
                                     /\ \A y \in answers : y[1] = k => y[2] = c
                                     /\ AnswersApart => <<k, c>> \in answers
                                     /\ backend \in {"mongo", "dynamo"}
      /\ pc[p] = "execute" => Redis
  BY <1>3, InvParts DEF InsertOwn
<1> HIDE DEF k, c, row, link
<1>6. /\ Redis => answers = {} /\ ~AnswersApart /\ backend # "dynamo"
      /\ Redis \/ rows' = rows
      /\ (\A y \in answers : y[1] = k => y[2] = c) /\ (AnswersApart => <<k, c>> \in answers)
  BY <1>0, <1>2, <1>5 DEF RowsAgree, AnswersApart, Redis
<1>7. /\ DOMAIN rows' = DOMAIN rows \cup {k} /\ rows'[k] = row
      /\ \A j \in DOMAIN rows : j # k => rows'[j] = rows[j]
  <2>1. CASE pc[p] = "insert session"
    BY <1>2, <1>5, <2>1
  <2>2. CASE pc[p] = "execute"
    <3>1. rows' = Put(rows, k, row)
      BY <1>2, <2>2
    <3> QED BY <3>1 DEF Put
  <2> QED BY <1>2, <2>1, <2>2
<1>8. row.c = c /\ row.deleted = "no" /\ row \in RowType /\ row.c <= inserts
  <2>1. row.c = c /\ row.deleted = "no" /\ row \in RowType
    BY <1>4 DEF row, RowType
  <2> QED BY <1>0, <1>4, <2>1
<1>9. OneEach' /\ Known' = Known \cup {k}
  BY <1>1, <1>4, Tells
<1>10. \A x \in told : x[2] # k
  BY <1>4 DEF Known
<1>11. TableTypes'
  <2>1. \A id \in DOMAIN rows' : rows'[id] \in RowType /\ rows'[id].c <= inserts'
    BY <1>0, <1>1, <1>7, <1>8 DEF TableTypes
  <2>2. sessions' \subseteq (1..counter') \X Sessions
    BY <1>0, <1>1, <1>4 DEF TableTypes
  <2>3. told' \subseteq (1..inserts') \X (1..counter')
    BY <1>0, <1>1, <1>4 DEF TableTypes
  <2>4. DOMAIN rows' \subseteq 1..counter'
    BY <1>0, <1>1, <1>4, <1>7 DEF TableTypes
  <2> QED BY <1>0, <1>1, <2>1, <2>2, <2>3, <2>4 DEF TableTypes
<1>12. RowsAgree'
  <2>1. \A x \in told' : x[2] \in DOMAIN rows' => rows'[x[2]].c \in {0, x[1]}
    <3>1. \A x \in told : x[2] \in DOMAIN rows => rows[x[2]].c \in {0, x[1]}
      BY <1>0 DEF RowsAgree
    <3> QED BY <1>1, <1>7, <1>8, <1>10, <3>1
  <2>2. \A x \in told' : \A y \in answers' : y[1] = x[2] => y[2] = x[1]
    <3>1. \A x \in told : \A y \in answers : y[1] = x[2] => y[2] = x[1]
      BY <1>0 DEF RowsAgree
    <3> QED BY <1>1, <1>6, <3>1
  <2>3. (~AnswersApart => answers = {}) /\ backend' = backend /\ answers' = answers
    BY <1>0, <1>1 DEF RowsAgree
  <2>4. \A id \in DOMAIN rows' :
          /\ rows'[id].deleted = "no" => rows'[id].c # 0
          /\ rows'[id].deleted = "yes" => id \in marking'
          /\ backend \notin {"mongo", "dynamo"} => rows'[id].deleted # "unset"
          /\ Redis => rows'[id].c # 0 /\ id \in Known'
          /\ ~Redis /\ id \in marked' => rows'[id].deleted # "no"
    <3> SUFFICES ASSUME NEW id \in DOMAIN rows'
                 PROVE  /\ rows'[id].deleted = "no" => rows'[id].c # 0
                        /\ rows'[id].deleted = "yes" => id \in marking'
                        /\ backend \notin {"mongo", "dynamo"} => rows'[id].deleted # "unset"
                        /\ Redis => rows'[id].c # 0 /\ id \in Known'
                        /\ ~Redis /\ id \in marked' => rows'[id].deleted # "no"
      OBVIOUS
    <3>1. CASE id = k
      <4>1. k \notin marked
        BY <1>4, <1>5
      <4> QED BY <1>1, <1>4, <1>7, <1>8, <1>9, <3>1, <4>1
    <3>2. CASE id # k
      BY <1>0, <1>1, <1>7, <1>9, <3>2 DEF RowsAgree
    <3> QED BY <3>1, <3>2
  <2>5. marking' \subseteq Known' /\ marked' \subseteq marking'
    BY <1>1, <1>5, <1>9
  <2> QED BY <2>1, <2>2, <2>3, <2>4, <2>5 DEF RowsAgree, AnswersApart, Redis
<1>13. Served'
  <2>1. ASSUME NEW x \in told'
        PROVE  \/ x[2] \in marking
               \/ /\ x[2] \in DOMAIN rows' /\ rows'[x[2]] = [c |-> x[1], deleted |-> "no"]
                  /\ AnswersApart => <<x[2], x[1]>> \in answers
    <3>1. CASE x \in told
      BY <1>0, <1>7, <1>10, <3>1 DEF Served
    <3>2. CASE x = <<c, k>>
      BY <1>6, <1>7, <3>2 DEF row
    <3> QED BY <1>1, <3>1, <3>2
  <2> QED BY <1>1, <2>1 DEF Served, AnswersApart
<1>14. NothingLeft'
  <2>1. \A x \in sessions' : x \in sessions \/ x[1] = k
    BY <1>1, <1>4
  <2>2. DOMAIN rows \subseteq DOMAIN rows' /\ k \in DOMAIN rows'
    BY <1>7
  <2> QED BY <1>0, <1>1, <2>1, <2>2 DEF NothingLeft
<1>15. Rely(p)
  <2>1. counter \in Nat /\ counter <= counter /\ inserts \in Nat /\ inserts <= inserts
    BY <1>0
  <2>2. told \subseteq told' /\ \A x \in told' \ told :
           pc[p] \in Inserting /\ x[1] = c /\ pc[p] \in Given /\ x[2] = k
    BY <1>1, <1>3
  <2>3. \A y \in sessions' \ sessions : y[1] \notin marking
    BY <1>1, <1>4, <1>5
  <2>4. /\ AnswersApart \/ backend = "dynamo" => rows' = rows
        /\ AnswersApart => Marked' = Marked
    BY <1>6 DEF Marked
  <2> QED BY <1>1, <2>1, <2>2, <2>3, <2>4 DEF Rely, k, c
<1> QED BY <1>2, <1>9, <1>11, <1>12, <1>13, <1>14, <1>15, EndsCall

\* Redis counts.
LEMMA Counts ==
    ASSUME StoreInv, SingleRedisInserter, NEW p \in Processes, Incr(p)
    PROVE  StoreInv'
<1>0. /\ pc \in [Processes -> Labels] /\ loc \in [Processes -> LocType]
      /\ result \in [Processes -> ResultType]
      /\ backend \in Backends /\ counter \in Nat /\ inserts \in Nat
      /\ TableTypes /\ OneEach /\ RowsAgree /\ Served /\ NothingLeft
  BY CallKinds
<1>1. /\ counter' = counter + 1
      /\ backend' = backend /\ rows' = rows /\ answers' = answers /\ sessions' = sessions
      /\ inserts' = inserts /\ result' = result
      /\ told' = told /\ marking' = marking /\ marked' = marked /\ raced' = raced
  BY DEF Incr, aux
<1>2. /\ pc[p] = "insert" /\ Redis /\ pc' = [pc EXCEPT ![p] = "counter get"]
      /\ loc' = [loc EXCEPT ![p] = loc[p]]
  BY <1>0 DEF Incr, At, Goto
<1>3. pc[p] \in Inserting
  BY <1>2 DEF Inserting
<1>4. /\ loc[p] \in LocType /\ loc[p].c \in 1..inserts /\ loc[p].ids = {}
      /\ (\A x \in told : x[1] # loc[p].c) /\ counter + 1 \notin Known
  BY <1>3, InsertFacts
<1>5. counter + 1 \in Nat \ {0} /\ 1..counter \subseteq 1..(counter + 1) /\ counter <= counter + 1
      /\ inserts <= inserts
  BY <1>0
<1>6. p \in Inserters[backend]
  BY <1>3, InvParts DEF InsertOwn
<1>7. Known' = Known
  BY <1>1 DEF Known
<1>8. TableTypes'
  <2>1. answers \subseteq (1..(counter + 1)) \X (1..inserts)
    BY <1>0, <1>5 DEF TableTypes
  <2>2. sessions \subseteq (1..(counter + 1)) \X Sessions
    BY <1>0, <1>5 DEF TableTypes
  <2>3. told \subseteq (1..inserts) \X (1..(counter + 1))
    BY <1>0, <1>5 DEF TableTypes
  <2>4. DOMAIN rows \subseteq 1..(counter + 1)
    BY <1>0, <1>5 DEF TableTypes
  <2> QED BY <1>0, <1>1, <1>5, <2>1, <2>2, <2>3, <2>4 DEF TableTypes
<1>9. OneEach' /\ Served' /\ NothingLeft'
  BY <1>0, <1>1 DEF OneEach, Served, NothingLeft, AnswersApart
<1>10. RowsAgree'
  BY <1>0, <1>1, <1>7 DEF RowsAgree, AnswersApart, Redis
<1>11. Rely(p)
  BY <1>0, <1>1, <1>3, <1>5 DEF Rely, Marked
<1>12. pc'[p] = "counter get" /\ loc'[p] = loc[p]
  BY <1>0, <1>2
<1>13. InsertOwn(p)'
  BY <1>1, <1>2, <1>4, <1>5, <1>6, <1>7, <1>12 DEF InsertOwn, Given, Redis
<1>14. GetOwn(p)' /\ MarkOwn(p)'
  BY <1>4, <1>12 DEF GetOwn, MarkOwn, Getting, Clears
<1>15. ResultOwn(p)'
  BY <1>1, <1>11, ResultOthers
<1>16. "counter get" \in Labels /\ "counter get" \notin Given
  BY DEF Labels, Inserting, Given
<1> QED BY <1>0, <1>1, <1>2, <1>3, <1>4, <1>8, <1>9, <1>10, <1>11, <1>13, <1>14, <1>15,
           <1>16, Combine

\* A row that is written again, under its id.
RowWritten(k) ==
    /\ k \in Known
    /\ DOMAIN rows \subseteq DOMAIN rows' /\ DOMAIN rows' \subseteq DOMAIN rows \cup {k}
    /\ \A j \in DOMAIN rows : j # k => rows'[j] = rows[j]
    /\ k \notin marking => k \in DOMAIN rows /\ rows'[k] = rows[k]
    /\ backend' = backend /\ answers' = answers /\ sessions' = sessions /\ counter' = counter
    /\ inserts' = inserts /\ told' = told /\ marking' = marking
    /\ marked \subseteq marked' /\ marked' \subseteq marked \cup {k} /\ marked' \subseteq marking
    /\ raced \subseteq raced'

\* What may be written.
RowFits(k, row) ==
    /\ row \in RowType /\ row.c <= inserts
    /\ \A x \in told : x[2] = k => row.c \in {0, x[1]}
    /\ row.deleted = "no" => row.c # 0
    /\ row.deleted = "yes" => k \in marking
    /\ backend \notin {"mongo", "dynamo"} => row.deleted # "unset"
    /\ Redis => row.c # 0
    /\ ~Redis /\ k \in marked' => row.deleted # "no"
    /\ AnswersApart /\ Clearing /\ row.deleted = "yes" => k \in Marked \cup raced'

LEMMA RowKept ==
    ASSUME StoreInv, NEW k \in DOMAIN rows, k \in marked' => k \in marked
    PROVE  RowFits(k, rows[k])
<1>1. TableTypes /\ RowsAgree
  BY DEF StoreInv
<1>2. rows[k].deleted = "yes" => k \in Marked
  BY DEF Marked
<1>3. \A x \in told : x[2] = k => rows[k].c \in {0, x[1]}
  BY <1>1 DEF RowsAgree
<1> QED BY <1>1, <1>2, <1>3 DEF TableTypes, RowsAgree, RowFits

LEMMA WritesRow ==
    ASSUME StoreInv, NEW p \in Processes, NEW k, RowWritten(k),
           k \in DOMAIN rows' => RowFits(k, rows'[k])
    PROVE  Rely(p) /\ TableTypes' /\ OneEach' /\ RowsAgree' /\ Served' /\ NothingLeft'
<1>0. /\ pc \in [Processes -> Labels] /\ loc \in [Processes -> LocType]
      /\ result \in [Processes -> ResultType]
      /\ backend \in Backends /\ counter \in Nat /\ inserts \in Nat
      /\ TableTypes /\ OneEach /\ RowsAgree /\ Served /\ NothingLeft
  BY CallKinds
<1>1. /\ k \in Known
      /\ DOMAIN rows \subseteq DOMAIN rows' /\ DOMAIN rows' \subseteq DOMAIN rows \cup {k}
      /\ \A j \in DOMAIN rows : j # k => rows'[j] = rows[j]
      /\ k \notin marking => k \in DOMAIN rows /\ rows'[k] = rows[k]
      /\ backend' = backend /\ answers' = answers /\ sessions' = sessions /\ counter' = counter
      /\ inserts' = inserts /\ told' = told /\ marking' = marking
      /\ marked \subseteq marked' /\ marked' \subseteq marked \cup {k} /\ marked' \subseteq marking
      /\ raced \subseteq raced'
  BY DEF RowWritten
<1>2. /\ Known' = Known /\ Known \subseteq 1..counter /\ marking \subseteq Known
      /\ counter <= counter /\ inserts <= inserts
  <2>1. Known \subseteq 1..counter /\ marking \subseteq Known
    BY InvParts
  <2> QED BY <1>0, <1>1, <2>1 DEF Known
<1>3. OneEach'
  BY <1>0, <1>1 DEF OneEach
<1>4. TableTypes'
  <2>1. \A id \in DOMAIN rows' : rows'[id] \in RowType /\ rows'[id].c <= inserts
    BY <1>0, <1>1 DEF TableTypes, RowFits
  <2>2. DOMAIN rows' \subseteq 1..counter
    BY <1>0, <1>1, <1>2 DEF TableTypes
  <2> QED BY <1>0, <1>1, <2>1, <2>2 DEF TableTypes
<1>5. RowsAgree'
  <2>1. \A x \in told : x[2] \in DOMAIN rows' => rows'[x[2]].c \in {0, x[1]}
    <3> SUFFICES ASSUME NEW x \in told, x[2] \in DOMAIN rows' PROVE rows'[x[2]].c \in {0, x[1]}
      OBVIOUS
    <3>1. CASE x[2] = k
      BY <3>1 DEF RowFits
    <3>2. CASE x[2] # k
      BY <1>0, <1>1, <3>2 DEF RowsAgree
    <3> QED BY <3>1, <3>2
  <2>2. \A id \in DOMAIN rows' :
          /\ rows'[id].deleted = "no" => rows'[id].c # 0
          /\ rows'[id].deleted = "yes" => id \in marking
          /\ backend \notin {"mongo", "dynamo"} => rows'[id].deleted # "unset"
          /\ Redis => rows'[id].c # 0 /\ id \in Known
          /\ ~Redis /\ id \in marked' => rows'[id].deleted # "no"
    <3> SUFFICES ASSUME NEW id \in DOMAIN rows'
                 PROVE  /\ rows'[id].deleted = "no" => rows'[id].c # 0
                        /\ rows'[id].deleted = "yes" => id \in marking
                        /\ backend \notin {"mongo", "dynamo"} => rows'[id].deleted # "unset"
                        /\ Redis => rows'[id].c # 0 /\ id \in Known
                        /\ ~Redis /\ id \in marked' => rows'[id].deleted # "no"
      OBVIOUS
    <3>1. CASE id = k
      BY <1>1, <3>1 DEF RowFits
    <3>2. CASE id # k
      BY <1>0, <1>1, <3>2 DEF RowsAgree
    <3> QED BY <3>1, <3>2
  <2> QED BY <1>0, <1>1, <1>2, <2>1, <2>2 DEF RowsAgree, AnswersApart, Redis
<1>6. Served'
  <2>1. \A x \in told :
           \/ x[2] \in marking
           \/ /\ x[2] \in DOMAIN rows' /\ rows'[x[2]] = [c |-> x[1], deleted |-> "no"]
              /\ AnswersApart => <<x[2], x[1]>> \in answers
    BY <1>0, <1>1 DEF Served
  <2> QED BY <1>1, <2>1 DEF Served, AnswersApart
<1>7. NothingLeft'
  BY <1>0, <1>1 DEF NothingLeft
<1>8. Rely(p)
  <2>1. \A id \in DOMAIN rows : id \notin marking => id \in DOMAIN rows' /\ rows'[id] = rows[id]
    BY <1>1
  <2>2. ASSUME AnswersApart, Clearing PROVE Marked' \subseteq Marked \cup raced'
    <3> SUFFICES ASSUME NEW id \in DOMAIN rows', rows'[id].deleted = "yes"
                 PROVE  id \in Marked \cup raced'
      BY DEF Marked
    <3>1. CASE id = k
      BY <2>2, <3>1 DEF RowFits
    <3>2. CASE id # k
      BY <1>1, <3>2 DEF Marked
    <3> QED BY <3>1, <3>2
  <2> QED BY <1>0, <1>1, <1>2, <2>1, <2>2 DEF Rely
<1> QED BY <1>3, <1>4, <1>5, <1>6, <1>7, <1>8

\* A get writes last_access: Redis the whole row, as it was read; MongoDB and
\* DynamoDB a row of nothing else, where it is gone.
LEMMA Touches ==
    ASSUME StoreInv, SingleRedisInserter, NEW p \in Processes, Touch(p)
    PROVE  StoreInv'
<1> DEFINE k == loc[p].id
           c == loc[p].c
           row == loc[p].row
<1>0. /\ pc \in [Processes -> Labels] /\ loc \in [Processes -> LocType]
      /\ result \in [Processes -> ResultType]
      /\ backend \in Backends /\ counter \in Nat /\ inserts \in Nat
      /\ TableTypes /\ OneEach /\ RowsAgree /\ Served /\ NothingLeft
  BY CallKinds
<1>1. /\ backend' = backend /\ answers' = answers /\ sessions' = sessions /\ counter' = counter
      /\ inserts' = inserts /\ result' = result
      /\ told' = told /\ marking' = marking /\ marked' = marked /\ raced' = raced
      /\ pc[p] = "touch" /\ pc' = [pc EXCEPT ![p] = "read answers"]
      /\ loc' = [loc EXCEPT ![p] = loc[p]]
  BY <1>0 DEF Touch, At, Goto, aux
<1>2. \/ rows' = rows
      \/ Redis /\ rows' = Put(rows, k, row)
      \/ backend \in {"mongo", "dynamo"} /\ k \notin DOMAIN rows /\ rows' = Put(rows, k, NoRow)
  BY <1>0, StoreFacts DEF Touch
<1>3. /\ <<c, k>> \in told /\ (loc[p].gone => k \in marked) /\ loc[p].ids = {}
      /\ row.c = c /\ row.deleted \in {"no", "yes"}
      /\ row.deleted = "yes" => k \in marking
      /\ loc[p] \in LocType /\ row \in RowType
      /\ marked \subseteq marking
  <2>1. loc[p] \in LocType /\ row \in RowType
    BY <1>0 DEF LocType
  <2> QED BY <1>1, <2>1, InvParts DEF GetOwn, MarkOwn, Getting, Clears
<1>4. k \in Known /\ c \in 1..inserts /\ c # 0 /\ c <= inserts /\ 0 <= inserts
      /\ (\A x \in told : x[2] = k => x[1] = c)
  <2>1. <<c, k>>[2] = k
    OBVIOUS
  <2>2. c \in 1..inserts
    BY <1>0, <1>3 DEF TableTypes
  <2>3. c # 0 /\ c <= inserts /\ 0 <= inserts
    BY <1>0, <2>2
  <2> QED BY <1>0, <1>3, <2>1, <2>2, <2>3 DEF Known, OneEach
<1>5. \/ k \in marking
      \/ k \in DOMAIN rows /\ rows[k] = [c |-> c, deleted |-> "no"]
  BY <1>0, <1>3 DEF Served
<1>6. k \notin marking => row = [c |-> c, deleted |-> "no"]
  BY <1>3 DEF RowType
<1> HIDE DEF k, c, row
<1>7. NoRow \in RowType /\ NoRow.c = 0 /\ NoRow.deleted = "unset"
  BY NoTypes DEF NoRow
<1>8. RowWritten(k) /\ (k \in DOMAIN rows' => RowFits(k, rows'[k]))
  <2>1. CASE rows' = rows
    BY <1>1, <1>3, <1>4, <1>5, <2>1, RowKept DEF RowWritten
  <2>2. CASE Redis /\ rows' = Put(rows, k, row)
    <3>1. /\ DOMAIN rows' = DOMAIN rows \cup {k} /\ rows'[k] = row
          /\ \A j \in DOMAIN rows : j # k => rows'[j] = rows[j]
      BY <2>2 DEF Put
    <3>2. RowFits(k, row)
      BY <1>3, <1>4, <2>2 DEF RowFits, AnswersApart, Redis
    <3> QED BY <1>1, <1>3, <1>4, <1>5, <1>6, <3>1, <3>2 DEF RowWritten
  <2>3. CASE backend \in {"mongo", "dynamo"} /\ k \notin DOMAIN rows /\ rows' = Put(rows, k, NoRow)
    <3>1. /\ DOMAIN rows' = DOMAIN rows \cup {k} /\ rows'[k] = NoRow
          /\ \A j \in DOMAIN rows : j # k => rows'[j] = rows[j]
      BY <2>3 DEF Put
    <3>2. RowFits(k, NoRow)
      BY <1>4, <1>7, <2>3 DEF RowFits, Redis
    <3> QED BY <1>1, <1>3, <1>4, <1>5, <2>3, <3>1, <3>2 DEF RowWritten
  <2> QED BY <1>2, <2>1, <2>2, <2>3
<1>9. Rely(p) /\ TableTypes' /\ OneEach' /\ RowsAgree' /\ Served' /\ NothingLeft'
  BY <1>8, WritesRow
<1>10. pc'[p] = "read answers" /\ loc'[p] = loc[p]
  BY <1>0, <1>1
<1>11. InsertOwn(p)' /\ MarkOwn(p)'
  BY <1>3, <1>10 DEF InsertOwn, MarkOwn, Inserting, Given, Clears
<1>12. GetOwn(p)'
  <2>1. GetOwn(p) /\ pc[p] \in Getting
    BY <1>1, InvParts DEF Getting
  <2>2. told' = told /\ marked' = marked /\ marking' = marking /\ backend' = backend
    BY <1>1
  <2> QED BY <1>1, <1>10, <2>1, <2>2 DEF GetOwn, LooksAtMark
<1>13. ResultOwn(p)'
  BY <1>1, <1>9, ResultOthers
<1>14. "read answers" \in Labels /\ "read answers" \notin Inserting /\ "read answers" \notin Given
  BY DEF Labels, Inserting, Given, Getting
<1> QED BY <1>0, <1>1, <1>3, <1>9, <1>11, <1>12, <1>13, <1>14, Combine

\* A mark is written, to a row or to a copy of it.
LEMMA Marks ==
    ASSUME StoreInv, SingleRedisInserter, NEW p \in Processes, MarkRow(p) \/ MarkSave(p)
    PROVE  StoreInv'
<1> DEFINE k == loc[p].id
           dead == [NoRow EXCEPT !.deleted = "yes"]
           copy == [loc[p].row EXCEPT !.deleted = "yes"]
<1>0. /\ pc \in [Processes -> Labels] /\ loc \in [Processes -> LocType]
      /\ result \in [Processes -> ResultType]
      /\ backend \in Backends /\ counter \in Nat /\ inserts \in Nat
      /\ TableTypes /\ OneEach /\ RowsAgree /\ Served /\ NothingLeft
  BY CallKinds
<1>1. /\ backend' = backend /\ answers' = answers /\ sessions' = sessions /\ counter' = counter
      /\ inserts' = inserts /\ result' = result /\ told' = told /\ marking' = marking
      /\ marked' = marked \cup {k} /\ raced \subseteq raced' /\ (Clearing => k \in raced')
      /\ pc[p] \in {"mark", "mark save"} /\ Done(p)
  BY DEF MarkRow, MarkSave, SetMark, At
<1>2. k \in marking /\ marking \subseteq Known /\ marked \subseteq marking
  BY <1>1, InvParts DEF MarkOwn
<1>3. \/ Redis /\ rows' = rows
      \/ ~Redis /\ k \notin DOMAIN rows /\ rows' = rows
      \/ backend = "dynamo" /\ rows' = Put(rows, k, dead)
      \/ ~Redis /\ k \in DOMAIN rows /\ rows' = [rows EXCEPT ![k].deleted = "yes"]
      \/ /\ Redis /\ rows' = Put(rows, k, copy)
         /\ <<loc[p].row.c, k>> \in told
  <2>1. CASE MarkRow(p)
    BY <2>1 DEF MarkRow, SetMark
  <2>2. CASE MarkSave(p)
    <3>1. pc[p] = "mark save"
      BY <2>2 DEF MarkSave, At
    <3>2. /\ loc[p].row = NoRow \/ <<loc[p].row.c, k>> \in told
          /\ Redis
      BY <3>1, InvParts DEF MarkOwn, InsertOwn
    <3> QED BY <2>2, <3>2 DEF MarkSave, SetMark
  <2> QED BY <2>1, <2>2
<1>4. /\ dead \in RowType /\ dead.c = 0 /\ dead.deleted = "yes"
      /\ copy \in RowType /\ copy.c = loc[p].row.c /\ copy.deleted = "yes"
  <2>1. loc[p] \in LocType
    BY <1>0
  <2>2. loc[p].row \in RowType
    BY <2>1 DEF LocType
  <2> QED BY <2>2, NoTypes DEF RowType, NoRow
<1> DEFINE c == loc[p].row.c
<1>5. 0 <= inserts /\ (<<c, k>> \in told => c \in 1..inserts /\ c # 0 /\ c <= inserts)
  <2>1. <<c, k>> \in told => c \in 1..inserts
    BY <1>0 DEF TableTypes
  <2> QED BY <1>0, <2>1
<1>6. <<c, k>> \in told => \A x \in told : x[2] = k => x[1] = c
  BY <1>0 DEF OneEach
<1> HIDE DEF k, dead, copy, c
<1>7. RowWritten(k) /\ (k \in DOMAIN rows' => RowFits(k, rows'[k]))
  <2>0. /\ k \in Known /\ marked \subseteq marked' /\ marked' \subseteq marked \cup {k}
        /\ marked' \subseteq marking
    BY <1>1, <1>2
  <2>1. CASE Redis /\ rows' = rows
    <3>1. k \in DOMAIN rows => RowFits(k, rows[k])
      <4> SUFFICES ASSUME k \in DOMAIN rows PROVE RowFits(k, rows[k])
        OBVIOUS
      <4>1. rows[k].deleted = "yes" => k \in Marked
        BY DEF Marked
      <4>2. \A x \in told : x[2] = k => rows[k].c \in {0, x[1]}
        BY <1>0 DEF RowsAgree
      <4> QED BY <1>0, <2>1, <4>1, <4>2 DEF TableTypes, RowsAgree, RowFits
    <3> QED BY <1>1, <1>2, <2>0, <2>1, <3>1 DEF RowWritten
  <2>2. CASE ~Redis /\ k \notin DOMAIN rows /\ rows' = rows
    BY <1>1, <1>2, <2>0, <2>2 DEF RowWritten
  <2>3. CASE backend = "dynamo" /\ rows' = Put(rows, k, dead)
    <3>1. /\ DOMAIN rows' = DOMAIN rows \cup {k} /\ rows'[k] = dead
          /\ \A j \in DOMAIN rows : j # k => rows'[j] = rows[j]
      BY <2>3 DEF Put
    <3>2. RowFits(k, dead)
      BY <1>1, <1>2, <1>4, <1>5, <2>3 DEF RowFits, Redis
    <3> QED BY <1>1, <1>2, <2>0, <3>1, <3>2 DEF RowWritten
  <2>4. CASE ~Redis /\ k \in DOMAIN rows /\ rows' = [rows EXCEPT ![k].deleted = "yes"]
    <3>1. rows[k] \in RowType /\ rows[k].c <= inserts /\ \A x \in told : x[2] = k => rows[k].c \in {0, x[1]}
      BY <1>0, <2>4 DEF TableTypes, RowsAgree
    <3>2. /\ DOMAIN rows' = DOMAIN rows /\ rows'[k] = [rows[k] EXCEPT !.deleted = "yes"]
          /\ \A j \in DOMAIN rows : j # k => rows'[j] = rows[j]
      BY <2>4
    <3>3. rows'[k] \in RowType /\ rows'[k].c = rows[k].c /\ rows'[k].deleted = "yes"
      BY <3>1, <3>2 DEF RowType
    <3>4. RowFits(k, rows'[k])
      BY <1>1, <1>2, <2>4, <3>1, <3>3 DEF RowFits
    <3> QED BY <1>1, <1>2, <2>0, <3>2, <3>4 DEF RowWritten
  <2>5. CASE Redis /\ rows' = Put(rows, k, copy) /\ <<c, k>> \in told
    <3>1. /\ DOMAIN rows' = DOMAIN rows \cup {k} /\ rows'[k] = copy
          /\ \A j \in DOMAIN rows : j # k => rows'[j] = rows[j]
      BY <2>5 DEF Put
    <3>2. copy.c = c
      BY <1>4 DEF c
    <3>3. RowFits(k, copy)
      BY <1>1, <1>2, <1>4, <1>5, <1>6, <2>5, <3>2 DEF RowFits
    <3> QED BY <1>1, <1>2, <2>0, <3>1, <3>3 DEF RowWritten
  <2> QED BY <1>3, <2>1, <2>2, <2>3, <2>4, <2>5 DEF c
<1>8. Rely(p) /\ TableTypes' /\ OneEach' /\ RowsAgree' /\ Served' /\ NothingLeft'
  BY <1>7, WritesRow
<1> QED BY <1>1, <1>8, EndsCall

\* Rows R, and with them answers and sessions, go.
Removed(R) ==
    /\ DOMAIN rows' = DOMAIN rows \ R /\ \A j \in DOMAIN rows \ R : rows'[j] = rows[j]
    /\ backend' = backend /\ counter' = counter /\ inserts' = inserts
    /\ told' = told /\ marked' = marked
    /\ R \subseteq marking' /\ marking \subseteq marking' /\ marking' \subseteq Known
    /\ (AnswersApart \/ backend = "dynamo" => R \subseteq marking)
    /\ answers' \subseteq answers /\ \A y \in answers : y[1] \notin marking => y \in answers'
    /\ sessions' \subseteq sessions /\ raced \subseteq raced'
    /\ \A y \in answers' : y[1] \in R => y[1] \in raced'
    /\ backend # "dynamo" => \A y \in sessions' : y[1] \in R => y[1] \in raced'

LEMMA Removes ==
    ASSUME StoreInv, NEW p, NEW R, Removed(R)
    PROVE  Rely(p) /\ TableTypes' /\ OneEach' /\ RowsAgree' /\ Served' /\ NothingLeft'
<1>0. /\ pc \in [Processes -> Labels] /\ loc \in [Processes -> LocType]
      /\ result \in [Processes -> ResultType]
      /\ backend \in Backends /\ counter \in Nat /\ inserts \in Nat
      /\ TableTypes /\ OneEach /\ RowsAgree /\ Served /\ NothingLeft
  BY CallKinds
<1>1. /\ DOMAIN rows' = DOMAIN rows \ R /\ \A j \in DOMAIN rows \ R : rows'[j] = rows[j]
      /\ backend' = backend /\ counter' = counter /\ inserts' = inserts
      /\ told' = told /\ marked' = marked
      /\ R \subseteq marking' /\ marking \subseteq marking' /\ marking' \subseteq Known
      /\ (AnswersApart \/ backend = "dynamo" => R \subseteq marking)
      /\ answers' \subseteq answers /\ \A y \in answers : y[1] \notin marking => y \in answers'
      /\ sessions' \subseteq sessions /\ raced \subseteq raced'
      /\ \A y \in answers' : y[1] \in R => y[1] \in raced'
      /\ backend # "dynamo" => \A y \in sessions' : y[1] \in R => y[1] \in raced'
  BY DEF Removed
<1>2. Known' = Known /\ marked \subseteq marking /\ counter <= counter /\ inserts <= inserts
  <2>1. marked \subseteq marking
    BY <1>0 DEF RowsAgree
  <2> QED BY <1>0, <1>1, <2>1 DEF Known
<1>3. OneEach'
  BY <1>0, <1>1 DEF OneEach
<1>4. TableTypes'
  BY <1>0, <1>1 DEF TableTypes
<1>5. RowsAgree'
  <2>1. \A x \in told : x[2] \in DOMAIN rows' => rows'[x[2]].c \in {0, x[1]}
    BY <1>0, <1>1 DEF RowsAgree
  <2>2. \A id \in DOMAIN rows' :
          /\ rows'[id].deleted = "no" => rows'[id].c # 0
          /\ rows'[id].deleted = "yes" => id \in marking'
          /\ backend \notin {"mongo", "dynamo"} => rows'[id].deleted # "unset"
          /\ Redis => rows'[id].c # 0 /\ id \in Known
          /\ ~Redis /\ id \in marked => rows'[id].deleted # "no"
    BY <1>0, <1>1 DEF RowsAgree
  <2>3. \A x \in told : \A y \in answers' : y[1] = x[2] => y[2] = x[1]
    BY <1>0, <1>1 DEF RowsAgree
  <2>4. ~AnswersApart => answers' = {}
    BY <1>0, <1>1 DEF RowsAgree
  <2>5. marked' \subseteq marking'
    BY <1>1, <1>2
  <2> QED BY <1>1, <1>2, <2>1, <2>2, <2>3, <2>4, <2>5 DEF RowsAgree, AnswersApart, Redis
<1>6. Served'
  <2>1. \A x \in told :
           \/ x[2] \in marking'
           \/ /\ x[2] \in DOMAIN rows' /\ rows'[x[2]] = [c |-> x[1], deleted |-> "no"]
              /\ AnswersApart => <<x[2], x[1]>> \in answers'
    <3> SUFFICES ASSUME NEW x \in told, x[2] \notin marking'
                 PROVE  /\ x[2] \in DOMAIN rows' /\ rows'[x[2]] = [c |-> x[1], deleted |-> "no"]
                        /\ AnswersApart => <<x[2], x[1]>> \in answers'
      OBVIOUS
    <3>1. /\ x[2] \in DOMAIN rows /\ rows[x[2]] = [c |-> x[1], deleted |-> "no"]
          /\ AnswersApart => <<x[2], x[1]>> \in answers
          /\ x[2] \notin marking
      BY <1>0, <1>1 DEF Served
    <3>2. <<x[2], x[1]>> \in answers => <<x[2], x[1]>> \in answers'
      BY <1>1, <3>1
    <3> QED BY <1>1, <3>1, <3>2
  <2> QED BY <1>1, <2>1 DEF Served, AnswersApart
<1>7. NothingLeft'
  BY <1>0, <1>1 DEF NothingLeft
<1>8. Rely(p)
  <2>1. /\ AnswersApart \/ backend = "dynamo" => \A id \in DOMAIN rows :
              id \notin marking => id \in DOMAIN rows' /\ rows'[id] = rows[id]
    BY <1>1
  <2>2. Marked' \subseteq Marked
    BY <1>1 DEF Marked
  <2> QED BY <1>0, <1>1, <1>2, <2>1, <2>2 DEF Rely
<1> QED BY <1>3, <1>4, <1>5, <1>6, <1>7, <1>8

\* The last step of a clear takes the rows: those that are marked by now, in SQL
\* and MongoDB, those it found, in Redis and DynamoDB.
LEMMA ClearEnds ==
    ASSUME StoreInv, SingleRedisInserter, NEW p \in Processes,
           ClearSql(p) \/ ClearMongoRows(p) \/ ClearFound(p)
    PROVE  StoreInv'
<1> DEFINE ids == loc[p].ids
<1>0. /\ pc \in [Processes -> Labels] /\ loc \in [Processes -> LocType]
      /\ result \in [Processes -> ResultType]
      /\ backend \in Backends /\ counter \in Nat /\ inserts \in Nat
      /\ TableTypes /\ OneEach /\ RowsAgree /\ Served /\ NothingLeft
  BY CallKinds
<1>1. /\ backend' = backend /\ counter' = counter /\ inserts' = inserts /\ result' = result
      /\ told' = told /\ marking' = marking /\ marked' = marked /\ raced' = raced
      /\ Done(p) /\ pc[p] \in {"clear", "clear rows"}
  BY DEF ClearSql, ClearMongoRows, ClearFound, At, aux
<1>2. /\ ids \subseteq marking /\ marking \subseteq Known
      /\ AnswersApart => Marked \subseteq ids \cup raced
      /\ pc[p] = "clear rows" =>
            /\ backend = "mongo"
            /\ \A y \in answers : y[1] \notin ids
            /\ \A y \in sessions : y[1] \in ids => y[1] \in raced
  BY <1>1, InvParts DEF MarkOwn, InsertOwn, Clears
<1>3. Marked \subseteq marking /\ (~AnswersApart => answers = {})
  BY <1>0 DEF Marked, RowsAgree
<1>4. /\ Embedded <=> ~AnswersApart
      /\ Store.sessions = "cleared" <=> backend # "dynamo"
  BY <1>0, StoreFacts
<1>5. \E R : Removed(R)
  <2>1. CASE ClearSql(p)
    <3>1. /\ backend = "sql" /\ answers' = Apart(ids) /\ sessions' = NotJoined(ids)
          /\ rows' = Without(rows, Marked)
      BY <2>1 DEF ClearSql
    <3>2. AnswersApart
      BY <3>1 DEF AnswersApart
    <3>3. /\ DOMAIN rows' = DOMAIN rows \ Marked
          /\ \A j \in DOMAIN rows \ Marked : rows'[j] = rows[j]
      BY <3>1 DEF Without, Restrict
    <3>4. /\ answers' \subseteq answers /\ \A y \in answers' : y[1] \notin ids
          /\ \A y \in answers : y[1] \notin ids => y \in answers'
      BY <3>1 DEF Apart
    <3>5. sessions' \subseteq sessions /\ \A y \in sessions' : y[1] \notin ids
      BY <3>1 DEF NotJoined
    <3> QED BY <1>1, <1>2, <1>3, <3>2, <3>3, <3>4, <3>5 DEF Removed
  <2>2. CASE ClearMongoRows(p)
    <3>1. /\ pc[p] = "clear rows" /\ answers' = answers /\ sessions' = sessions
          /\ rows' = Without(rows, Marked)
      BY <2>2 DEF ClearMongoRows, At
    <3>2. AnswersApart
      BY <1>2, <3>1 DEF AnswersApart
    <3>3. /\ DOMAIN rows' = DOMAIN rows \ Marked
          /\ \A j \in DOMAIN rows \ Marked : rows'[j] = rows[j]
      BY <3>1 DEF Without, Restrict
    <3> QED BY <1>1, <1>2, <1>3, <3>1, <3>2, <3>3 DEF Removed
  <2>3. CASE ClearFound(p)
    <3>1. /\ Embedded /\ answers' = answers
          /\ sessions' = IF Store.sessions = "cleared" THEN NotJoined(ids) ELSE sessions
          /\ rows' = Without(rows, ids)
      BY <2>3 DEF ClearFound
    <3>2. answers = {}
      BY <1>3, <1>4, <3>1
    <3>3. /\ DOMAIN rows' = DOMAIN rows \ ids
          /\ \A j \in DOMAIN rows \ ids : rows'[j] = rows[j]
      BY <3>1 DEF Without, Restrict
    <3>4. /\ sessions' \subseteq sessions
          /\ backend # "dynamo" => \A y \in sessions' : y[1] \notin ids
      BY <1>4, <3>1 DEF NotJoined
    <3> QED BY <1>1, <1>2, <1>3, <3>1, <3>2, <3>3, <3>4 DEF Removed
  <2> QED BY <2>1, <2>2, <2>3
<1>6. PICK R : Removed(R)
  BY <1>5
<1>7. Rely(p) /\ TableTypes' /\ OneEach' /\ RowsAgree' /\ Served' /\ NothingLeft'
  BY <1>6, Removes
<1> QED BY <1>1, <1>7, EndsCall

\* MongoDB's clear takes the answers, then the sessions, of the rows it found.
LEMMA ClearGoesOn ==
    ASSUME StoreInv, SingleRedisInserter, NEW p \in Processes,
           ClearMongoAnswers(p) \/ ClearMongoSessions(p)
    PROVE  StoreInv'
<1> DEFINE ids == loc[p].ids
<1>0. /\ pc \in [Processes -> Labels] /\ loc \in [Processes -> LocType]
      /\ result \in [Processes -> ResultType]
      /\ backend \in Backends /\ counter \in Nat /\ inserts \in Nat
      /\ TableTypes /\ OneEach /\ RowsAgree /\ Served /\ NothingLeft
  BY CallKinds
<1>1. /\ backend' = backend /\ counter' = counter /\ inserts' = inserts /\ result' = result
      /\ told' = told /\ marking' = marking /\ marked' = marked /\ raced' = raced
      /\ rows' = rows /\ pc[p] \in {"clear", "clear sessions"} /\ backend = "mongo"
      /\ loc' = [loc EXCEPT ![p] = loc[p]]
  <2>1. ClearMongoSessions(p) => pc[p] = "clear sessions"
    BY DEF ClearMongoSessions, At
  <2>2. pc[p] = "clear sessions" => backend = "mongo"
    BY InvParts DEF InsertOwn
  <2> QED BY <1>0, <2>1, <2>2 DEF ClearMongoAnswers, ClearMongoSessions, At, aux
<1>2. /\ ids \subseteq marking /\ marking \subseteq Known /\ loc[p] \in LocType
      /\ AnswersApart => Marked \subseteq ids \cup raced
      /\ pc[p] = "clear sessions" => \A y \in answers : y[1] \notin ids
  BY <1>0, <1>1, InvParts DEF MarkOwn, Clears
<1>3. PICK l \in {"clear sessions", "clear rows"} :
         /\ pc' = [pc EXCEPT ![p] = l]
         /\ answers' \subseteq answers /\ sessions' \subseteq sessions
         /\ \A y \in answers : y[1] \notin ids => y \in answers'
         /\ \A y \in answers' : y[1] \notin ids
         /\ l = "clear rows" => \A y \in sessions' : y[1] \notin ids
  <2>1. CASE ClearMongoAnswers(p)
    <3>1. pc' = [pc EXCEPT ![p] = "clear sessions"] /\ sessions' = sessions
      BY <2>1 DEF ClearMongoAnswers, Goto
    <3>2. answers' = Apart(ids)
      BY <2>1 DEF ClearMongoAnswers
    <3>3. /\ answers' \subseteq answers /\ \A y \in answers' : y[1] \notin ids
          /\ \A y \in answers : y[1] \notin ids => y \in answers'
      BY <3>2 DEF Apart
    <3> QED BY <3>1, <3>3
  <2>2. CASE ClearMongoSessions(p)
    <3>1. pc' = [pc EXCEPT ![p] = "clear rows"] /\ answers' = answers
          /\ pc[p] = "clear sessions"
      BY <2>2 DEF ClearMongoSessions, Goto, At
    <3>2. sessions' = NotJoined(ids)
      BY <2>2 DEF ClearMongoSessions
    <3>3. sessions' \subseteq sessions /\ \A y \in sessions' : y[1] \notin ids
      BY <3>2 DEF NotJoined
    <3> QED BY <1>2, <3>1, <3>3
  <2> QED BY <2>1, <2>2
<1> HIDE DEF ids
<1>4. Removed({})
  BY <1>1, <1>2, <1>3 DEF Removed
<1>5. Rely(p) /\ TableTypes' /\ OneEach' /\ RowsAgree' /\ Served' /\ NothingLeft'
  BY <1>4, Removes
<1>6. pc'[p] = l /\ loc'[p] = loc[p] /\ l \in Labels /\ l \notin Inserting /\ l \notin Given
  BY <1>0, <1>1, <1>3 DEF Labels, Clears, Inserting, Given
<1>7. InsertOwn(p)' /\ GetOwn(p)'
  BY <1>1, <1>3, <1>6 DEF InsertOwn, GetOwn, Inserting, Given, Getting
<1>8. MarkOwn(p)'
  <2>1. Marked' = Marked /\ AnswersApart' = AnswersApart
    BY <1>1 DEF Marked, AnswersApart
  <2> QED BY <1>1, <1>2, <1>3, <1>6, <2>1 DEF MarkOwn, Clears, ids
<1>9. ResultOwn(p)'
  BY <1>1, <1>5, ResultOthers
<1> QED BY <1>0, <1>1, <1>2, <1>3, <1>5, <1>6, <1>7, <1>8, <1>9, Combine

\* Redis drops a row; delete_session takes sessions.
LEMMA Drops ==
    ASSUME StoreInv, SingleRedisInserter,
           \/ \E id \in DOMAIN rows : Expire(id)
           \/ \E p \in Processes, s \in Sessions : DeleteSession(p, s)
    PROVE  StoreInv'
<1>0. /\ pc \in [Processes -> Labels] /\ loc \in [Processes -> LocType]
      /\ result \in [Processes -> ResultType]
      /\ backend \in Backends /\ counter \in Nat /\ inserts \in Nat
      /\ TableTypes /\ OneEach /\ RowsAgree /\ Served /\ NothingLeft
  BY CallKinds
<1>1. /\ pc' = pc /\ loc' = loc /\ result' = result
      /\ backend' = backend /\ counter' = counter /\ inserts' = inserts
      /\ told' = told /\ marked' = marked /\ answers' = answers
  BY DEF Expire, DeleteSession, aux
<1>2. marking \subseteq Known /\ (~AnswersApart => answers = {})
  BY <1>0 DEF RowsAgree
<1>3. \E R : Removed(R)
  <2>1. CASE \E id \in DOMAIN rows : Expire(id)
    <3>1. PICK id \in DOMAIN rows : Expire(id)
      BY <2>1
    <3>2. /\ Store.expires /\ rows' = Without(rows, {id}) /\ sessions' = sessions
          /\ marking' = marking \cup {id} /\ raced' = raced \cup {id}
      BY <3>1 DEF Expire
    <3>3. /\ DOMAIN rows' = DOMAIN rows \ {id}
          /\ \A j \in DOMAIN rows \ {id} : rows'[j] = rows[j]
      BY <3>2 DEF Without, Restrict
    <3>4. backend = "redis_ttl"
      BY <1>0, <3>2, StoreFacts
    <3>5. id \in Known /\ ~AnswersApart
      BY <1>0, <3>4 DEF RowsAgree, Redis, AnswersApart
    <3> QED BY <1>1, <1>2, <3>2, <3>3, <3>4, <3>5 DEF Removed
  <2>2. CASE \E p \in Processes, s \in Sessions : DeleteSession(p, s)
    <3>1. /\ rows' = rows /\ marking' = marking /\ raced' = raced
          /\ sessions' \subseteq sessions
      BY <2>2 DEF DeleteSession, aux
    <3>2. Removed({})
      BY <1>1, <1>2, <3>1 DEF Removed
    <3> QED BY <3>2
  <2> QED BY <2>1, <2>2
<1>4. PICK R : Removed(R)
  BY <1>3
<1>5. TableTypes' /\ OneEach' /\ RowsAgree' /\ Served' /\ NothingLeft' /\ \A p : Rely(p)
  BY <1>4, Removes
<1>6. CASE \E p \in Processes : TRUE
  BY <1>1, <1>5, <1>6, NoCall
<1>7. CASE Processes = {}
  BY <1>0, <1>1, <1>5, <1>7 DEF StoreInv, CallTypes
<1> QED BY <1>6, <1>7

\* A session joins a row; nothing ties it to the row.
LEMMA Joins ==
    ASSUME StoreInv, SingleRedisInserter, NEW p \in Processes, NEW x \in told,
           NEW s \in Sessions, AddSession(p, x[2], s)
    PROVE  StoreInv'
<1> DEFINE k == x[2]
<1>0. /\ pc \in [Processes -> Labels] /\ loc \in [Processes -> LocType]
      /\ result \in [Processes -> ResultType]
      /\ backend \in Backends /\ counter \in Nat /\ inserts \in Nat
      /\ TableTypes /\ OneEach /\ RowsAgree /\ Served /\ NothingLeft
  BY CallKinds
<1>1. /\ pc' = pc /\ loc' = loc /\ result' = result
      /\ backend' = backend /\ rows' = rows /\ answers' = answers /\ counter' = counter
      /\ inserts' = inserts /\ told' = told /\ marking' = marking /\ marked' = marked
      /\ sessions' = sessions \cup {<<k, s>>}
      /\ raced \subseteq raced' /\ (k \in Going => k \in raced')
  BY DEF AddSession
<1>2. k \in 1..counter /\ Known' = Known /\ counter <= counter /\ inserts <= inserts
  <2>1. told \subseteq (1..inserts) \X (1..counter)
    BY <1>0 DEF TableTypes
  <2>2. k \in 1..counter
    BY <2>1
  <2> QED BY <1>0, <1>1, <2>2 DEF Known
<1>3. k \notin DOMAIN rows => k \in Going
  BY <1>2 DEF Going
<1> HIDE DEF k
<1>4. \A y \in sessions' : y \in sessions \/ y[1] = k
  BY <1>1
<1>5. TableTypes'
  <2>1. sessions' \subseteq (1..counter) \X Sessions
    BY <1>0, <1>1, <1>2 DEF TableTypes
  <2> QED BY <1>0, <1>1, <2>1 DEF TableTypes
<1>6. OneEach' /\ Served'
  BY <1>0, <1>1 DEF OneEach, Served, AnswersApart
<1>7. RowsAgree'
  BY <1>0, <1>1, <1>2 DEF RowsAgree, AnswersApart, Redis
<1>8. NothingLeft'
  BY <1>0, <1>1, <1>3, <1>4 DEF NothingLeft
<1>9. Rely(p)
  <2>1. \A y \in sessions' \ sessions : y[1] \in raced' \/ y[1] \notin Going
    BY <1>1, <1>4
  <2> QED BY <1>0, <1>1, <1>2, <2>1 DEF Rely, Marked
<1> QED BY <1>1, <1>5, <1>6, <1>7, <1>8, <1>9, NoCall

\* mark_deleted of an id that an insert returned.
LEMMA MarkBegins ==
    ASSUME StoreInv, SingleRedisInserter, NEW p \in Processes, NEW x \in told, Mark(p, x[2])
    PROVE  StoreInv'
<1> DEFINE k == x[2]
           v == [NoLoc EXCEPT !.id = k]
<1>0. /\ pc \in [Processes -> Labels] /\ loc \in [Processes -> LocType]
      /\ result \in [Processes -> ResultType]
      /\ backend \in Backends /\ counter \in Nat /\ inserts \in Nat
      /\ TableTypes /\ OneEach /\ RowsAgree /\ Served /\ NothingLeft
  BY CallKinds
<1>1. /\ backend' = backend /\ counter' = counter /\ inserts' = inserts /\ result' = result
      /\ rows' = rows /\ answers' = answers /\ sessions' = sessions
      /\ told' = told /\ marking' = marking \cup {k} /\ marked' = marked /\ raced' = raced
      /\ pc' = [pc EXCEPT ![p] = "mark"] /\ loc' = [loc EXCEPT ![p] = v]
  BY DEF Mark, tables, Goto, Hold
<1>2. k \in Known /\ k \in Nat
  <2>1. told \subseteq (1..inserts) \X (1..counter)
    BY <1>0 DEF TableTypes
  <2>2. k \in 1..counter
    BY <2>1
  <2> QED BY <1>0, <2>2 DEF Known
<1> HIDE DEF k
<1>3. v \in LocType /\ v.id = k /\ v.ids = {}
  BY <1>2, NoTypes DEF LocType, NoLoc
<1> HIDE DEF v
<1>4. Removed({})
  BY <1>0, <1>1, <1>2 DEF Removed, RowsAgree
<1>5. Rely(p) /\ TableTypes' /\ OneEach' /\ RowsAgree' /\ Served' /\ NothingLeft'
  BY <1>4, Removes
<1>6. pc'[p] = "mark" /\ loc'[p] = v /\ "mark" \notin Inserting \cup Given \cup Getting \cup Clears
      /\ "mark" \in Labels
  BY <1>0, <1>1 DEF Inserting, Given, Getting, Clears, Labels
<1>7. InsertOwn(p)' /\ GetOwn(p)'
  BY <1>6 DEF InsertOwn, GetOwn
<1>8. MarkOwn(p)'
  <2>1. v.id \in marking' /\ "mark" \notin Clears
    BY <1>1, <1>3 DEF Clears
  <2> QED BY <1>3, <1>6, <2>1 DEF MarkOwn
<1>9. ResultOwn(p)'
  BY <1>1, <1>5, ResultOthers
<1> QED BY <1>0, <1>1, <1>3, <1>5, <1>6, <1>7, <1>8, <1>9, Combine

-----------------------------------------------------------------------------
(* The theorems.                                                           *)

LEMMA InitHolds == Init => StoreInv
<1> SUFFICES ASSUME Init PROVE StoreInv
  OBVIOUS
<1>1. /\ backend \in Backends /\ rows = << >> /\ answers = {} /\ sessions = {} /\ counter = 0
      /\ pc = [p \in Processes |-> "idle"] /\ loc = [p \in Processes |-> NoLoc]
      /\ result = [p \in Processes |-> NoResult]
      /\ inserts = 0 /\ told = {} /\ marking = {} /\ marked = {} /\ raced = {}
  BY DEF Init
<1>2. DOMAIN rows = {}
  BY <1>1
<1>3. TableTypes
  BY <1>1, <1>2 DEF TableTypes
<1>4. "idle" \in Labels /\ "idle" \notin Inserting \cup Getting \cup Clears \cup Given
  BY DEF Labels, Inserting, Getting, Clears, Given
<1>5. CallTypes
  BY <1>1, <1>4, NoTypes DEF CallTypes
<1>6. OneEach /\ RowsAgree /\ Served /\ NothingLeft
  BY <1>1, <1>2 DEF OneEach, RowsAgree, Served, NothingLeft
<1>7. ASSUME NEW p \in Processes PROVE CallInv(p)
  <2>1. pc[p] = "idle" /\ loc[p] = NoLoc /\ result[p] = NoResult
    BY <1>1
  <2>2. NoLoc.ids = {} /\ NoResult.asked = 0 /\ NoResult.what = "none"
    BY DEF NoLoc, NoResult
  <2>3. InsertOwn(p)
    BY <1>4, <2>1 DEF InsertOwn
  <2>4. GetOwn(p)
    BY <1>4, <2>1 DEF GetOwn
  <2>5. MarkOwn(p)
    BY <1>4, <2>1, <2>2 DEF MarkOwn
  <2>6. ResultOwn(p)
    BY <1>1, <2>1, <2>2 DEF ResultOwn
  <2> QED BY <2>3, <2>4, <2>5, <2>6 DEF CallInv
<1>8. \A p, q \in Processes : DistinctInserts(p, q)
  BY <1>1, <1>4 DEF DistinctInserts
<1> QED BY <1>3, <1>5, <1>6, <1>7, <1>8 DEF StoreInv

LEMMA Stutters ==
    ASSUME StoreInv, UNCHANGED vars
    PROVE  StoreInv'
<1>1. /\ UNCHANGED <<backend, rows, answers, sessions, counter, pc, loc, result, inserts,
                     told, marking, marked, raced>>
  BY DEF vars, tables, aux
<1> USE <1>1
<1>2. TableTypes' /\ CallTypes'
  BY DEF StoreInv, TableTypes, CallTypes
<1>3. OneEach' /\ RowsAgree' /\ Served' /\ NothingLeft'
  BY DEF StoreInv, OneEach, RowsAgree, Served, NothingLeft, Known, AnswersApart, Redis
<1>4. ASSUME NEW p \in Processes PROVE CallInv(p)'
  <2>1. InsertOwn(p) /\ GetOwn(p) /\ MarkOwn(p) /\ ResultOwn(p)
    BY InvParts
  <2>2. Known' = Known /\ Marked' = Marked /\ AnswersApart' = AnswersApart
         /\ Redis' = Redis /\ LooksAtMark' = LooksAtMark
    BY DEF Known, Marked, AnswersApart, Redis, LooksAtMark
  <2>3. InsertOwn(p)'
    BY <2>1, <2>2 DEF InsertOwn
  <2>4. GetOwn(p)'
    BY <2>1, <2>2 DEF GetOwn
  <2>5. MarkOwn(p)'
    BY <2>1, <2>2 DEF MarkOwn
  <2>6. ResultOwn(p)'
    BY <2>1, <2>2 DEF ResultOwn
  <2> QED BY <2>3, <2>4, <2>5, <2>6 DEF CallInv
<1>5. \A p, q \in Processes : p # q => DistinctInserts(p, q)'
  BY DEF StoreInv, DistinctInserts
<1> QED BY <1>2, <1>3, <1>4, <1>5 DEF StoreInv

\* Every command, of every node, keeps the invariant.
LEMMA StoresInductive ==
    ASSUME SingleRedisInserter, Inv, [Next]_vars
    PROVE  StoreInv'
<1> USE DEF Inv
<1>1. CASE UNCHANGED vars
  BY <1>1, Stutters
<1>2. ASSUME NEW p \in Processes, NEW s \in Sessions \cup {NoSession}, Insert(p, s)
      PROVE  StoreInv'
  BY <1>2, InsertBegins
<1>3. ASSUME NEW p \in Processes, SqlInsert(p) PROVE StoreInv'
  BY <1>3, SqlInserts
<1>4. ASSUME NEW p \in Processes, InsertRow(p) PROVE StoreInv'
  BY <1>4, InsertsRow
<1>5. ASSUME NEW p \in Processes, InsertAnswers(p) PROVE StoreInv'
  BY <1>5, InsertsAnswers
<1>6. ASSUME NEW p \in Processes, InsertSession(p) \/ Execute(p) PROVE StoreInv'
  BY <1>6, InsertEnds
<1>7. ASSUME NEW p \in Processes, Incr(p) PROVE StoreInv'
  BY <1>7, Counts
<1>8. ASSUME NEW p \in Processes, CounterGet(p) PROVE StoreInv'
  BY <1>8, CounterGets
<1>9. ASSUME NEW p \in Processes, NEW x \in told, Get(p, x[1], x[2]) PROVE StoreInv'
  BY <1>9, GetBegins
<1>10. ASSUME NEW p \in Processes, GetRead(p) PROVE StoreInv'
  BY <1>10, GetReads
<1>11. ASSUME NEW p \in Processes, GetNone(p) \/ ReadAnswers(p) PROVE StoreInv'
  BY <1>11, GetEnds
<1>12. ASSUME NEW p \in Processes, Touch(p) PROVE StoreInv'
  BY <1>12, Touches
<1>13. ASSUME NEW p \in Processes, NEW x \in told, Mark(p, x[2]) PROVE StoreInv'
  BY <1>13, MarkBegins
<1>14. ASSUME NEW p \in Processes, MarkRow(p) \/ MarkSave(p) PROVE StoreInv'
  BY <1>14, Marks
<1>15. ASSUME NEW p \in Processes, MarkFind(p) PROVE StoreInv'
  BY <1>15, MarkFinds
<1>16. ASSUME NEW p \in Processes, ClearFind(p) PROVE StoreInv'
  BY <1>16, ClearBegins
<1>17. ASSUME NEW p \in Processes, ClearSql(p) \/ ClearMongoRows(p) \/ ClearFound(p)
       PROVE  StoreInv'
  BY <1>17, ClearEnds
<1>18. ASSUME NEW p \in Processes, ClearMongoAnswers(p) \/ ClearMongoSessions(p)
       PROVE  StoreInv'
  BY <1>18, ClearGoesOn
<1>19. ASSUME NEW p \in Processes, NEW x \in told, NEW s \in Sessions, AddSession(p, x[2], s)
       PROVE  StoreInv'
  BY <1>19, Joins
<1>20. ASSUME \/ \E id \in DOMAIN rows : Expire(id)
              \/ \E p \in Processes, s \in Sessions : DeleteSession(p, s)
       PROVE  StoreInv'
  BY <1>20, Drops
<1> QED BY <1>1, <1>2, <1>3, <1>4, <1>5, <1>6, <1>7, <1>8, <1>9, <1>10, <1>11, <1>12, <1>13,
           <1>14, <1>15, <1>16, <1>17, <1>18, <1>19, <1>20 DEF Next, AtRest

LEMMA LongerRange == ASSUME NEW m \in Nat, NEW n \in Nat, m <= n PROVE 1..m \subseteq 1..n
OBVIOUS

LEMMA OneMore == ASSUME NEW m \in Nat, NEW n \in {m, m + 1} PROVE n \in Nat /\ m <= n
OBVIOUS

\* Versions stay what they are if no insert ends.
LEMMA VersionsKept ==
    ASSUME Inv, backend' = backend, versions' = versions, counter' \in Nat, counter <= counter',
           told \subseteq told', marking \subseteq marking',
           \A q \in Processes : pc[q] = "insert session" =>
               pc'[q] = "insert session" /\ loc'[q] = loc[q]
    PROVE  VersionsAgree'
<1>1. counter \in Nat
  BY CallKinds DEF Inv
<1>2. 1..counter \subseteq 1..counter'
  BY <1>1, LongerRange
<1>3. VersionsAgree
  BY DEF Inv
<1> HIDE DEF Inv
<1>4. backend = "dynamo" => versions' \subseteq (1..counter') \X RowType
  BY <1>2, <1>3 DEF VersionsAgree
<1>5. backend = "dynamo" => \A v \in versions' : v[1] \in marking' \/ v[2].deleted = "no"
  BY <1>3 DEF VersionsAgree
<1>6. ASSUME backend = "dynamo", NEW v \in versions', v[2].deleted = "no"
      PROVE  \/ <<v[2].c, v[1]>> \in told'
             \/ \E q \in Processes :
                    pc'[q] = "insert session" /\ loc'[q].id = v[1] /\ loc'[q].c = v[2].c
  BY <1>3, <1>6 DEF VersionsAgree
<1> QED BY <1>4, <1>5, <1>6 DEF VersionsAgree

\* A command of p that ends no insert leaves what a version is.
LEMMA VersionsOfOthers ==
    ASSUME Inv, NEW p \in Processes, NEW l, NEW v,
           pc[p] # "insert session",
           pc' = [pc EXCEPT ![p] = l], loc' = [loc EXCEPT ![p] = v] \/ loc' = loc,
           backend' = backend, versions' = versions, counter' \in {counter, counter + 1},
           told \subseteq told', marking \subseteq marking'
    PROVE  VersionsAgree'
<1>1. counter \in Nat /\ pc \in [Processes -> Labels] /\ loc \in [Processes -> LocType]
  BY CallKinds DEF Inv
<1>2. counter' \in Nat /\ counter <= counter'
  BY <1>1, OneMore
<1>3. ASSUME NEW q \in Processes, pc[q] = "insert session"
      PROVE  pc'[q] = "insert session" /\ loc'[q] = loc[q]
  BY <1>1, <1>3
<1> QED BY <1>2, <1>3, VersionsKept

\* A version that is written now is one of the row that is written.
LEMMA VersionWritten ==
    ASSUME Inv, NEW p \in Processes, NEW l, NEW v, NEW id \in 1..counter', Version(id),
           pc[p] # "insert session",
           pc' = [pc EXCEPT ![p] = l], loc' = [loc EXCEPT ![p] = v] \/ loc' = loc,
           backend' = backend, counter' \in {counter, counter + 1},
           told \subseteq told', marking \subseteq marking',
           backend = "dynamo" =>
               /\ rows'[id] \in RowType
               /\ id \in marking' \/ rows'[id].deleted = "no"
               /\ rows'[id].deleted = "no" =>
                     \/ <<rows'[id].c, id>> \in told'
                     \/ pc'[p] = "insert session" /\ loc'[p].id = id /\ loc'[p].c = rows'[id].c
    PROVE  VersionsAgree'
<1>1. counter \in Nat /\ pc \in [Processes -> Labels] /\ loc \in [Processes -> LocType]
  BY CallKinds DEF Inv
<1>2. counter' \in Nat /\ counter <= counter'
  BY <1>1, OneMore
<1>3. ASSUME NEW q \in Processes, pc[q] = "insert session"
      PROVE  pc'[q] = "insert session" /\ loc'[q] = loc[q]
  BY <1>1, <1>3
<1>4. ASSUME backend = "dynamo", NEW x \in versions
      PROVE  /\ x \in (1..counter') \X RowType
             /\ x[1] \in marking' \/ x[2].deleted = "no"
             /\ x[2].deleted = "no" =>
                   \/ <<x[2].c, x[1]>> \in told'
                   \/ \E q \in Processes :
                         pc'[q] = "insert session" /\ loc'[q].id = x[1] /\ loc'[q].c = x[2].c
  <2>1. /\ x \in (1..counter) \X RowType
        /\ x[1] \in marking \/ x[2].deleted = "no"
        /\ x[2].deleted = "no" =>
              \/ <<x[2].c, x[1]>> \in told
              \/ \E q \in Processes :
                    pc[q] = "insert session" /\ loc[q].id = x[1] /\ loc[q].c = x[2].c
    BY <1>4 DEF Inv, VersionsAgree
  <2>2. 1..counter \subseteq 1..counter'
    BY <1>1, <1>2, LongerRange
  <2> QED BY <1>3, <2>1, <2>2
<1>5. ASSUME backend = "dynamo", NEW x \in versions' PROVE x \in versions \/ x = <<id, rows'[id]>>
  BY <1>5 DEF Version
<1>6. ASSUME backend = "dynamo", NEW x, x = <<id, rows'[id]>>
      PROVE  /\ x \in (1..counter') \X RowType
             /\ x[1] \in marking' \/ x[2].deleted = "no"
             /\ x[2].deleted = "no" =>
                   \/ <<x[2].c, x[1]>> \in told'
                   \/ \E q \in Processes :
                         pc'[q] = "insert session" /\ loc'[q].id = x[1] /\ loc'[q].c = x[2].c
  BY <1>6
<1> HIDE DEF Inv
<1>7. ASSUME backend = "dynamo"
      PROVE  /\ versions' \subseteq (1..counter') \X RowType
             /\ \A x \in versions' : x[1] \in marking' \/ x[2].deleted = "no"
             /\ \A x \in versions' : x[2].deleted = "no" =>
                   \/ <<x[2].c, x[1]>> \in told'
                   \/ \E q \in Processes :
                         pc'[q] = "insert session" /\ loc'[q].id = x[1] /\ loc'[q].c = x[2].c
  BY <1>4, <1>5, <1>6, <1>7
<1> QED BY <1>7 DEF VersionsAgree

\* Every command keeps the versions what they are.
LEMMA VersionsStep ==
    ASSUME Inv, StoreInv', Next
    PROVE  VersionsAgree'
<1>0. /\ pc \in [Processes -> Labels] /\ loc \in [Processes -> LocType]
      /\ counter \in Nat /\ backend \in Backends
      /\ TableTypes /\ OneEach /\ RowsAgree /\ Served
      /\ marking \subseteq 1..counter
  BY CallKinds DEF Inv, TableTypes, RowsAgree, Known
<1>1. ASSUME NEW p \in Processes, InsertRow(p) PROVE VersionsAgree'
  <2> DEFINE v == [loc[p] EXCEPT !.id = counter + 1]
  <2>1. /\ counter' = counter + 1 /\ Version(counter') /\ pc[p] = "insert"
        /\ rows' = Put(rows, counter', [c |-> loc[p].c, deleted |-> "no"])
        /\ loc' = [loc EXCEPT ![p] = v] /\ backend' = backend
        /\ told' = told /\ marking' = marking
    BY <1>1 DEF InsertRow, At, Hold, aux
  <2>2. PICK l : pc' = [pc EXCEPT ![p] = l] /\ (backend = "dynamo" => l = "insert session")
    BY <1>0, <1>1, StoreFacts DEF InsertRow, Goto, AnswersApart
  <2>3. rows'[counter'] = [c |-> loc[p].c, deleted |-> "no"] /\ counter' \in 1..counter'
    BY <1>0, <2>1 DEF Put
  <2>4. loc[p].c \in Nat /\ loc'[p].id = counter' /\ loc'[p].c = loc[p].c
    BY <1>0, <2>1 DEF LocType
  <2>5. rows'[counter'] \in RowType /\ rows'[counter'].c = loc[p].c
        /\ rows'[counter'].deleted = "no"
    BY <2>3, <2>4 DEF RowType
  <2>6. backend = "dynamo" => pc'[p] = "insert session"
    BY <1>0, <2>2
  <2> HIDE DEF v
  <2> QED BY <2>1, <2>2, <2>3, <2>4, <2>5, <2>6, VersionWritten
<1>2. ASSUME NEW p \in Processes, Touch(p) PROVE VersionsAgree'
  <2> DEFINE id == loc[p].id
  <2>1. /\ counter' = counter /\ Version(id) /\ pc[p] = "touch" /\ loc' = loc
        /\ pc' = [pc EXCEPT ![p] = "read answers"] /\ backend' = backend
        /\ told' = told /\ marking' = marking
    BY <1>2 DEF Touch, At, Goto, aux
  <2>2. <<loc[p].c, id>> \in told
    BY <2>1, InvParts DEF Inv, GetOwn, Getting
  <2>3. id \in 1..counter'
    BY <1>0, <2>1, <2>2 DEF TableTypes
  <2>4. ASSUME backend = "dynamo"
        PROVE  /\ id \in DOMAIN rows'
               /\ rows'[id] \in RowType
               /\ id \in marking' \/ rows'[id].deleted = "no"
               /\ rows'[id].deleted = "no" => <<rows'[id].c, id>> \in told'
    <3>1. id \in DOMAIN rows'
      BY <1>0, <1>2, <2>4, StoreFacts DEF Touch, Redis, Put
    <3>2. rows'[id] \in RowType /\ RowsAgree' /\ Served'
      BY <3>1 DEF StoreInv, TableTypes
    <3>3. id \in marking' \/ rows'[id] = [c |-> loc[p].c, deleted |-> "no"]
      <4>1. <<loc[p].c, id>> \in told'
        BY <2>1, <2>2
      <4> QED BY <3>2, <4>1 DEF Served
    <3>4. ASSUME rows'[id].deleted = "no" PROVE rows'[id].c = loc[p].c
      <4>1. rows'[id].c \in {0, loc[p].c} /\ rows'[id].c # 0
        <5>1. <<loc[p].c, id>> \in told'
          BY <2>1, <2>2
        <5> QED BY <3>1, <3>2, <3>4, <5>1 DEF RowsAgree
      <4> QED BY <4>1
    <3>5. id \in marking' \/ rows'[id].deleted = "no"
      BY <3>3
    <3>6. rows'[id].deleted = "no" => <<rows'[id].c, id>> \in told'
      BY <2>1, <2>2, <3>4
    <3> QED BY <3>1, <3>2, <3>5, <3>6
  <2> HIDE DEF id
  <2> QED BY <2>1, <2>3, <2>4, VersionWritten
<1>3. ASSUME NEW p \in Processes, MarkRow(p) PROVE VersionsAgree'
  <2> DEFINE id == loc[p].id
  <2>1. /\ counter' = counter /\ Version(id) /\ pc[p] = "mark"
        /\ loc' = [loc EXCEPT ![p] = NoLoc]
        /\ pc' = [pc EXCEPT ![p] = "idle"] /\ backend' = backend
        /\ told' = told /\ marking' = marking
    BY <1>3 DEF MarkRow, SetMark, At, Done, Goto, Hold
  <2>2. id \in marking
    BY <2>1, InvParts DEF Inv, MarkOwn
  <2>3. id \in 1..counter'
    BY <1>0, <2>1, <2>2
  <2>4. ASSUME backend = "dynamo"
        PROVE  rows'[id] \in RowType /\ rows'[id].deleted = "yes"
    <3>1. rows' = Put(rows, id, [NoRow EXCEPT !.deleted = "yes"])
      BY <1>3, <2>4 DEF MarkRow, SetMark
    <3>2. rows'[id] = [NoRow EXCEPT !.deleted = "yes"]
      BY <3>1 DEF Put
    <3> QED BY <3>2 DEF NoRow, RowType
  <2> HIDE DEF id
  <2> QED BY <2>1, <2>2, <2>3, <2>4, VersionWritten
<1>4. ASSUME NEW p \in Processes, InsertSession(p) PROVE VersionsAgree'
  <2>1. /\ pc[p] = "insert session" /\ pc' = [pc EXCEPT ![p] = "idle"]
        /\ loc' = [loc EXCEPT ![p] = NoLoc] /\ backend' = backend /\ counter' = counter
        /\ versions' = versions /\ marking' = marking
        /\ told' = told \cup {<<loc[p].c, loc[p].id>>}
    BY <1>4 DEF InsertSession, At, Done, Goto, Hold, Tell
  <2>2. ASSUME NEW q \in Processes, q # p PROVE pc'[q] = pc[q] /\ loc'[q] = loc[q]
    BY <1>0, <2>1, <2>2
  <2>3. ASSUME backend = "dynamo", NEW x \in versions, x[2].deleted = "no"
        PROVE  \/ <<x[2].c, x[1]>> \in told'
               \/ \E q \in Processes :
                     pc'[q] = "insert session" /\ loc'[q].id = x[1] /\ loc'[q].c = x[2].c
    <3>1. CASE <<x[2].c, x[1]>> \in told
      BY <2>1, <3>1
    <3>2. CASE \E q \in Processes :
                  pc[q] = "insert session" /\ loc[q].id = x[1] /\ loc[q].c = x[2].c
      <4>1. PICK q \in Processes :
               pc[q] = "insert session" /\ loc[q].id = x[1] /\ loc[q].c = x[2].c
        BY <3>2
      <4>2. CASE q = p
        BY <2>1, <4>1, <4>2
      <4>3. CASE q # p
        BY <2>2, <4>1, <4>3
      <4> QED BY <4>2, <4>3
    <3> QED BY <2>3, <3>1, <3>2 DEF Inv, VersionsAgree
  <2> QED BY <2>1, <2>3 DEF Inv, VersionsAgree
<1>5. ASSUME NEW p \in Processes,
             \/ \E s \in Sessions \cup {NoSession} : Insert(p, s)
             \/ SqlInsert(p) \/ InsertAnswers(p)
             \/ Incr(p) \/ CounterGet(p) \/ Execute(p)
      PROVE  VersionsAgree'
  <2>1. /\ pc[p] # "insert session" /\ backend' = backend /\ versions' = versions
        /\ counter' \in {counter, counter + 1} /\ told \subseteq told' /\ marking' = marking
    BY <1>5 DEF Insert, SqlInsert, InsertAnswers, Incr, CounterGet, Execute, At, Tell, tables, aux
  <2>2. \E l, v : pc' = [pc EXCEPT ![p] = l] /\ (loc' = [loc EXCEPT ![p] = v] \/ loc' = loc)
    BY <1>5 DEF Insert, SqlInsert, InsertAnswers, Incr, CounterGet, Execute, Goto, Hold, Done
  <2> QED BY <2>1, <2>2, VersionsOfOthers
<1>6. ASSUME NEW p \in Processes,
             \/ \E x \in told : Get(p, x[1], x[2])
             \/ GetRead(p) \/ GetNone(p) \/ ReadAnswers(p)
             \/ \E x \in told : Mark(p, x[2])
             \/ MarkFind(p) \/ MarkSave(p)
      PROVE  VersionsAgree'
  <2>1. /\ pc[p] # "insert session" /\ backend' = backend /\ versions' = versions
        /\ counter' = counter /\ told' = told /\ marking \subseteq marking'
    BY <1>6 DEF Get, GetRead, GetNone, ReadAnswers, Mark, MarkFind, MarkSave, SetMark, IsIdle, At,
                tables, aux
  <2>2. \E l, v : pc' = [pc EXCEPT ![p] = l] /\ loc' = [loc EXCEPT ![p] = v]
    BY <1>6 DEF Get, GetRead, GetNone, ReadAnswers, Mark, MarkFind, MarkSave, SetMark,
                Goto, Hold, Done
  <2> QED BY <2>1, <2>2, VersionsOfOthers
<1>7. ASSUME NEW p \in Processes,
             \/ ClearFind(p) \/ ClearSql(p) \/ ClearMongoAnswers(p) \/ ClearMongoSessions(p)
             \/ ClearMongoRows(p) \/ ClearFound(p)
      PROVE  VersionsAgree'
  <2>1. /\ pc[p] # "insert session" /\ backend' = backend /\ versions' = versions
        /\ counter' = counter /\ told' = told /\ marking' = marking
    BY <1>7 DEF ClearFind, ClearSql, ClearMongoAnswers, ClearMongoSessions, ClearMongoRows,
                ClearFound, IsIdle, At, tables, aux
  <2>2. \E l, v : pc' = [pc EXCEPT ![p] = l] /\ (loc' = [loc EXCEPT ![p] = v] \/ loc' = loc)
    BY <1>7 DEF ClearFind, ClearSql, ClearMongoAnswers, ClearMongoSessions, ClearMongoRows,
                ClearFound, Goto, Hold, Done
  <2> QED BY <2>1, <2>2, VersionsOfOthers
<1>8. ASSUME \/ \E p \in Processes : \/ \E x \in told, s \in Sessions : AddSession(p, x[2], s)
                                    \/ \E s \in Sessions : DeleteSession(p, s)
             \/ \E id \in DOMAIN rows : Expire(id)
             \/ AtRest
      PROVE  VersionsAgree'
  <2>1. /\ pc' = pc /\ loc' = loc /\ backend' = backend /\ versions' = versions
        /\ counter' = counter /\ told' = told /\ marking \subseteq marking'
    BY <1>8 DEF AddSession, DeleteSession, Expire, AtRest, vars, tables, aux
  <2>2. counter' \in Nat /\ counter <= counter' /\ told \subseteq told'
    BY <1>0, <2>1
  <2>3. \A q \in Processes : pc[q] = "insert session" =>
            pc'[q] = "insert session" /\ loc'[q] = loc[q]
    BY <2>1
  <2> QED BY <2>1, <2>2, <2>3, VersionsKept
<1> QED BY <1>1, <1>2, <1>3, <1>4, <1>5, <1>6, <1>7, <1>8 DEF Next

LEMMA StoresInvariant ==
    ASSUME SingleRedisInserter
    PROVE  Spec => []Inv
<1>1. SingleRedisInserter
  OBVIOUS
<1>2. Inv /\ [Next]_vars => Inv'
  <2> SUFFICES ASSUME Inv, [Next]_vars PROVE Inv'
    OBVIOUS
  <2>1. StoreInv'
    BY <1>1, StoresInductive
  <2>2. CASE Next
    BY <2>1, <2>2, VersionsStep DEF Inv
  <2>3. CASE UNCHANGED vars
    BY <2>1, <2>3 DEF Inv, VersionsAgree, vars, tables, aux
  <2> QED BY <2>2, <2>3
<1>3. Init => Inv
  <2>1. Init => VersionsAgree
    BY DEF Init, VersionsAgree
  <2> QED BY <2>1, InitHolds DEF Inv
<1> QED BY <1>2, <1>3, PTL DEF Spec

LEMMA TypesHold == StoreInv => TypeOK
<1> SUFFICES ASSUME StoreInv PROVE TypeOK
  OBVIOUS
<1>1. TableTypes /\ RowsAgree /\ result \in [Processes -> ResultType]
  BY DEF StoreInv, CallTypes
<1>2. backend \in Backends /\ inserts \in Nat
  BY <1>1 DEF TableTypes
<1>3. ~Store.unset => backend \notin {"mongo", "dynamo"}
  BY <1>2, StoreFacts
<1>4. \A id \in DOMAIN rows :
         /\ rows[id].c \in 0..inserts /\ rows[id].deleted \in {"no", "yes", "unset"}
         /\ ~Store.unset => rows[id].deleted # "unset"
  <2> SUFFICES ASSUME NEW id \in DOMAIN rows
               PROVE  /\ rows[id].c \in 0..inserts /\ rows[id].deleted \in {"no", "yes", "unset"}
                      /\ ~Store.unset => rows[id].deleted # "unset"
    OBVIOUS
  <2>1. rows[id].c \in Nat /\ rows[id].c <= inserts /\ rows[id].deleted \in {"no", "yes", "unset"}
    BY <1>1 DEF TableTypes, RowType
  <2>2. rows[id].c \in 0..inserts
    BY <1>2, <2>1
  <2> QED BY <1>1, <1>3, <2>1, <2>2 DEF RowsAgree
<1>5. \A p \in Processes : result[p].what \in {"none", "row", "raised"}
  BY <1>1 DEF ResultType
<1> QED BY <1>1, <1>4, <1>5 DEF TableTypes, TypeOK

\* get_data_by_id returns the row that was inserted under the id, and no other
\* row's answers, whatever other nodes insert, mark, clear and touch between
\* its commands; in Redis, as long as one node inserts, because batch_insert
\* reads the counter after incrementing it.
THEOREM OwnRowCorrect ==
    ASSUME SingleRedisInserter
    PROVE  Spec => []OwnRowAndAnswers
<1>1. Inv => OwnRowAndAnswers
  <2> SUFFICES ASSUME StoreInv PROVE OwnRowAndAnswers
    BY DEF Inv
  <2>1. \A p \in Processes : ResultOwn(p)
    BY InvParts
  <2> QED BY <2>1, TypesHold DEF OwnRowAndAnswers, ResultOwn
<1> QED BY <1>1, StoresInvariant, PTL

\* A row stays, and is served with its answers, until mark_deleted is called for
\* its id (or Redis expires it): no clear_deleted_data, and no write of a stale
\* copy, takes it; only DynamoDB's get may say that there is none.  After
\* mark_deleted has returned, a get that begins later does not return the row,
\* but in Redis and in DynamoDB.
THEOREM ServedCorrect ==
    ASSUME SingleRedisInserter
    PROVE  Spec => []ServedUntilMarked
<1>1. Inv => ServedUntilMarked
  <2> SUFFICES ASSUME StoreInv PROVE ServedUntilMarked
    BY DEF Inv
  <2>1. Served /\ RowsAgree /\ backend \in Backends
    BY DEF StoreInv, TableTypes
  <2>2. ~Embedded => AnswersApart
    BY <2>1, StoreFacts
  <2>3. ASSUME NEW x \in told
        PROVE  \/ x[2] \in marking
               \/ /\ x[2] \in DOMAIN rows /\ rows[x[2]] = [c |-> x[1], deleted |-> "no"]
                  /\ Embedded \/ AnswersOf(x[2]) = {x[1]}
    <3> SUFFICES ASSUME x[2] \notin marking, ~Embedded PROVE AnswersOf(x[2]) = {x[1]}
      BY <2>1 DEF Served
    <3>1. <<x[2], x[1]>> \in answers
      BY <2>1, <2>2 DEF Served
    <3>2. \A y \in answers : y[1] = x[2] => y[2] = x[1]
      BY <2>1 DEF RowsAgree
    <3>3. x[1] \in AnswersOf(x[2])
      BY <3>1 DEF AnswersOf
    <3> QED BY <3>2, <3>3 DEF AnswersOf
  <2>4. \A p \in Processes : ResultOwn(p)
    BY InvParts
  <2>5. \A p \in Processes :
           \/ result[p].what = "row" /\ result[p].answers = {result[p].asked}
           \/ result[p].what = "none" /\ backend = "dynamo"
           \/ \A x \in told : x[1] = result[p].asked => x[2] \in marking
    BY <2>4 DEF ResultOwn
  <2>6. backend # "dynamo" => MarkedNotServed
    <3> SUFFICES ASSUME backend # "dynamo", ~Redis, NEW p \in Processes, result[p].gone
                 PROVE  result[p].what # "row"
      BY DEF MarkedNotServed
    <3>1. LooksAtMark
      BY <2>1, StoreFacts DEF LooksAtMark, Redis
    <3> QED BY <2>4, <3>1 DEF ResultOwn
  <2> QED BY <2>3, <2>5, <2>6 DEF ServedUntilMarked
<1> QED BY <1>1, StoresInvariant, PTL

\* clear_deleted_data leaves no answers and, but in DynamoDB, no sessions of the
\* rows it removes, except where a mark or a session came while it was at it.
THEOREM ClearCorrect ==
    ASSUME SingleRedisInserter
    PROVE  Spec => []ClearLeavesNothing
<1>1. Inv => ClearLeavesNothing
  <2> SUFFICES ASSUME StoreInv PROVE ClearLeavesNothing
    BY DEF Inv
  <2>1. NothingLeft /\ backend \in Backends
    BY DEF StoreInv, TableTypes
  <2>2. Store.sessions = "cleared" => backend # "dynamo"
    BY <2>1, StoreFacts
  <2> QED BY <2>1, <2>2 DEF NothingLeft, ClearLeavesNothing
<1> QED BY <1>1, StoresInvariant, PTL
=============================================================================
