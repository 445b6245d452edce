---------------------------- MODULE ScalarStores ----------------------------
(***************************************************************************)
(* The scalar stores (gptcache/manager/scalar_data: sql_storage.py,        *)
(* mongo.py, redis_storage.py, dynamo_storage.py) as several nodes of a    *)
(* deployment use them at the same time: each method is the sequence of    *)
(* the commands it sends, and a step is one command, or one transaction.   *)
(*                                                                         *)
(* A row's content is the number of the insert that made it, and so is     *)
(* its answer.  SQL and MongoDB keep answers in a table of their own,      *)
(* Redis and DynamoDB in the row.  Ids are not given out twice by SQL (as  *)
(* in MySQL and PostgreSQL), by a MongoDB sequence, or by DynamoDB's       *)
(* random numbers; Redis counts in two commands.  Dependencies go where    *)
(* the answers go.  With a time to live, or a maxmemory policy, Redis      *)
(* drops rows by itself; that it may drop the counter, too, and the report *)
(* table are left out.                                                     *)
(*                                                                         *)
(* DynamoDB's reads are eventually consistent: get_item may find any       *)
(* version that the item has had, or none, and a query of an index ids     *)
(* whose rows were marked at some time.                                    *)
(***************************************************************************)
EXTENDS Integers, FiniteSets, Functions

CONSTANTS
    Backends,       \* a subset of DOMAIN Stores
    Processes,      \* nodes
    Inserters,      \* backend -> the nodes that insert
    Sessions,       \* session names
    NoSession,
    MaxInserts,     \* bound: rows inserted in a run
    MaxOps          \* bound: other calls in a run

(* The schemas: whether answers are part of the row, whether a row may be   *)
(* without a mark, what happens to rows nobody touches, and what            *)
(* clear_deleted_data does to sessions.                                    *)

\* Tables with integer keys, which SQL fills itself
SqlTables == [embedded |-> FALSE, unset |-> FALSE, expires |-> FALSE, sessions |-> "cleared"]

\* Collections whose ids are sequences; save() writes a field of a document
\* whether or not it is there
MongoCollections == [embedded |-> FALSE, unset |-> TRUE, expires |-> FALSE,
                     sessions |-> "cleared"]

\* JSON documents, answers in them, and a counter
RedisModels == [embedded |-> TRUE, unset |-> FALSE, expires |-> FALSE, sessions |-> "cleared"]

\* init_eviction_params: eviction is left to Redis (NoOpEviction)
RedisExpiring == [RedisModels EXCEPT !.expires = TRUE]

\* One table for rows and sessions, with an index by a mark an item may lack
DynamoTable == [embedded |-> TRUE, unset |-> TRUE, expires |-> FALSE, sessions |-> "kept"]

Stores == [sql |-> SqlTables, mongo |-> MongoCollections, redis |-> RedisModels,
           redis_ttl |-> RedisExpiring, dynamo |-> DynamoTable]

ASSUME StoresAssumption ==
    /\ Backends \subseteq DOMAIN Stores
    /\ Inserters \in [Backends -> SUBSET Processes]
    /\ NoSession \notin Sessions

VARIABLES
    backend,        \* the store that is configured
    rows,           \* id -> [c, deleted]: content, 0 where there is none, and
                    \* whether the deletion mark is "no", "yes" or not there
    answers,        \* pairs <<id, c>>, where answers are stored apart
    sessions,       \* pairs <<id, session>>
    versions,       \* DynamoDB: pairs <<id, row>>, the versions its items have had
    counter,        \* the id counter of Redis, of SQL and of MongoDB; the number
                    \* of random ids of DynamoDB
    pc,             \* process -> the next command of its call
    loc,            \* process -> what its call holds: the id, the content, the
                    \* session, the row it read, the ids it read
    result,         \* process -> what its last get_data_by_id returned
    inserts, ops,   \* calls so far
    told,           \* auxiliary: pairs <<c, id>> that an insert returned
    marking, marked,\* auxiliary: ids whose mark_deleted was called (or that
                    \* expired), has returned
    raced           \* auxiliary: ids that were marked, or joined by a session,
                    \* while their row was being cleared or gone, or that expired

tables == <<rows, answers, sessions, versions, counter>>
aux == <<told, marking, marked, raced>>
vars == <<backend, tables, pc, loc, result, inserts, ops, aux>>

NoRow == [c |-> 0, deleted |-> "unset"]
NoLoc == [id |-> 0, c |-> 0, s |-> NoSession, row |-> NoRow, ids |-> {}, gone |-> FALSE]
NoResult == [what |-> "none", asked |-> 0, got |-> 0, answers |-> {}, gone |-> FALSE]

Init ==
    /\ backend \in Backends
    /\ rows = << >> /\ answers = {} /\ sessions = {} /\ versions = {} /\ counter = 0
    /\ pc = [p \in Processes |-> "idle"]
    /\ loc = [p \in Processes |-> NoLoc]
    /\ result = [p \in Processes |-> NoResult]
    /\ inserts = 0 /\ ops = 0
    /\ told = {} /\ marking = {} /\ marked = {} /\ raced = {}

Put(f, id, row) == [j \in DOMAIN f \cup {id} |-> IF j = id THEN row ELSE f[j]]
Without(f, S) == Restrict(f, DOMAIN f \ S)
\* find(deleted == -1), and its counterparts
Marked == {id \in DOMAIN rows : rows[id].deleted = "yes"}
Store == Stores[backend]
Embedded == Store.embedded
Redis == backend \in {"redis", "redis_ttl"}
\* Ids that a running clear_deleted_data has read, or whose row is gone
Going == {id \in 1..counter : id \notin DOMAIN rows
                \/ \E p \in Processes : pc[p] # "idle" /\ id \in loc[p].ids}
Clearing == \E p \in Processes : pc[p] \in {"clear", "clear sessions", "clear rows"}

At(p, label) == pc[p] = label
Goto(p, label) == pc' = [pc EXCEPT ![p] = label]
Hold(p, l) == loc' = [loc EXCEPT ![p] = l]
Done(p) == Goto(p, "idle") /\ Hold(p, NoLoc)
IsIdle(p) == At(p, "idle") /\ ops < MaxOps /\ ops' = ops + 1
Linked(id, s) == IF s = NoSession THEN {} ELSE {<<id, s>>}

-----------------------------------------------------------------------------
(* batch_insert of one row.                                                *)

Insert(p, s) ==
    /\ At(p, "idle") /\ p \in Inserters[backend] /\ inserts < MaxInserts
    /\ inserts' = inserts + 1
    /\ Hold(p, [NoLoc EXCEPT !.c = inserts + 1, !.s = s])
    /\ Goto(p, "insert")
    /\ UNCHANGED <<backend, tables, result, ops, aux>>

Tell(p, id) == told' = told \cup {<<loc[p].c, id>>}

\* SQL: _insert in one transaction
SqlInsert(p) ==
    /\ At(p, "insert") /\ backend = "sql"
    /\ counter' = counter + 1
    /\ rows' = Put(rows, counter', [c |-> loc[p].c, deleted |-> "no"])
    /\ answers' = answers \cup {<<counter', loc[p].c>>}
    /\ sessions' = sessions \cup Linked(counter', loc[p].s)
    /\ Tell(p, counter') /\ Done(p)
    /\ UNCHANGED <<backend, versions, result, inserts, ops, marking, marked, raced>>

\* DynamoDB keeps handing out the version of an item that is written now
Version(id) == versions' = IF backend = "dynamo" THEN versions \cup {<<id, rows'[id]>>}
                           ELSE versions

\* MongoDB and DynamoDB: the row, with an id of its own
InsertRow(p) ==
    /\ At(p, "insert") /\ backend \in {"mongo", "dynamo"}
    /\ counter' = counter + 1
    /\ rows' = Put(rows, counter', [c |-> loc[p].c, deleted |-> "no"])
    /\ Version(counter')
    /\ Hold(p, [loc[p] EXCEPT !.id = counter'])
    /\ Goto(p, IF Embedded THEN "insert session" ELSE "insert answers")
    /\ UNCHANGED <<backend, answers, sessions, result, inserts, ops, aux>>

\* Mutant: the id is read again
InsertAnswersLatest(p) ==
    /\ At(p, "insert answers")
    /\ answers' = answers \cup {<<counter, loc[p].c>>}
    /\ Goto(p, "insert session")
    /\ UNCHANGED <<backend, versions, rows, sessions, counter, loc, result, inserts, ops, aux>>

\* MongoDB: the answers
InsertAnswers(p) ==
    /\ At(p, "insert answers")
    /\ answers' = answers \cup {<<loc[p].id, loc[p].c>>}
    /\ Goto(p, "insert session")
    /\ UNCHANGED <<backend, versions, rows, sessions, counter, loc, result, inserts, ops, aux>>

\* MongoDB, and DynamoDB as a second item of the batch: the session
InsertSession(p) ==
    /\ At(p, "insert session")
    /\ sessions' = sessions \cup Linked(loc[p].id, loc[p].s)
    /\ Tell(p, loc[p].id) /\ Done(p)
    /\ UNCHANGED <<backend, versions, rows, answers, counter, result, inserts, ops, marking, marked, raced>>

\* Redis: counter.incr
Incr(p) ==
    /\ At(p, "insert") /\ Redis
    /\ counter' = counter + 1
    /\ Goto(p, "counter get")
    /\ UNCHANGED <<backend, versions, rows, answers, sessions, loc, result, inserts, ops, aux>>

\* Redis: counter.get, a command of its own
CounterGet(p) ==
    /\ At(p, "counter get")
    /\ Hold(p, [loc[p] EXCEPT !.id = counter])
    /\ Goto(p, "execute")
    /\ UNCHANGED <<backend, tables, result, inserts, ops, aux>>

\* Redis: pipeline.execute saves row and session; a row of that id is replaced
Execute(p) ==
    /\ At(p, "execute")
    /\ rows' = Put(rows, loc[p].id, [c |-> loc[p].c, deleted |-> "no"])
    /\ sessions' = sessions \cup Linked(loc[p].id, loc[p].s)
    /\ Tell(p, loc[p].id) /\ Done(p)
    /\ UNCHANGED <<backend, versions, answers, counter, result, inserts, ops, marking, marked, raced>>

-----------------------------------------------------------------------------
(* get_data_by_id of an id that the vector search returned for content c.  *)

Get(p, c, id) ==
    /\ IsIdle(p) /\ <<c, id>> \in told
    /\ Hold(p, [NoLoc EXCEPT !.id = id, !.c = c, !.gone = id \in marked])
    /\ Goto(p, "get")
    /\ UNCHANGED <<backend, tables, result, inserts, aux>>

Returned(p, what, got, ans) ==
    result' = [result EXCEPT ![p] = [what |-> what, asked |-> loc[p].c, got |-> got,
                                     answers |-> ans, gone |-> loc[p].gone]]

RowOf(id) == IF id \in DOMAIN rows THEN rows[id] ELSE NoRow
AnswersOf(id) == {a[2] : a \in {x \in answers : x[1] = id}}

\* The rows that are found for an id, and whether none may be
Found(id) == IF backend = "dynamo" THEN {v[2] : v \in {x \in versions : x[1] = id}}
             ELSE {rows[j] : j \in DOMAIN rows \cap {id}}
Missed(id) == id \notin DOMAIN rows \/ backend = "dynamo"

\* The row is read; SQL, MongoDB and DynamoDB want one that is not marked,
\* Redis takes any
GetRead(p) ==
    /\ At(p, "get")
    /\ \E row \in Found(loc[p].id) :
          /\ row.deleted = "no" \/ (Redis /\ row.deleted = "yes")
          /\ Hold(p, [loc[p] EXCEPT !.row = row])
    /\ Goto(p, "touch")
    /\ UNCHANGED <<backend, tables, result, inserts, ops, aux>>

\* There is none, or it is marked: MongoDB's get raises DoesNotExist, the others
\* return None; DynamoDB's raises KeyError on a row without a mark
GetNone(p) ==
    LET id == loc[p].id
    IN  /\ At(p, "get")
        /\ \/ Missed(id) /\ Returned(p, IF backend = "mongo" THEN "raised" ELSE "none", 0, {})
           \/ \E row \in Found(id) :
                 /\ row.deleted # "no" /\ ~Redis
                 /\ Returned(p, IF backend = "mongo" \/ row.deleted = "unset"
                                THEN "raised" ELSE "none", 0, {})
        /\ Done(p)
        /\ UNCHANGED <<backend, tables, inserts, ops, aux>>

\* last_access is written: SQL in the transaction that read the row; MongoDB
\* and DynamoDB set the field, of a new row if it is gone; Redis writes the row
\* as it was read
Touch(p) ==
    LET id == loc[p].id
    IN  /\ At(p, "touch")
        /\ rows' = IF Redis THEN Put(rows, id, loc[p].row)
                   ELSE IF id \in DOMAIN rows \/ ~Store.unset THEN rows
                   ELSE Put(rows, id, NoRow)
        /\ Version(id)
        /\ Goto(p, "read answers")
        /\ UNCHANGED <<backend, answers, sessions, counter, loc, result, inserts, ops, aux>>

\* The answers, and the sessions
ReadAnswers(p) ==
    /\ At(p, "read answers")
    /\ Returned(p, "row", loc[p].row.c,
                IF Embedded THEN {loc[p].row.c} ELSE AnswersOf(loc[p].id))
    /\ Done(p)
    /\ UNCHANGED <<backend, tables, inserts, ops, aux>>

-----------------------------------------------------------------------------
(* mark_deleted, clear_deleted_data.                                       *)

Mark(p, id) ==
    /\ IsIdle(p) /\ \E c \in 1..MaxInserts : <<c, id>> \in told
    /\ Hold(p, [NoLoc EXCEPT !.id = id])
    /\ Goto(p, "mark")
    /\ marking' = marking \cup {id}
    /\ UNCHANGED <<backend, tables, result, inserts, told, marked, raced>>

SetMark(p, f, id) ==
    /\ rows' = f
    /\ marked' = marked \cup {id}
    /\ raced' = IF Clearing THEN raced \cup {id} ELSE raced
    /\ Done(p)

\* SQL and MongoDB update the mark; DynamoDB puts a row of nothing but the mark
MarkRow(p) ==
    LET id == loc[p].id
    IN  /\ At(p, "mark") /\ ~Redis
        /\ SetMark(p, IF backend = "dynamo" THEN Put(rows, id, [NoRow EXCEPT !.deleted = "yes"])
                      ELSE IF id \in DOMAIN rows THEN [rows EXCEPT ![id].deleted = "yes"]
                      ELSE rows, id)
        /\ Version(id)
        /\ UNCHANGED <<backend, answers, sessions, counter, result, inserts, ops, told, marking>>

\* Redis finds the row
MarkFind(p) ==
    /\ At(p, "mark") /\ Redis
    /\ Hold(p, [loc[p] EXCEPT !.row = RowOf(loc[p].id)])
    /\ Goto(p, "mark save")
    /\ UNCHANGED <<backend, tables, result, inserts, ops, aux>>

\* and writes it with the mark
MarkSave(p) ==
    LET id == loc[p].id
    IN  /\ At(p, "mark save")
        /\ SetMark(p, IF loc[p].row = NoRow THEN rows
                      ELSE Put(rows, id, [loc[p].row EXCEPT !.deleted = "yes"]), id)
        /\ UNCHANGED <<backend, versions, answers, sessions, counter, result, inserts, ops, told, marking>>

\* Mutant: the filter on the mark is missing
ClearFindAll(p) ==
    /\ IsIdle(p)
    /\ Hold(p, [NoLoc EXCEPT !.ids = DOMAIN rows])
    /\ Goto(p, "clear")
    /\ UNCHANGED <<backend, tables, result, inserts, aux>>

\* Ids that the index of DynamoDB, which lags behind, may still, or not yet, list
Listed == {v[1] : v \in {x \in versions : x[2].deleted = "yes"}}

\* The marked ids are read
ClearFind(p) ==
    /\ IsIdle(p)
    /\ \E S \in IF backend = "dynamo" THEN SUBSET Listed ELSE {Marked} :
          Hold(p, [NoLoc EXCEPT !.ids = S])
    /\ Goto(p, "clear")
    /\ UNCHANGED <<backend, tables, result, inserts, aux>>

Apart(S) == {x \in answers : x[1] \notin S}
NotJoined(S) == {x \in sessions : x[1] \notin S}

\* Mutant: the rows go, their answers stay
ClearSqlRowsOnly(p) ==
    /\ At(p, "clear") /\ backend = "sql"
    /\ sessions' = NotJoined(loc[p].ids)
    /\ rows' = Without(rows, Marked)
    /\ Done(p)
    /\ UNCHANGED <<backend, versions, answers, counter, result, inserts, ops, aux>>

\* SQL: in one transaction the answers and sessions of the ids that were read
\* go, and the rows that are marked by now
ClearSql(p) ==
    /\ At(p, "clear") /\ backend = "sql"
    /\ answers' = Apart(loc[p].ids)
    /\ sessions' = NotJoined(loc[p].ids)
    /\ rows' = Without(rows, Marked)
    /\ Done(p)
    /\ UNCHANGED <<backend, versions, counter, result, inserts, ops, aux>>

\* MongoDB: the same in three commands
ClearMongoAnswers(p) ==
    /\ At(p, "clear") /\ backend = "mongo"
    /\ answers' = Apart(loc[p].ids)
    /\ Goto(p, "clear sessions")
    /\ UNCHANGED <<backend, versions, rows, sessions, counter, loc, result, inserts, ops, aux>>

ClearMongoSessions(p) ==
    /\ At(p, "clear sessions")
    /\ sessions' = NotJoined(loc[p].ids)
    /\ Goto(p, "clear rows")
    /\ UNCHANGED <<backend, versions, rows, answers, counter, loc, result, inserts, ops, aux>>

\* questions.delete() asks for the marked rows once more
ClearMongoRows(p) ==
    /\ At(p, "clear rows")
    /\ rows' = Without(rows, Marked)
    /\ Done(p)
    /\ UNCHANGED <<backend, versions, answers, sessions, counter, result, inserts, ops, aux>>

\* Redis deletes the rows and sessions it found, in one transaction; DynamoDB
\* the rows, and leaves the sessions
ClearFound(p) ==
    /\ At(p, "clear") /\ Embedded
    /\ rows' = Without(rows, loc[p].ids)
    /\ sessions' = IF Store.sessions = "cleared" THEN NotJoined(loc[p].ids) ELSE sessions
    /\ Done(p)
    /\ UNCHANGED <<backend, versions, answers, counter, result, inserts, ops, aux>>

\* Redis drops a row that was not read for ttl, or to make room; its session
\* stays, and nobody is told
Expire(id) ==
    /\ Store.expires /\ id \in DOMAIN rows /\ ops < MaxOps /\ ops' = ops + 1
    /\ rows' = Without(rows, {id})
    /\ marking' = marking \cup {id} /\ raced' = raced \cup {id}
    /\ UNCHANGED <<backend, versions, answers, sessions, counter, pc, loc, result, inserts, told, marked>>

-----------------------------------------------------------------------------
(* Sessions.                                                               *)

\* add_session after a hit; nothing ties it to the row
AddSession(p, id, s) ==
    /\ IsIdle(p) /\ \E c \in 1..MaxInserts : <<c, id>> \in told
    /\ sessions' = sessions \cup {<<id, s>>}
    /\ raced' = IF id \in Going THEN raced \cup {id} ELSE raced
    /\ UNCHANGED <<backend, versions, rows, answers, counter, pc, loc, result, inserts,
                   told, marking, marked>>

\* The `id` of each row that list_sessions returned.  Only the rows of SQL have
\* one: of a document of MongoDB it is not the question's, and the models of
\* Redis and the strings of DynamoDB raise AttributeError
SessionRows(s) == IF backend = "sql" THEN {x \in sessions : x[2] = s} ELSE {}

\* SSDataManager.delete_session lists the session's rows and deletes them
DeleteSession(p, s) ==
    /\ IsIdle(p) /\ SessionRows(s) # {}
    /\ sessions' = sessions \ SessionRows(s)
    /\ UNCHANGED <<backend, versions, rows, answers, counter, pc, loc, result, inserts, aux>>

-----------------------------------------------------------------------------
AtRest == (\A p \in Processes : At(p, "idle")) /\ UNCHANGED vars

Next ==
    \/ \E p \in Processes :
        \/ \E s \in Sessions \cup {NoSession} : Insert(p, s)
        \/ SqlInsert(p) \/ InsertRow(p) \/ InsertAnswers(p) \/ InsertSession(p)
        \/ Incr(p) \/ CounterGet(p) \/ Execute(p)
        \/ \E x \in told : Get(p, x[1], x[2])
        \/ GetRead(p) \/ GetNone(p) \/ Touch(p) \/ ReadAnswers(p)
        \/ \E x \in told : Mark(p, x[2])
        \/ MarkRow(p) \/ MarkFind(p) \/ MarkSave(p)
        \/ ClearFind(p) \/ ClearSql(p) \/ ClearMongoAnswers(p) \/ ClearMongoSessions(p)
        \/ ClearMongoRows(p) \/ ClearFound(p)
        \/ \E x \in told, s \in Sessions : AddSession(p, x[2], s)
        \/ \E s \in Sessions : DeleteSession(p, s)
    \/ \E id \in DOMAIN rows : Expire(id)
    \/ AtRest

Spec == Init /\ [][Next]_vars

-----------------------------------------------------------------------------
(* Properties.                                                             *)

\* Types; and SQL and Redis know no rows that are neither live nor marked,
\* which count(is_all) would count for ever.
TypeOK ==
    /\ DOMAIN rows \subseteq 1..counter
    /\ \A id \in DOMAIN rows :
          /\ rows[id].c \in 0..inserts /\ rows[id].deleted \in {"no", "yes", "unset"}
          /\ ~Store.unset => rows[id].deleted # "unset"
    /\ answers \subseteq (1..counter) \X (1..inserts)
    /\ sessions \subseteq (1..counter) \X Sessions
    /\ \A p \in Processes : result[p].what \in {"none", "row", "raised"}

\* What get_data_by_id returns for an id is the row that was inserted under it,
\* with no other row's answers, whatever is inserted, marked, cleared and
\* touched between its commands.  (Types first.)
OwnRowAndAnswers ==
    /\ TypeOK
    /\ \A p \in Processes :
          result[p].what = "row" =>
              result[p].got = result[p].asked /\ result[p].answers \subseteq {result[p].asked}

\* When mark_deleted has returned, a get that begins later does not return the
\* row.  Redis' get does not look at the mark, and DynamoDB's may read a version
\* that is older than the mark.
MarkedNotServed ==
    \A p \in Processes : ~Redis /\ result[p].gone => result[p].what # "row"

\* A row that nobody marked stays, and is served with its answers: neither
\* clear_deleted_data nor a write of a stale copy of another row touches it;
\* only DynamoDB, which reads old versions, may say that there is none.  But in
\* DynamoDB and Redis, it is not served any more once mark_deleted has returned.
ServedUntilMarked ==
    /\ \A x \in told :
          \/ x[2] \in marking
          \/ /\ x[2] \in DOMAIN rows /\ rows[x[2]] = [c |-> x[1], deleted |-> "no"]
             /\ Embedded \/ AnswersOf(x[2]) = {x[1]}
    /\ \A p \in Processes :
          \/ result[p].what = "row" /\ result[p].answers = {result[p].asked}
          \/ result[p].what = "none" /\ backend = "dynamo"
          \/ \A x \in told : x[1] = result[p].asked => x[2] \in marking
    /\ backend # "dynamo" => MarkedNotServed

\* Clearing leaves no answers and no sessions behind, except of rows that were
\* marked while a clear was under way and of sessions that joined a row that
\* was being cleared or gone.  DynamoDB leaves all sessions.
ClearLeavesNothing ==
    (\A p \in Processes : At(p, "idle")) =>
        /\ \A x \in answers : x[1] \in DOMAIN rows \cup raced
        /\ Store.sessions = "cleared" => \A x \in sessions : x[1] \in DOMAIN rows \cup raced
=============================================================================
