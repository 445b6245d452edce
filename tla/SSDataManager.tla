---------------------------- MODULE SSDataManager ----------------------------
(***************************************************************************)
(* SSDataManager (manager/data_manager.py) with the EvictionManager it     *)
(* owns, over a SQLite SQLStorage and a Faiss index, which are two stores  *)
(* without a common transaction.  The eviction index is taken at what      *)
(* GDSFCache establishes of it, for any policy: a set of ids that gives up *)
(* clean_size of them one by one, whichever they are, when a new one does  *)
(* not fit.                                                                *)
(*                                                                         *)
(* Every call of a store is a step: one committed transaction of the       *)
(* scalar store, one call of the vector index; writing the index file,     *)
(* which is done in place, has a begin and an end.  Threads (the event loop *)
(* and the pool thread of a streaming response, or the user's own) run     *)
(* import_data and search interleaved at those steps.  A crash loses the   *)
(* memory of the process: the vectors added or removed since the last      *)
(* flush, and the eviction index.                                          *)
(*                                                                         *)
(* A question, its answers, dependencies and embedding are one content,    *)
(* numbered in the order they are saved.                                   *)
(***************************************************************************)
EXTENDS Integers, Sequences, FiniteSets, FiniteSetsExt, Functions

CONSTANTS
    Threads,
    BootThread,     \* the thread that runs __init__ after a crash
    MaxSize,        \* maxsize of the eviction index
    CleanSize,      \* its clean_size
    MaxMarkCount,   \* EvictionManager.MAX_MARK_COUNT
    RateNum,        \* EvictionManager.MAX_MARK_RATE, as a fraction
    RateDen,
    RebuildCondition,
    MaxBatch,       \* bound: questions in one import_data
    MaxSaves,       \* bound: questions saved in a run
    MaxCrashes,     \* bound: crashes in a run
    MaxFailures     \* bound: store calls that raise in a run

ASSUME ThreadsAssumption == BootThread \in Threads
ASSUME SizesAssumption == MaxSize \in Nat \ {0} /\ CleanSize \in Nat \ {0}
ASSUME MarksAssumption ==
    /\ MaxMarkCount \in Nat /\ RateNum \in Nat /\ RateDen \in Nat \ {0}
    /\ RebuildCondition \in Nat \ {0}
ASSUME BoundsAssumption ==
    /\ MaxBatch \in Nat /\ MaxSaves \in Nat
    /\ MaxCrashes \in Nat /\ MaxFailures \in Nat

VARIABLES
    rows,           \* the question table: id -> [content, deleted]
    vecs,           \* the index in memory: set of <<id, content>>
    disk,           \* the index file
    torn,           \* the index file is being written, or was left half written
    tracked,        \* ids in the eviction index
    delete_count,   \* EvictionManager.delete_count
    pc,             \* thread -> where it is in import_data or adapt
    items,          \* thread -> <<id, content>> pairs not in the index yet
    keys,           \* thread -> evicted keys, later mark_ids
    mark_count,     \* thread -> the first count of check_evict
    found,          \* thread -> the search result it looks up
    booting,        \* __init__ has not returned yet
    saves, crashes, failures,   \* what the bounds count
    leaked,         \* auxiliary: live ids that an exception left out
    flushed         \* auxiliary: ids a search could find at the last flush

stores == <<rows, vecs, disk, torn, tracked, delete_count>>
local == <<items, keys, mark_count, found>>
budget == <<saves, crashes, failures>>
aux == <<leaked, flushed>>
vars == <<stores, pc, local, booting, budget, aux>>

Marked == {i \in DOMAIN rows : rows[i].deleted}
Live == DOMAIN rows \ Marked
IdsOf(s) == {p[1] : p \in Range(s)}
NoVector == <<0, 0>>

\* Mutant: the smallest free id
SmallestFreeId == CHOOSE i \in 1..(Cardinality(DOMAIN rows) + 1) :
                      /\ i \notin DOMAIN rows
                      /\ \A j \in 1..(i - 1) : j \in DOMAIN rows

\* SQLite without AUTOINCREMENT: one more than the largest id in the table
NextId == IF DOMAIN rows = {} THEN 1 ELSE Max(DOMAIN rows) + 1

\* The ids that get_ids returns: SQLite scans the table in the order of its
\* rowids, which are the ids, so the smallest comes first
Listed(S) == CHOOSE s \in [1..Cardinality(S) -> S] :
                \A i, j \in 1..Cardinality(S) : i < j => s[i] < s[j]

Init ==
    /\ rows = <<>>
    /\ vecs = {}
    /\ disk = {}
    /\ torn = FALSE
    /\ tracked = {}
    /\ delete_count = 0
    /\ pc = [t \in Threads |-> "idle"]
    /\ items = [t \in Threads |-> <<>>]
    /\ keys = [t \in Threads |-> {}]
    /\ mark_count = [t \in Threads |-> 0]
    /\ found = [t \in Threads |-> NoVector]
    /\ booting = FALSE
    /\ saves = 0 /\ crashes = 0 /\ failures = 0
    /\ leaked = {}
    /\ flushed = {}

Goto(t, label) == pc' = [pc EXCEPT ![t] = label]

-----------------------------------------------------------------------------
(* import_data (save is import_data of one question).                      *)

\* s.batch_insert: one transaction for all the questions
BatchInsert(t, n) ==
    LET new == [j \in 1..n |-> <<NextId + j - 1, saves + j>>]
    IN  /\ pc[t] = "idle" /\ ~booting
        /\ saves + n <= MaxSaves
        /\ rows' = [i \in DOMAIN rows \cup IdsOf(new) |->
              IF i \in DOMAIN rows THEN rows[i]
              ELSE [content |-> new[i - NextId + 1][2], deleted |-> FALSE]]
        /\ items' = [items EXCEPT ![t] = new]
        /\ saves' = saves + n
        /\ Goto(t, "add")
        /\ UNCHANGED <<vecs, disk, torn, tracked, delete_count, keys, mark_count,
                       found, booting, crashes, failures, aux>>

\* v.mul_add
MulAdd(t) ==
    /\ pc[t] = "add"
    /\ vecs' = vecs \cup Range(items[t])
    /\ Goto(t, "put")
    /\ UNCHANGED <<rows, disk, torn, tracked, delete_count, local, booting, budget, aux>>

\* eviction_base.put of one id: does it fit
PutTest(t) ==
    /\ pc[t] = "put"
    /\ Goto(t, IF Cardinality(tracked) < MaxSize THEN "insert" ELSE "pop")
    /\ UNCHANGED <<stores, local, booting, budget, aux>>

\* It did fit when it was asked
PutInsert(t) ==
    /\ pc[t] = "insert"
    /\ tracked' = tracked \cup {Head(items[t])[1]}
    /\ items' = [items EXCEPT ![t] = Tail(@)]
    /\ Goto(t, IF Tail(items[t]) = <<>> THEN "idle" ELSE "put")
    /\ booting' = (booting /\ Tail(items[t]) # <<>>)
    /\ UNCHANGED <<rows, vecs, disk, torn, delete_count, keys, mark_count, found,
                   budget, aux>>

PopOne(t, candidates, remaining(_), reported(_)) ==
    /\ pc[t] = "pop"
    /\ \E v \in candidates :
          /\ tracked' = remaining(v)
          /\ keys' = [keys EXCEPT ![t] = reported(v)]
          /\ Goto(t, IF Cardinality(reported(v)) >= CleanSize THEN "mark" ELSE "pop")
    /\ UNCHANGED <<rows, vecs, disk, torn, delete_count, items, mark_count, found,
                   booting, budget, aux>>
\* Mutant: the victim stays in the index
PopKeeps(t) ==
    PopOne(t, tracked, LAMBDA v : tracked, LAMBDA v : keys[t] \cup {v})
\* Mutant: on_evict is called without the victims
PopUnreported(t) ==
    PopOne(t, tracked, LAMBDA v : tracked \ {v}, LAMBDA v : keys[t])
\* Mutant: the new id is a candidate too
PopNew(t) ==
    PopOne(t, tracked \cup {Head(items[t])[1]},
           LAMBDA v : tracked \ {v}, LAMBDA v : keys[t] \cup {v})

\* It did not fit: popitem_wrapper takes clean_size victims, one by one
PopItem(t) ==
    /\ pc[t] = "pop"
    /\ \E v \in tracked :
          /\ tracked' = tracked \ {v}
          /\ keys' = [keys EXCEPT ![t] = @ \cup {v}]
          /\ Goto(t, IF Cardinality(keys[t] \cup {v}) >= CleanSize
                     THEN "mark" ELSE "pop")
    /\ UNCHANGED <<rows, vecs, disk, torn, delete_count, items, mark_count, found,
                   booting, budget, aux>>

\* popitem raises KeyError, of an empty index or because another thread took
\* the victim it had chosen: the victims taken before are not reported
PopError(t) ==
    /\ pc[t] = "pop"
    /\ tracked = {} \/ \E u \in Threads \ {t} : pc[u] = "pop"
    /\ leaked' = leaked \cup keys[t]
    /\ keys' = [keys EXCEPT ![t] = {}]
    /\ Goto(t, "mark")
    /\ UNCHANGED <<stores, items, mark_count, found, booting, budget, flushed>>

-----------------------------------------------------------------------------
(* _clear, the on_evict of the eviction index, and EvictionManager.        *)

\* soft_evict
MarkDeleted(t) ==
    /\ pc[t] = "mark"
    /\ rows' = [i \in DOMAIN rows |->
          IF i \in keys[t] THEN [rows[i] EXCEPT !.deleted = TRUE] ELSE rows[i]]
    /\ keys' = [keys EXCEPT ![t] = {}]
    /\ Goto(t, "count")
    /\ UNCHANGED <<vecs, disk, torn, tracked, delete_count, items, mark_count, found,
                   booting, budget, aux>>

\* check_evict: count(state=-1)
CountMarked(t) ==
    /\ pc[t] = "count"
    /\ mark_count' = [mark_count EXCEPT ![t] = Cardinality(Marked)]
    /\ Goto(t, "check")
    /\ UNCHANGED <<stores, items, keys, found, booting, budget, aux>>

\* Mutant: both limits have to be exceeded
CheckEvictBoth(t) ==
    /\ pc[t] = "check"
    /\ Goto(t, IF /\ mark_count[t] > MaxMarkCount
                  /\ mark_count[t] * RateDen > Cardinality(DOMAIN rows) * RateNum
               THEN "ids" ELSE "put")
    /\ UNCHANGED <<stores, local, booting, budget, aux>>

\* check_evict: count(is_all=True) and the comparison
CheckEvict(t) ==
    /\ pc[t] = "check"
    /\ Goto(t, IF \/ mark_count[t] > MaxMarkCount
                  \/ mark_count[t] * RateDen > Cardinality(DOMAIN rows) * RateNum
               THEN "ids" ELSE "put")
    /\ UNCHANGED <<stores, local, booting, budget, aux>>

\* delete: get_ids(deleted=True)
GetMarkedIds(t) ==
    /\ pc[t] = "ids"
    /\ keys' = [keys EXCEPT ![t] = Marked]
    /\ Goto(t, "clear")
    /\ UNCHANGED <<stores, items, mark_count, found, booting, budget, aux>>

\* delete: clear_deleted_data, whatever is marked by now
ClearDeletedData(t) ==
    /\ pc[t] = "clear"
    /\ rows' = Restrict(rows, Live)
    /\ Goto(t, "vdelete")
    /\ UNCHANGED <<vecs, disk, torn, tracked, delete_count, local, booting, budget, aux>>

\* delete: v.delete(mark_ids), every vector with one of those ids
VectorDelete(t) ==
    /\ pc[t] = "vdelete"
    /\ vecs' = {p \in vecs : p[1] \notin keys[t]}
    /\ keys' = [keys EXCEPT ![t] = {}]
    /\ delete_count' = delete_count + 1
    /\ Goto(t, IF delete_count + 1 >= RebuildCondition THEN "rebuild" ELSE "put")
    /\ UNCHANGED <<rows, disk, torn, tracked, items, mark_count, found, booting, budget, aux>>

\* rebuild: clear_deleted_data again
RebuildClear(t) ==
    /\ pc[t] = "rebuild"
    /\ rows' = Restrict(rows, Live)
    /\ Goto(t, "rebuilt")
    /\ UNCHANGED <<vecs, disk, torn, tracked, delete_count, local, booting, budget, aux>>

\* rebuild: Faiss.rebuild does nothing; delete_count starts again
RebuildDone(t) ==
    /\ pc[t] = "rebuilt"
    /\ delete_count' = 0
    /\ Goto(t, "put")
    /\ UNCHANGED <<rows, vecs, disk, torn, tracked, local, booting, budget, aux>>

-----------------------------------------------------------------------------
(* search and get_scalar_data, as adapt calls them, and flush.             *)

Search(t) ==
    /\ pc[t] = "idle" /\ ~booting
    /\ \E p \in vecs : found' = [found EXCEPT ![t] = p]
    /\ Goto(t, "lookup")
    /\ UNCHANGED <<stores, items, keys, mark_count, booting, budget, aux>>

\* get_scalar_data and, for a row that is live, the hit callback: neither
\* changes which ids the index holds
GetScalarData(t) ==
    /\ pc[t] = "lookup"
    /\ found' = [found EXCEPT ![t] = NoVector]
    /\ Goto(t, "idle")
    /\ UNCHANGED <<stores, items, keys, mark_count, booting, budget, aux>>

\* flush: nothing for the scalar store, then write_index for the vectors,
\* which empties the only index file and fills it again
FlushBegin(t) ==
    /\ pc[t] = "idle" /\ ~booting
    /\ torn' = TRUE
    /\ Goto(t, "flush")
    /\ UNCHANGED <<rows, vecs, disk, tracked, delete_count, local, booting,
                   budget, aux>>

\* Mutant: the index is not written
FlushEndScalarOnly(t) ==
    /\ pc[t] = "flush"
    /\ torn' = \E u \in Threads \ {t} : pc[u] = "flush"
    /\ flushed' = {i \in Live : <<i, rows[i].content>> \in vecs}
    /\ Goto(t, "idle")
    /\ UNCHANGED <<rows, vecs, disk, tracked, delete_count, local, booting,
                   budget, leaked>>

FlushEnd(t) ==
    /\ pc[t] = "flush"
    /\ disk' = vecs
    /\ torn' = \E u \in Threads \ {t} : pc[u] = "flush"
    /\ flushed' = {i \in Live : <<i, rows[i].content>> \in vecs}
    /\ Goto(t, "idle")
    /\ UNCHANGED <<rows, vecs, tracked, delete_count, local, booting, budget, leaked>>

-----------------------------------------------------------------------------
(* Failures.                                                               *)

\* A store call raises and the exception leaves import_data or flush: what it
\* has done so far stays, the ids it had not put in the index stay out of it,
\* a half written index file stays half written
Raise(t) ==
    /\ failures < MaxFailures
    /\ ~booting
    /\ pc[t] \in {"add", "mark", "count", "check", "ids", "clear", "vdelete",
                  "rebuild", "flush"}
    /\ failures' = failures + 1
    /\ leaked' = leaked \cup IdsOf(items[t])
                        \cup (IF pc[t] = "mark" THEN keys[t] ELSE {})
    /\ items' = [items EXCEPT ![t] = <<>>]
    /\ keys' = [keys EXCEPT ![t] = {}]
    /\ Goto(t, "idle")
    /\ UNCHANGED <<stores, mark_count, found, booting, saves, crashes, flushed>>

\* What no process lives to see: its calls, the eviction index, the count
Forgotten ==
    /\ tracked' = {}
    /\ delete_count' = 0
    /\ keys' = [t \in Threads |-> {}]
    /\ mark_count' = [t \in Threads |-> 0]
    /\ found' = [t \in Threads |-> NoVector]
    /\ crashes < MaxCrashes /\ crashes' = crashes + 1
    /\ UNCHANGED <<rows, disk, torn, saves, failures, flushed>>

\* The process dies and starts again: Faiss reads its file, and __init__
\* puts the live ids in a new eviction index
Crash ==
    /\ ~torn
    /\ Forgotten
    /\ vecs' = disk
    /\ booting' = (Live # {})
    /\ pc' = [t \in Threads |->
          IF t = BootThread /\ Live # {} THEN "put" ELSE "idle"]
    /\ items' = [t \in Threads |->
          IF t = BootThread
          THEN [j \in 1..Cardinality(Live) |-> <<Listed(Live)[j], rows[Listed(Live)[j]].content>>]
          ELSE <<>>]
    /\ leaked' = {}

\* It dies and does not start again: read_index raises on half a file
CrashTorn ==
    /\ torn
    /\ Forgotten
    /\ vecs' = {}
    /\ booting' = TRUE
    /\ pc' = [t \in Threads |-> "idle"]
    /\ items' = [t \in Threads |-> <<>>]
    /\ leaked' = Live

\* No call is running, and none needs to come
AtRest ==
    /\ \A t \in Threads : pc[t] = "idle"
    /\ UNCHANGED vars

\* What a thread does by itself once it is in a call
Continue(t) ==
    \/ MulAdd(t)
    \/ PutTest(t) \/ PutInsert(t) \/ PopItem(t) \/ PopError(t)
    \/ MarkDeleted(t) \/ CountMarked(t) \/ CheckEvict(t)
    \/ GetMarkedIds(t) \/ ClearDeletedData(t) \/ VectorDelete(t)
    \/ RebuildClear(t) \/ RebuildDone(t)
    \/ GetScalarData(t) \/ FlushEnd(t)

Next ==
    \/ \E t \in Threads :
          \/ \E n \in 1..MaxBatch : BatchInsert(t, n)
          \/ Continue(t)
          \/ Search(t)
          \/ FlushBegin(t)
          \/ Raise(t)
    \/ Crash \/ CrashTorn
    \/ AtRest

Spec == Init /\ [][Next]_vars

\* A call that has begun goes on; nobody has to make one
FairSpec == Spec /\ \A t \in Threads : WF_vars(Continue(t))

-----------------------------------------------------------------------------
(* Properties.                                                             *)

InPut == {"put", "insert", "pop", "mark", "count", "check", "ids", "clear",
          "vdelete", "rebuild", "rebuilt"}
Pair == Nat \X Nat

\* The type of every variable.
TypeOK ==
    /\ DOMAIN rows \subseteq Nat
    /\ \A i \in DOMAIN rows : rows[i] \in [content : Nat, deleted : BOOLEAN]
    /\ vecs \subseteq Pair /\ disk \subseteq Pair
    /\ torn \in BOOLEAN
    /\ tracked \subseteq Nat
    /\ delete_count \in Nat
    /\ pc \in [Threads -> {"idle", "add", "lookup", "flush"} \cup InPut]
    /\ items \in [Threads -> Seq(Pair)]
    /\ keys \in [Threads -> SUBSET Nat]
    /\ mark_count \in [Threads -> Nat]
    /\ found \in [Threads -> Pair]
    /\ booting \in BOOLEAN
    /\ saves \in Nat /\ crashes \in Nat /\ failures \in Nat
    /\ leaked \subseteq Nat /\ flushed \subseteq Nat
    /\ \A t \in Threads : pc[t] \in InPut \cup {"add"} <=> items[t] # <<>>

\* The ids that a running call will still put in the index or mark
InFlight(t) ==
    IdsOf(items[t]) \cup (IF pc[t] \in {"pop", "mark"} THEN keys[t] ELSE {})

\* The restart failed: there is no data manager
Broken == torn /\ booting

\* No KeyError can interrupt a batch that has taken a victim
BatchesFit == \/ CleanSize = 1
              \/ Threads = {BootThread} /\ CleanSize <= MaxSize

\* The eviction index and the table agree, up to what calls are doing and what
\* exceptions left.  No row outlives its turn: every live row is in the index,
\* or a running call is about to put it there or to mark it, or an exception
\* left it out: a store call raised, the restart failed on half an index file,
\* or a batch of several victims met a KeyError.  (A restart picks all of them
\* up again.)  And an eviction always frees a live row: the index never holds
\* the id of one that is marked or gone.  (Types first.)
IndexAgreesWithTable ==
    /\ TypeOK
    /\ \A i \in Live : \/ i \in tracked
                       \/ i \in leaked
                       \/ \E t \in Threads : i \in InFlight(t)
    /\ leaked # {} => failures > 0 \/ Broken \/ ~BatchesFit
    /\ tracked \subseteq Live

\* The row whose id is being put stays live throughout, through every
\* eviction that makes room for it, so check_evict never divides by an
\* all_count of 0.
RowBeingPutIsLive ==
    \A t \in Threads : pc[t] \in InPut => Head(items[t])[1] \in Live

\* The process has not died and no store call has raised
Undisturbed == crashes = 0 /\ failures = 0

\* A live row that a vector leads to holds the content the vector was made
\* from: get_scalar_data never answers with another question's answer,
\* although ids are not unique over time and the index file may be older
\* than the table.
NoWrongAnswer ==
    LET Agrees(p) == p[1] \in Live => rows[p[1]].content = p[2]
    IN  /\ \A p \in vecs : Agrees(p)
        /\ \A t \in Threads : pc[t] = "lookup" => Agrees(found[t])

\* A row that could be found when flush was called can be found as long as
\* it is live, over later evictions, crashes and restarts, unless the process
\* died over a half written index file and cannot start.
FlushedStaysFindable ==
    ~Broken => \A i \in flushed \cap Live : <<i, rows[i].content>> \in vecs

\* Without that exception, as flush is documented, "to prevent accidental loss
\* of memory data" (core.py:107): a crash in the middle of a flush loses what
\* the flushes before it had saved.
EveryFlushKept ==
    \A i \in flushed \cap Live : <<i, rows[i].content>> \in vecs

\* Between two calls the marked rows are within both limits of check_evict,
\* unless a failure came between marking and checking.
MarksBounded ==
    (Undisturbed /\ \A t \in Threads : pc[t] \notin InPut) =>
        /\ Cardinality(Marked) <= MaxMarkCount
        /\ Cardinality(Marked) * RateDen <= Cardinality(DOMAIN rows) * RateNum

\* Every save, search and restart comes to an end.
CallsEnd == \A t \in Threads : pc[t] # "idle" ~> pc[t] = "idle"

=============================================================================
