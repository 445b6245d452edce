---------------------------- MODULE VectorStores ----------------------------
(***************************************************************************)
(* The vector stores of gptcache/manager/vector_data as SSDataManager and  *)
(* its EvictionManager drive them: they agree in what mul_add and search   *)
(* do to an id, and differ in what keeps the vectors when the process      *)
(* ends, in what delete does, in rebuild, and in what a request meets.     *)
(*                                                                         *)
(* One thread saves and evicts, others look questions up, with data_check  *)
(* also through cache_health_check.  A step is one call of a store.  The   *)
(* table gives no id out twice, so an id stands for its row's embedding    *)
(* and the vectors are a set of ids.  A search may return any vector, an   *)
(* eviction take any ids, a restart put the live ids in any order.  A      *)
(* crash within a flush, after which no process starts, is left to         *)
(* SSDataManager.                                                          *)
(***************************************************************************)
EXTENDS Integers, Sequences, FiniteSets

CONSTANTS
    Stores,             \* the stores that may be configured
    Readers,            \* threads that look up
    DataCheck,          \* config.data_check
    MaxSize, CleanSize, \* of the eviction index
    RateNum, RateDen,   \* EvictionManager.MAX_MARK_RATE, as a fraction
    RebuildCondition,   \* EvictionManager.REBUILD_CONDITION
    MaxElements,        \* Hnswlib's max_elements
    MaxSaves,           \* bound: questions saved in a run
    MaxRestarts,        \* bound: crashes and restarts in a run
    MaxLookups          \* bound: lookups in a run

-----------------------------------------------------------------------------
(* The stores.  keeps: what survives the process, as of the last flush     *)
(* ("file"), all ("server") or nothing ("memory").  deletes: at once, ids  *)
(* that are not there being ignored ("any"), only when all of them are     *)
(* there ("all"), by a mark, raising at the first that is not there        *)
(* ("mark"), or never ("no").  heals: what update_embeddings does to an id *)
(* without vector, if the store has get_embeddings.                        *)

Faiss      == [keeps |-> "file",   deletes |-> "any",  heals |-> "unsupported"]
Hnswlib    == [keeps |-> "file",   deletes |-> "mark", heals |-> "unsupported"]
USearch    == [keeps |-> "file",   deletes |-> "no",   heals |-> "unsupported"]
DocArray   == [keeps |-> "file",   deletes |-> "any",  heals |-> "unsupported"]
\* Without persist_directory; otherwise it keeps as a server does
Chromadb   == [keeps |-> "memory", deletes |-> "any",  heals |-> "ignores"]
Milvus     == [keeps |-> "server", deletes |-> "any",  heals |-> "inserts"]
Qdrant     == [keeps |-> "server", deletes |-> "any",  heals |-> "unsupported"]
RedisIndex == [keeps |-> "server", deletes |-> "any",  heals |-> "unsupported"]
PGVector   == [keeps |-> "server", deletes |-> "any",  heals |-> "unsupported"]
Weaviate   == [keeps |-> "server", deletes |-> "all",  heals |-> "raises"]

\* VectorBase.get
Known == {Faiss, Hnswlib, USearch, DocArray, Chromadb, Milvus, Qdrant, RedisIndex,
          PGVector, Weaviate}

ASSUME StoresAssumption == Stores \subseteq Known
ASSUME SizesAssumption ==
    /\ MaxSize \in Nat /\ CleanSize \in 1..MaxSize
    /\ RateDen \in Nat /\ RateNum \in 0..(RateDen - 1)
    /\ RebuildCondition \in Nat \ {0} /\ MaxElements \in Nat

-----------------------------------------------------------------------------
VARIABLES
    store,          \* the store that is configured
    rows,           \* id -> "live", "marked" or "gone"
    vecs,           \* ids in the index
    pending,        \* ids that Qdrant has accepted and not yet put into it
    dead,           \* ids with Hnswlib's deletion mark, which keep their place
    disk,           \* the index file: [vecs, dead]
    tracked,        \* ids in the eviction index
    delete_count,   \* EvictionManager.delete_count
    process,        \* "up", or "starting": in __init__, or "down": it raised
    pc,             \* where the saving thread is
    todo,           \* the ids it has still to put into the eviction index
    ids,            \* the ids it is deleting
    reader,         \* reader -> [at, id]
    restarts, lookups,
    raised,         \* auxiliary: the calls of a store that raised
    lost,           \* auxiliary: ids whose vectors a restart or a refusal lost
    stray,          \* auxiliary: ids whose vectors outlive their rows for a
                    \* known reason
    leaked          \* auxiliary: ids that a raising put left untracked

index == <<vecs, pending, dead, disk>>
manager == <<tracked, delete_count, process, pc, todo, ids>>
lookup == <<reader, lookups>>
aux == <<raised, lost, stray, leaked>>
vars == <<store, rows, index, manager, lookup, restarts, aux>>

Asleep == [at |-> "idle", id |-> 0]

Init ==
    /\ store \in Stores
    /\ rows = << >> /\ vecs = {} /\ pending = {} /\ dead = {}
    /\ disk = [vecs |-> {}, dead |-> {}]
    /\ tracked = {} /\ delete_count = 0
    /\ process = "up" /\ pc = "idle" /\ todo = {} /\ ids = {}
    /\ reader = [r \in Readers |-> Asleep]
    /\ restarts = 0 /\ lookups = 0
    /\ raised = {} /\ lost = {} /\ stray = {} /\ leaked = {}

RowsAs(state) == {i \in DOMAIN rows : rows[i] = state}
Visible == vecs \ dead

-----------------------------------------------------------------------------
(* save: batch_insert, mul_add, eviction_base.put.                         *)

Insert ==
    /\ process = "up" /\ pc = "idle" /\ Len(rows) < MaxSaves
    /\ rows' = Append(rows, "live")
    /\ todo' = {Len(rows')}
    /\ pc' = "add"
    /\ UNCHANGED <<store, index, tracked, delete_count, process, ids, lookup, restarts, aux>>

Full == store = Hnswlib /\ Cardinality(vecs) >= MaxElements

\* Qdrant's upsert does not wait for the points to be searchable
MulAdd ==
    /\ pc = "add" /\ ~Full
    /\ IF store = Qdrant THEN pending' = pending \cup todo /\ UNCHANGED vecs
       ELSE vecs' = vecs \cup todo /\ UNCHANGED pending
    /\ pc' = "put"
    /\ UNCHANGED <<store, rows, dead, disk, tracked, delete_count, process, todo, ids,
                   lookup, restarts, aux>>

\* At any time later
Applied ==
    /\ \E i \in pending :
          /\ vecs' = vecs \cup {i}
          /\ pending' = pending \ {i}
    /\ UNCHANGED <<store, rows, dead, disk, manager, lookup, restarts, aux>>

\* An exception leaves save, and adapt swallows it: the row is not tracked.
\* One in the put of __init__ leaves no data manager
Raise(call) ==
    /\ raised' = raised \cup {call}
    /\ leaked' = leaked \cup todo
    /\ todo' = {} /\ ids' = {} /\ pc' = "idle"
    /\ process' = IF process = "starting" THEN "down" ELSE process

\* Hnswlib: add_items raises, also for want of room that marked ids take
MulAddRefused ==
    /\ pc = "add" /\ Full
    /\ Raise("add")
    /\ lost' = lost \cup todo
    /\ UNCHANGED <<store, rows, index, tracked, delete_count, lookup, restarts, stray>>

PutFits ==
    /\ pc = "put" /\ Cardinality(tracked) < MaxSize
    /\ \E i \in todo :
          /\ tracked' = tracked \cup {i}
          /\ todo' = todo \ {i}
    /\ pc' = IF todo' = {} THEN "idle" ELSE "put"
    /\ process' = IF todo' = {} THEN "up" ELSE process
    /\ UNCHANGED <<store, rows, index, delete_count, ids, lookup, restarts, aux>>

\* popitem, soft_evict and check_evict
PutEvicts ==
    /\ pc = "put" /\ Cardinality(tracked) >= MaxSize
    /\ \E victims \in {v \in SUBSET tracked : Cardinality(v) = CleanSize} :
          LET marked == victims \cup RowsAs("marked")
          IN  /\ tracked' = tracked \ victims
              /\ rows' = [i \in DOMAIN rows |-> IF i \in marked THEN "marked" ELSE rows[i]]
              /\ pc' = IF Cardinality(marked) * RateDen
                             > RateNum * Cardinality(marked \cup RowsAs("live"))
                       THEN "delete" ELSE "put"
    /\ UNCHANGED <<store, index, delete_count, process, todo, ids, lookup, restarts, aux>>

-----------------------------------------------------------------------------
(* EvictionManager.delete and rebuild.                                     *)

\* Mutant: the ids are read after the rows are gone
ClearDeletedDataFirst ==
    /\ pc = "delete"
    /\ rows' = [i \in DOMAIN rows |-> IF rows[i] = "marked" THEN "gone" ELSE rows[i]]
    /\ ids' = {}
    /\ pc' = "vector delete"
    /\ UNCHANGED <<store, index, tracked, delete_count, process, todo, lookup, restarts, aux>>

\* get_ids and clear_deleted_data
ClearDeletedData ==
    /\ pc = "delete"
    /\ ids' = RowsAs("marked")
    /\ rows' = [i \in DOMAIN rows |-> IF rows[i] = "marked" THEN "gone" ELSE rows[i]]
    /\ pc' = "vector delete"
    /\ UNCHANGED <<store, index, tracked, delete_count, process, todo, lookup, restarts, aux>>

Deletes ==
    CASE store.deletes = "any"  -> TRUE
      [] store.deletes = "all"  -> ids \subseteq vecs
      [] store.deletes = "mark" -> ids \subseteq Visible
      [] store.deletes = "no"   -> FALSE

\* Mutant: one deletion too late
VectorDeleteRebuildsLate ==
    /\ pc = "vector delete" /\ Deletes
    /\ IF store.deletes = "mark" THEN dead' = dead \cup ids /\ UNCHANGED vecs
       ELSE vecs' = (vecs \cup pending) \ ids /\ UNCHANGED dead
    /\ pending' = {}
    /\ delete_count' = delete_count + 1
    /\ pc' = IF delete_count' > RebuildCondition THEN "rebuild" ELSE "put"
    /\ ids' = {}
    /\ UNCHANGED <<store, rows, disk, tracked, process, todo, lookup, restarts, aux>>

\* Qdrant applies its updates in order, and waits for a deletion
VectorDelete ==
    /\ pc = "vector delete" /\ Deletes
    /\ IF store.deletes = "mark" THEN dead' = dead \cup ids /\ UNCHANGED vecs
       ELSE vecs' = (vecs \cup pending) \ ids /\ UNCHANGED dead
    /\ pending' = {}
    /\ delete_count' = delete_count + 1
    /\ pc' = IF delete_count' >= RebuildCondition THEN "rebuild" ELSE "put"
    /\ ids' = {}
    /\ UNCHANGED <<store, rows, disk, tracked, process, todo, lookup, restarts, aux>>

\* Hnswlib has marked the ids before the one that is not there; Weaviate looks
\* all of them up before it deletes the first
VectorDeleteRaises ==
    /\ pc = "vector delete" /\ ~Deletes
    /\ \E done \in IF store.deletes = "mark" THEN SUBSET (ids \cap Visible) ELSE {{}} :
          /\ dead' = dead \cup done
          /\ stray' = stray \cup (ids \ done)
    /\ Raise("delete")
    /\ UNCHANGED <<store, rows, vecs, pending, disk, tracked, delete_count, lookup, restarts,
                   lost>>

\* Hnswlib's get_items wants a vector of every id
Rebuilds == store = Hnswlib => RowsAs("live") \subseteq Visible

\* Mutant: the new index is left empty
RebuildEmpty ==
    /\ pc = "rebuild" /\ Rebuilds
    /\ vecs' = IF store = Hnswlib THEN {} ELSE vecs
    /\ dead' = {}
    /\ delete_count' = 0
    /\ pc' = "put"
    /\ UNCHANGED <<store, rows, pending, disk, tracked, process, todo, ids, lookup, restarts,
                   aux>>

\* Hnswlib puts the live ids into a new index; Milvus compacts, PGVector
\* reindexes, Qdrant updates its settings, the others do nothing
Rebuild ==
    /\ pc = "rebuild" /\ Rebuilds
    /\ vecs' = IF store = Hnswlib THEN RowsAs("live") ELSE vecs
    /\ dead' = {}
    /\ delete_count' = 0
    /\ pc' = "put"
    /\ UNCHANGED <<store, rows, pending, disk, tracked, process, todo, ids, lookup, restarts,
                   aux>>

\* The old index stays, and delete_count with it: every deletion tries again
RebuildRaises ==
    /\ pc = "rebuild" /\ ~Rebuilds
    /\ Raise("rebuild")
    /\ UNCHANGED <<store, rows, index, tracked, delete_count, lookup, restarts, lost, stray>>

-----------------------------------------------------------------------------
(* flush, and the end and the start of the process.                        *)

Flush ==
    /\ process = "up" /\ pc = "idle" /\ store.keeps = "file"
    /\ disk' = [vecs |-> vecs, dead |-> dead]
    /\ UNCHANGED <<store, rows, vecs, pending, dead, manager, lookup, restarts, aux>>

\* Mutant: the live ids are not put into the eviction index
RestartUntracked ==
    /\ restarts < MaxRestarts /\ restarts' = restarts + 1
    /\ store.keeps = "server"
    /\ tracked' = {} /\ delete_count' = 0 /\ ids' = {} /\ leaked' = {}
    /\ todo' = {} /\ pc' = "idle" /\ process' = "up"
    /\ reader' = [r \in Readers |-> Asleep]
    /\ UNCHANGED <<store, rows, index, lookups, raised, lost, stray>>

\* A crash, or an exit after Flush; __init__ then puts the live ids into the
\* eviction index, which may evict.  What Qdrant has accepted it still applies
Restart ==
    LET left == CASE store.keeps = "file"   -> disk
                  [] store.keeps = "server" -> [vecs |-> vecs, dead |-> dead]
                  [] store.keeps = "memory" -> [vecs |-> {}, dead |-> {}]
        kept == (left.vecs \ left.dead) \cup pending
    IN  /\ restarts < MaxRestarts /\ restarts' = restarts + 1
        /\ vecs' = left.vecs /\ dead' = left.dead
        /\ tracked' = {} /\ delete_count' = 0 /\ ids' = {} /\ leaked' = {}
        /\ todo' = RowsAs("live")
        /\ pc' = IF RowsAs("live") = {} THEN "idle" ELSE "put"
        /\ process' = IF RowsAs("live") = {} THEN "up" ELSE "starting"
        /\ reader' = [r \in Readers |-> Asleep]
        /\ lost' = lost \cup (RowsAs("live") \ kept)
        /\ stray' = stray \cup (kept \cap RowsAs("gone"))
        /\ UNCHANGED <<store, rows, pending, disk, lookups, raised>>

-----------------------------------------------------------------------------
(* adapt: search, get_scalar_data, cache_health_check.                     *)

Move(r, at, id) == reader' = [reader EXCEPT ![r] = [at |-> at, id |-> id]]
Awake(r, at) == reader[r].at = at
LookupRaises(r, call) == raised' = raised \cup {call} /\ Move(r, "idle", 0)

\* A result, or none
Search(r) ==
    /\ process = "up" /\ Awake(r, "idle") /\ lookups < MaxLookups
    /\ lookups' = lookups + 1
    /\ \E i \in Visible : Move(r, "fetch", i)
    /\ UNCHANGED <<store, rows, index, manager, restarts, aux>>

\* Hnswlib's knn_query raises when there are fewer vectors than top_k
SearchRaises(r) ==
    /\ process = "up" /\ Awake(r, "idle") /\ lookups < MaxLookups
    /\ lookups' = lookups + 1
    /\ store = Hnswlib /\ Visible = {}
    /\ LookupRaises(r, "search")
    /\ UNCHANGED <<store, rows, index, manager, restarts, lost, stray, leaked>>

\* get_data_by_id; without data_check a live row is an answer
Fetch(r) ==
    /\ Awake(r, "fetch")
    /\ IF DataCheck /\ rows[reader[r].id] = "live" THEN Move(r, "check", reader[r].id)
       ELSE Move(r, "idle", 0)
    /\ UNCHANGED <<store, rows, index, manager, lookups, restarts, aux>>

\* cache_health_check: get_embeddings of the base class raises
CheckUnsupported(r) ==
    /\ Awake(r, "check") /\ store.heals = "unsupported"
    /\ LookupRaises(r, "check")
    /\ UNCHANGED <<store, rows, index, manager, lookups, restarts, lost, stray, leaked>>

\* The vector is the row's own, or there is none any more
Check(r) ==
    /\ Awake(r, "check") /\ store.heals # "unsupported"
    /\ IF reader[r].id \in Visible THEN Move(r, "idle", 0)
       ELSE Move(r, "heal", reader[r].id)
    /\ UNCHANGED <<store, rows, index, manager, lookups, restarts, aux>>

\* update_embeddings: Milvus deletes and inserts, Chroma updates what is there
Heal(r) ==
    /\ Awake(r, "heal") /\ store.heals # "raises"
    /\ vecs' = IF store.heals = "inserts" THEN vecs \cup {reader[r].id} ELSE vecs
    /\ stray' = stray \cup ((vecs' \ vecs) \cap RowsAs("gone"))
    /\ Move(r, "idle", 0)
    /\ UNCHANGED <<store, rows, pending, dead, disk, manager, lookups, restarts, raised, lost,
                   leaked>>

\* Weaviate's update deletes first, which raises without the id
HealRaises(r) ==
    /\ Awake(r, "heal") /\ store.heals = "raises"
    /\ LookupRaises(r, "heal")
    /\ UNCHANGED <<store, rows, index, manager, lookups, restarts, lost, stray, leaked>>

-----------------------------------------------------------------------------
AtRest == pc = "idle" /\ UNCHANGED vars

Next ==
    \/ Insert \/ MulAdd \/ Applied \/ MulAddRefused \/ PutFits \/ PutEvicts
    \/ ClearDeletedData \/ VectorDelete \/ VectorDeleteRaises
    \/ Rebuild \/ RebuildRaises \/ Flush \/ Restart
    \/ \E r \in Readers :
          \/ Search(r) \/ SearchRaises(r) \/ Fetch(r)
          \/ CheckUnsupported(r) \/ Check(r) \/ Heal(r) \/ HealRaises(r)
    \/ AtRest

Spec == Init /\ [][Next]_vars

-----------------------------------------------------------------------------
(* Properties.                                                             *)

\* Types.
TypeOK ==
    /\ rows \in Seq({"live", "marked", "gone"})
    /\ vecs \cup pending \subseteq DOMAIN rows /\ dead \subseteq vecs
    /\ pending # {} => store = Qdrant
    /\ dead # {} => store.deletes = "mark"
    /\ tracked \subseteq RowsAs("live") /\ delete_count \in Nat
    /\ process \in {"starting", "up", "down"}
    /\ pc \in {"idle", "add", "put", "delete", "vector delete", "rebuild"}
    /\ todo \subseteq DOMAIN rows /\ ids \subseteq DOMAIN rows

\* Between saves, a search can find every live row, over deletions, rebuilds
\* and restarts; it cannot when a restart came before a flush, Hnswlib refused
\* the vector, or Qdrant, whose upsert does not wait, has still to apply it.
\* (Types first.)
LiveRowsFindable ==
    /\ TypeOK
    /\ pc = "idle" => RowsAs("live") \ lost \subseteq Visible \cup pending

\* Between saves, a vector that a search can return belongs to a row, live or
\* marked, except when its deletion raised, cache_health_check put it back after
\* the row had been removed, or a restart found it in the store without its row:
\* in an older file, or in any store that keeps its vectors, when the process
\* ended between clear_deleted_data and the deletion of the vectors.
NoOrphans == pc = "idle" => Visible \cap RowsAs("gone") \subseteq stray

\* Hnswlib's max_elements has to leave room for the vectors of the live rows,
\* of those that stay marked between saves, and for what RebuildCondition - 1
\* deletions leave; and for as much once more for every restart, since these
\* forget delete_count, and may load a file of vectors whose rows are long gone.
\* Then no save is refused, unless a deletion or rebuild raised.
MostMarked == (RateNum * (MaxSize - CleanSize + 1)) \div (RateDen - RateNum)
RoomBeforeRebuild ==
    MaxSize + MostMarked + (RebuildCondition - 1) * (MostMarked + CleanSize)
RoomNeeded == (restarts + 1) * RoomBeforeRebuild + 1
HnswRoom ==
    "add" \in raised =>
        MaxElements < RoomNeeded \/ "delete" \in raised \/ "rebuild" \in raised

\* A store that deletes any ids never raises, whatever was lost; and what the
\* eviction index does not track was leaked by a put that raised, so the table
\* stays within maxsize.
RaisingLeaks ==
    /\ store.deletes = "any" => raised \cap {"add", "delete", "rebuild"} = {}
    /\ pc = "idle" => RowsAs("live") \subseteq tracked \cup leaked

=============================================================================
