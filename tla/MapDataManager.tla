--------------------------- MODULE MapDataManager ---------------------------
(***************************************************************************)
(* The data manager of the default cache: MapDataManager                   *)
(* (gptcache/manager/data_manager.py), a bounded map from questions to     *)
(* answers with the sessions that were given them, kept in a pickle file.  *)
(*                                                                         *)
(* A value of the map is a tuple whose set of sessions is shared with      *)
(* whoever found it.  Every answer is saved once, so the answer tells      *)
(* which tuple a caller holds.  The container is an LRU map of cachetools  *)
(* or one the user supplies; here it discards any entry but the new one.   *)
(* The operations are given to the callers as actions on data and file.    *)
(***************************************************************************)
EXTENDS Naturals, FiniteSets, Functions

CONSTANTS
    Keys,           \* embedding_data: with the default embedding, the question
    Sessions,       \* session names
    NoSession,      \* a call without session
    MaxSize         \* max_size

ASSUME MapAssumption == MaxSize \in Nat \ {0} /\ NoSession \notin Sessions

VARIABLES
    data,           \* self.data: key -> [ans, sess]
    file            \* data_path: the map it holds, and whether it is whole

Entry(a, s) == [ans |-> a, sess |-> {s} \ {NoSession}]

\* Cache.__setitem__ of cachetools, as the set of the maps it may leave
SetItem(d, k, e) ==
    {[j \in DOMAIN b \cup {k} |-> IF j = k THEN e ELSE b[j]] : b \in
        IF k \in DOMAIN d \/ Cardinality(DOMAIN d) < MaxSize THEN {d}
        ELSE {Restrict(d, DOMAIN d \ {v}) : v \in DOMAIN d}}

\* save, and import_data of one question: a known key gets a new tuple, and
\* the sessions of the old one are forgotten
Save(k, a, s) == data' \in SetItem(data, k, Entry(a, s)) /\ UNCHANGED file

\* get_scalar_data: check_hit_session on the tuple that search returned
Hits(k, s) ==
    k \in DOMAIN data /\ (s # NoSession => s \notin data[k].sess)

\* Mutant: the session is not added
AddSessionNot(k, a, s) == UNCHANGED <<data, file>>

\* add_session on the tuple of answer a: without effect on the map when that
\* tuple is no longer in it
AddSession(k, a, s) ==
    /\ data' = IF s # NoSession /\ k \in DOMAIN data /\ data[k].ans = a
               THEN [data EXCEPT ![k].sess = @ \cup {s}] ELSE data
    /\ UNCHANGED file

\* list_sessions(session_id): the keys of the session's entries, and the names
\* of the sessions of all other entries
ListSessions(s) ==
    {k \in DOMAIN data : s \in data[k].sess}
        \cup UNION {data[k].sess : k \in {j \in DOMAIN data : s \notin data[j].sess}}

\* self.data[k] or set.remove raises KeyError for this element of the list
DeleteRaises(k, s) == k \in DOMAIN data => s \notin data[k].sess

\* One round of the loop of delete_session: the session leaves the entry, which
\* goes when it was the last one
DeleteOne(k, s) ==
    /\ ~DeleteRaises(k, s)
    /\ data' = IF data[k].sess = {s} THEN Restrict(data, DOMAIN data \ {k})
               ELSE [data EXCEPT ![k].sess = @ \ {s}]
    /\ UNCHANGED file

\* flush: open(data_path, "wb") empties the file
FlushOpen == file' = [whole |-> FALSE, map |-> << >>] /\ UNCHANGED data

\* flush: pickle.dump
FlushDump == file' = [whole |-> TRUE, map |-> data] /\ UNCHANGED data

\* init: an empty file raises EOFError, which nothing catches
Load == file.whole /\ data' = file.map /\ UNCHANGED file

\* No file leaves the map empty, as a file with an empty map does
MapInit == data = << >> /\ file = [whole |-> TRUE, map |-> << >>]
=============================================================================
