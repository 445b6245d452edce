-------------------------- MODULE LLMAdaptersProofs --------------------------
(***************************************************************************)
(* The adapters over the default cache, for any threads, requests, keys,   *)
(* sessions, restarts and raising calls: what is cached is whole, a stream *)
(* that ends was saved, a session is given an answer once, and drop        *)
(* forgets it.                                                             *)
(*                                                                         *)
(* The argument: a call of the model belongs to one thread until it is     *)
(* saved, once, and only then may the map, the file and other threads hold *)
(* it; and a session belongs to one request, or one drop, at a time.       *)
(***************************************************************************)
EXTENDS LLMAdapters, FiniteSetTheorems, SequenceTheorems, TLAPS

-----------------------------------------------------------------------------
(* The inductive invariants.                                               *)

CallRec == [k : Keys, n : Nat, parts : Nat, saves : Nat]
Labels == {"idle", "prompt", "search", "hit", "miss", "open", "save", "flush", "dump", "drop"}
Locals == [session : Sessions \cup {NoSession}, call : Nat, read : 0..Chunks]

\* A call of cs that was answered for k, in full, and saved
Saved(cs, c, k) ==
    /\ c \in DOMAIN cs
    /\ cs[c].k = k /\ cs[c].parts = Chunks /\ cs[c].saves = 1

\* A map with room for its entries, which are saved calls of cs
GoodMap(cs, m) ==
    /\ DOMAIN m \subseteq Keys
    /\ IsFiniteSet(DOMAIN m) /\ Cardinality(DOMAIN m) <= MaxSize
    /\ m = [k \in DOMAIN m |-> m[k]]
    /\ \A k \in DOMAIN m :
          /\ m[k] \in [ans : Nat, sess : SUBSET Sessions]
          /\ Saved(cs, m[k].ans, k)

\* The types of the threads' variables
ThreadTypes ==
    /\ pc \in [Threads -> Labels] /\ req \in [Threads -> Request]
    /\ frame \in [Threads -> Locals] /\ result \in [Threads -> Nat \cup {None, Raised}]

\* The map, and the file
StoreTypes == GoodMap(calls, data) /\ GoodMap(calls, file.map) /\ file.whole \in BOOLEAN

OtherTypes ==
    /\ up \in BOOLEAN /\ calls \in Seq(CallRec)
    /\ tmp_args \in [Threads -> Sessions \cup {NoSession}]
    /\ todo \in [Threads -> SUBSET (Keys \cup Sessions)]
    /\ given \subseteq (Sessions \X Nat) /\ dropped \subseteq Sessions

Shape == ThreadTypes /\ StoreTypes /\ OtherTypes

\* What a thread knows of the call it handles, or returned
CallOf(t) ==
    /\ pc[t] = "hit" => Saved(calls, Call(t), Key(t))
    /\ pc[t] \in {"open", "save"} =>
          /\ Call(t) \in DOMAIN calls
          /\ calls[Call(t)] = [k |-> Key(t), n |-> req[t].n, parts |-> 0, saves |-> 0]
    /\ pc[t] = "save" => frame[t].read = Chunks
    /\ pc[t] \in {"flush", "dump"} => Saved(calls, Call(t), Key(t)) /\ calls[Call(t)].n = req[t].n
    /\ pc[t] = "drop" => result[t] = None /\ req[t].s \in Sessions
    /\ pc[t] = "idle" /\ result[t] \notin {None, Raised} =>
          /\ result[t] \in DOMAIN calls
          /\ Api(t).counted => calls[result[t]].n = req[t].n
          /\ Streamed(t) => calls[result[t]].saves = 1

\* A call that is not saved yet has one thread.
Owned ==
    \A t, u \in Threads :
        t # u /\ pc[t] \in {"open", "save"} /\ pc[u] \in {"open", "save"} => Call(t) # Call(u)

\* Only a flush leaves the file truncated.
Truncated == up /\ ~file.whole => \E t \in Threads : pc[t] = "dump"

CallInv == Shape /\ (\A t \in Threads : CallOf(t)) /\ Owned /\ Truncated

-----------------------------------------------------------------------------
(* Maps and sequences.                                                     *)

\* What __setitem__ may leave: the new entry, and old ones.
LEMMA SetItemFacts ==
    ASSUME NEW d, DOMAIN d \subseteq Keys, IsFiniteSet(DOMAIN d),
           Cardinality(DOMAIN d) <= MaxSize,
           NEW k \in Keys, NEW e, NEW m \in SetItem(d, k, e)
    PROVE  /\ DOMAIN m \subseteq Keys /\ k \in DOMAIN m /\ m[k] = e
           /\ IsFiniteSet(DOMAIN m) /\ Cardinality(DOMAIN m) <= MaxSize
           /\ m = [j \in DOMAIN m |-> m[j]]
           /\ \A j \in DOMAIN m \ {k} : j \in DOMAIN d /\ m[j] = d[j]
<1>1. MaxSize \in Nat /\ Cardinality(DOMAIN d) \in Nat
  BY MapAssumption, FS_CardinalityType
<1>2. PICK b : /\ m = [j \in DOMAIN b \cup {k} |-> IF j = k THEN e ELSE b[j]]
               /\ \/ b = d /\ (k \in DOMAIN d \/ Cardinality(DOMAIN d) < MaxSize)
                  \/ /\ k \notin DOMAIN d
                     /\ \E v \in DOMAIN d : b = Restrict(d, DOMAIN d \ {v})
  BY DEF SetItem
<1>3. DOMAIN m = DOMAIN b \cup {k} /\ m[k] = e /\ \A j \in DOMAIN b \ {k} : m[j] = b[j]
  BY <1>2
<1>4. DOMAIN b \subseteq DOMAIN d /\ \A j \in DOMAIN b : b[j] = d[j]
  BY <1>2 DEF Restrict
<1>5. IsFiniteSet(DOMAIN m) /\ Cardinality(DOMAIN m) <= MaxSize
  <2>1. CASE b = d /\ k \in DOMAIN d
    <3>1. DOMAIN m = DOMAIN d
      BY <1>3, <2>1
    <3> QED BY <3>1
  <2>2. CASE b = d /\ k \notin DOMAIN d /\ Cardinality(DOMAIN d) < MaxSize
    <3>1. IsFiniteSet(DOMAIN m) /\ Cardinality(DOMAIN m) = Cardinality(DOMAIN d) + 1
      BY <1>3, <2>2, FS_AddElement
    <3> QED BY <1>1, <2>2, <3>1
  <2>3. CASE k \notin DOMAIN d /\ \E v \in DOMAIN d : b = Restrict(d, DOMAIN d \ {v})
    <3>1. PICK v \in DOMAIN d : b = Restrict(d, DOMAIN d \ {v})
      BY <2>3
    <3>2. DOMAIN b = DOMAIN d \ {v} /\ k \notin DOMAIN b
      BY <2>3, <3>1 DEF Restrict
    <3>3. IsFiniteSet(DOMAIN b) /\ Cardinality(DOMAIN b) = Cardinality(DOMAIN d) - 1
      BY <3>2, FS_RemoveElement
    <3>4. IsFiniteSet(DOMAIN m) /\ Cardinality(DOMAIN m) = Cardinality(DOMAIN b) + 1
      BY <1>3, <3>2, <3>3, FS_AddElement
    <3> QED BY <1>1, <3>3, <3>4
  <2> QED BY <1>2, <2>1, <2>2, <2>3
<1>6. m = [j \in DOMAIN m |-> m[j]]
  BY <1>2
<1> QED BY <1>3, <1>4, <1>5, <1>6

\* A call that is appended changes none of the others.
LEMMA AppendFacts ==
    ASSUME NEW s \in Seq(CallRec), NEW c \in CallRec
    PROVE  /\ Append(s, c) \in Seq(CallRec) /\ Len(s) \in Nat
           /\ DOMAIN s = 1..Len(s) /\ DOMAIN Append(s, c) = 1..(Len(s) + 1)
           /\ \A i \in DOMAIN s : Append(s, c)[i] = s[i]
           /\ Append(s, c)[Len(s) + 1] = c
<1>1. Append(s, c) \in Seq(CallRec) /\ Len(Append(s, c)) = Len(s) + 1
  BY AppendProperties
<1>2. DOMAIN s = 1..Len(s) /\ Len(s) \in Nat
  BY LenProperties
<1>3. DOMAIN Append(s, c) = 1..(Len(s) + 1)
  BY <1>1, LenProperties
<1>4. /\ \A i \in 1..Len(s) : Append(s, c)[i] = s[i]
      /\ Append(s, c)[Len(s) + 1] = c
  BY AppendProperties
<1> QED BY <1>1, <1>2, <1>3, <1>4

\* The prompts of a request, with the first one taken off
LEMMA PromptFacts ==
    ASSUME NEW ks \in Seq(Keys) \ {<< >>}
    PROVE  /\ Head(ks) \in Keys /\ Len(ks) \in Nat
           /\ Len(ks) > 1 => Tail(ks) \in Seq(Keys) \ {<< >>}
<1>1. Len(ks) \in Nat \ {0} /\ Head(ks) \in Keys
  BY LenProperties, EmptySeq, HeadTailProperties
<1>2. Tail(ks) \in Seq(Keys) /\ Len(Tail(ks)) = Len(ks) - 1
  BY HeadTailProperties
<1>3. ASSUME Len(ks) > 1 PROVE Tail(ks) # << >>
  <2>1. Len(Tail(ks)) # 0
    BY <1>1, <1>2, <1>3
  <2>2. Len(<< >>) = 0
    OBVIOUS
  <2> QED BY <2>1, <2>2
<1> QED BY <1>1, <1>2, <1>3

-----------------------------------------------------------------------------
(* The operations of the map.                                              *)

\* The empty map is good.
LEMMA EmptyMap == \A cs : GoodMap(cs, << >>)
<1>1. DOMAIN << >> = {}
  OBVIOUS
<1>2. IsFiniteSet({}) /\ Cardinality({}) = 0
  BY FS_EmptySet
<1>3. << >> = [k \in DOMAIN << >> |-> << >>[k]]
  BY <1>1
<1> QED BY <1>1, <1>2, <1>3, MapAssumption DEF GoodMap

\* A map stays good when no saved call changes.
LEMMA MapKept ==
    ASSUME NEW cs, NEW ds, NEW m, GoodMap(cs, m),
           \A c \in DOMAIN cs : cs[c].saves = 1 => c \in DOMAIN ds /\ ds[c] = cs[c]
    PROVE  GoodMap(ds, m)
BY DEF GoodMap, Saved

\* save keeps the map good, and no entry but the new one changes.
LEMMA SaveFacts ==
    ASSUME NEW cs, GoodMap(cs, data), NEW k \in Keys, NEW a \in Nat,
           NEW s \in Sessions \cup {NoSession}, Saved(cs, a, k), Save(k, a, s)
    PROVE  /\ GoodMap(cs, data') /\ file' = file
           /\ k \in DOMAIN data' /\ data'[k] = Entry(a, s)
           /\ \A j \in DOMAIN data' \ {k} : j \in DOMAIN data /\ data'[j] = data[j]
<1>1. data' \in SetItem(data, k, Entry(a, s)) /\ file' = file
  BY DEF Save
<1>2. DOMAIN data \subseteq Keys /\ IsFiniteSet(DOMAIN data) /\ Cardinality(DOMAIN data) <= MaxSize
  BY DEF GoodMap
<1>3. /\ DOMAIN data' \subseteq Keys /\ k \in DOMAIN data' /\ data'[k] = Entry(a, s)
      /\ IsFiniteSet(DOMAIN data') /\ Cardinality(DOMAIN data') <= MaxSize
      /\ data' = [j \in DOMAIN data' |-> data'[j]]
      /\ \A j \in DOMAIN data' \ {k} : j \in DOMAIN data /\ data'[j] = data[j]
  BY <1>1, <1>2, SetItemFacts
<1>4. Entry(a, s) \in [ans : Nat, sess : SUBSET Sessions] /\ Entry(a, s).ans = a
  BY DEF Entry
<1>5. ASSUME NEW j \in DOMAIN data'
      PROVE  data'[j] \in [ans : Nat, sess : SUBSET Sessions] /\ Saved(cs, data'[j].ans, j)
  <2>1. CASE j = k
    BY <1>3, <1>4, <2>1
  <2>2. CASE j # k
    BY <1>3, <2>2 DEF GoodMap
  <2> QED BY <2>1, <2>2
<1> QED BY <1>1, <1>3, <1>5 DEF GoodMap

\* add_session changes no answer, and adds the session to the entries of one.
LEMMA AddSessionFacts ==
    ASSUME NEW cs, GoodMap(cs, data), NEW k \in Keys, NEW a \in Nat,
           NEW s \in Sessions \cup {NoSession}, AddSession(k, a, s)
    PROVE  /\ GoodMap(cs, data') /\ file' = file /\ DOMAIN data' = DOMAIN data
           /\ \A j \in DOMAIN data : /\ data'[j].ans = data[j].ans
                                     /\ data[j].sess \subseteq data'[j].sess
                                     /\ data'[j].sess \subseteq data[j].sess \cup {s}
           /\ s # NoSession /\ k \in DOMAIN data /\ data[k].ans = a => s \in data'[k].sess
<1>1. data \in [DOMAIN data -> [ans : Nat, sess : SUBSET Sessions]]
  BY DEF GoodMap
<1>2. CASE s # NoSession /\ k \in DOMAIN data /\ data[k].ans = a
  <2>1. data' = [data EXCEPT ![k].sess = @ \cup {s}] /\ file' = file
    BY <1>2 DEF AddSession
  <2>2. data' \in [DOMAIN data -> [ans : Nat, sess : SUBSET Sessions]]
    BY <1>1, <1>2, <2>1
  <2>3. /\ data'[k].ans = data[k].ans /\ data'[k].sess = data[k].sess \cup {s}
        /\ \A j \in DOMAIN data \ {k} : data'[j] = data[j]
    BY <1>1, <1>2, <2>1
  <2>4. DOMAIN data' = DOMAIN data /\ \A j \in DOMAIN data : data'[j].ans = data[j].ans
    BY <2>2, <2>3
  <2>5. GoodMap(cs, data')
    BY <2>2, <2>4 DEF GoodMap
  <2> QED BY <1>2, <2>1, <2>3, <2>4, <2>5
<1>3. CASE ~(s # NoSession /\ k \in DOMAIN data /\ data[k].ans = a)
  BY <1>3 DEF AddSession
<1> QED BY <1>2, <1>3

\* One round of delete_session: the session leaves one entry.
LEMMA DeleteFacts ==
    ASSUME NEW cs, GoodMap(cs, data), NEW k, NEW s \in Sessions, DeleteOne(k, s)
    PROVE  /\ GoodMap(cs, data') /\ file' = file /\ DOMAIN data' \subseteq DOMAIN data
           /\ \A j \in DOMAIN data' : /\ data'[j].ans = data[j].ans
                                      /\ data'[j].sess = data[j].sess \ IF j = k THEN {s} ELSE {}
<1>1. data \in [DOMAIN data -> [ans : Nat, sess : SUBSET Sessions]]
  BY DEF GoodMap
<1>2. k \in DOMAIN data /\ file' = file
  BY DEF DeleteOne, DeleteRaises
<1>3. CASE data[k].sess = {s}
  <2>1. data' = [j \in DOMAIN data \ {k} |-> data[j]]
    BY <1>2, <1>3 DEF DeleteOne, Restrict
  <2>2. DOMAIN data' = DOMAIN data \ {k} /\ \A j \in DOMAIN data' : data'[j] = data[j]
    BY <2>1
  <2>3. IsFiniteSet(DOMAIN data') /\ Cardinality(DOMAIN data') <= MaxSize
    <3>1. IsFiniteSet(DOMAIN data) /\ Cardinality(DOMAIN data) <= MaxSize
      BY DEF GoodMap
    <3>2. IsFiniteSet(DOMAIN data') /\ Cardinality(DOMAIN data') = Cardinality(DOMAIN data) - 1
      BY <1>2, <2>2, <3>1, FS_RemoveElement
    <3>3. Cardinality(DOMAIN data) \in Nat /\ MaxSize \in Nat
      BY <3>1, FS_CardinalityType, MapAssumption
    <3> QED BY <3>1, <3>2, <3>3
  <2>4. GoodMap(cs, data')
    BY <2>1, <2>2, <2>3 DEF GoodMap
  <2> QED BY <1>2, <2>2, <2>4
<1>4. CASE data[k].sess # {s}
  <2>1. data' = [data EXCEPT ![k].sess = @ \ {s}]
    BY <1>4 DEF DeleteOne
  <2>2. data' \in [DOMAIN data -> [ans : Nat, sess : SUBSET Sessions]]
    BY <1>1, <1>2, <2>1
  <2>3. /\ data'[k].ans = data[k].ans /\ data'[k].sess = data[k].sess \ {s}
        /\ \A j \in DOMAIN data \ {k} : data'[j] = data[j]
    BY <1>1, <1>2, <2>1
  <2>4. DOMAIN data' = DOMAIN data /\ \A j \in DOMAIN data : data'[j].ans = data[j].ans
    BY <2>2, <2>3
  <2>5. GoodMap(cs, data')
    BY <2>2, <2>4 DEF GoodMap
  <2> QED BY <1>2, <2>3, <2>4, <2>5
<1> QED BY <1>3, <1>4

-----------------------------------------------------------------------------
(* Threads and their calls.                                                *)

\* Only t moves.
Moves(t) ==
    \A u \in Threads \ {t} :
        pc'[u] = pc[u] /\ req'[u] = req[u] /\ frame'[u] = frame[u] /\ result'[u] = result[u]

\* No call goes, and none changes but the one that t saves.
CallsKept(t) ==
    \A c \in DOMAIN calls :
        /\ c \in DOMAIN calls' /\ calls'[c].n = calls[c].n
        /\ \/ calls'[c] = calls[c]
           \/ pc[t] = "save" /\ c = Call(t)

\* What the threads that do not move know stays so.
LEMMA OthersKept ==
    ASSUME CallInv, NEW t \in Threads, Moves(t), CallsKept(t), NEW u \in Threads \ {t}
    PROVE  CallOf(u)'
<1>1. /\ pc'[u] = pc[u] /\ req'[u] = req[u] /\ frame'[u] = frame[u]
      /\ result'[u] = result[u]
  BY DEF Moves
<1>2. pc[t] = "save" => Call(t) \in DOMAIN calls /\ calls[Call(t)].saves = 0
  <2>1. CallOf(t)
    BY DEF CallInv
  <2> QED BY <2>1 DEF CallOf
<1>3. ASSUME NEW c \in DOMAIN calls, calls[c].saves = 1
      PROVE  c \in DOMAIN calls' /\ calls'[c] = calls[c]
  BY <1>2, <1>3 DEF CallsKept
<1>4. ASSUME pc[u] \in {"open", "save"}
      PROVE  Call(u) \in DOMAIN calls' /\ calls'[Call(u)] = calls[Call(u)]
  <2>1. Call(u) \in DOMAIN calls
    BY <1>4 DEF CallInv, CallOf
  <2>2. pc[t] = "save" => Call(u) # Call(t)
    BY <1>4 DEF CallInv, Owned
  <2> QED BY <2>1, <2>2 DEF CallsKept
<1>5. CallOf(u)
  BY DEF CallInv
<1>6. Call(u)' = Call(u) /\ Key(u)' = Key(u) /\ Api(u)' = Api(u) /\ Streamed(u)' = Streamed(u)
  BY <1>1 DEF Call, Key, Api, Streamed
<1>7. \A k : Saved(calls, Call(u), k) => Saved(calls', Call(u), k)
  BY <1>3 DEF Saved
<1>8. pc[u] \in {"flush", "dump"} => calls'[Call(u)].n = calls[Call(u)].n
  BY <1>5 DEF CallOf, Saved, CallsKept
<1>9. ASSUME pc[u] = "idle", result[u] \notin {None, Raised}
      PROVE  /\ result[u] \in DOMAIN calls'
             /\ Api(u).counted => calls'[result[u]].n = req[u].n
             /\ Streamed(u) => calls'[result[u]].saves = 1
  BY <1>3, <1>5, <1>9 DEF CallOf, CallsKept
<1> QED BY <1>1, <1>4, <1>5, <1>6, <1>7, <1>8, <1>9 DEF CallOf

\* A step of one thread, which starts no call, preserves the invariant when it
\* does for this thread.
LEMMA ThreadMove ==
    ASSUME CallInv, Shape', NEW t \in Threads, Moves(t), CallsKept(t), CallOf(t)', Truncated',
           pc'[t] \in {"open", "save"} =>
              pc[t] \in {"open", "save"} /\ frame'[t].call = Call(t)
    PROVE  CallInv'
<1>1. \A u \in Threads : CallOf(u)'
  BY OthersKept
<1>2. \A u \in Threads \ {t} : pc'[u] = pc[u] /\ Call(u)' = Call(u)
  BY DEF Moves, Call
<1>3. Call(t)' = frame'[t].call
  BY DEF Call
<1>4. Owned'
  BY <1>2, <1>3 DEF CallInv, Owned
<1> QED BY <1>1, <1>4 DEF CallInv

\* Steps other than those of a flush leave the file alone.
LEMMA ThreadStep ==
    ASSUME CallInv, Shape', NEW t \in Threads, Moves(t), CallsKept(t), CallOf(t)',
           up' = up, file' = file, pc[t] # "dump",
           pc'[t] \in {"open", "save"} =>
              pc[t] \in {"open", "save"} /\ frame'[t].call = Call(t)
    PROVE  CallInv'
<1>1. \A u \in Threads \ {t} : pc'[u] = pc[u]
  BY DEF Moves
<1>2. Truncated'
  BY <1>1 DEF CallInv, Truncated
<1> QED BY <1>2, ThreadMove

\* The adapter is at its end, or at the next prompt.
LEMMA ReturnFacts ==
    ASSUME ThreadTypes, NEW t \in Threads, NEW res \in Nat \cup {None, Raised}, Return(t, res)
    PROVE  /\ ThreadTypes' /\ Moves(t)
           /\ pc'[t] \in {"idle", "prompt"} /\ result'[t] = res /\ frame'[t] = NoFrame
           /\ req'[t].api = req[t].api /\ req'[t].s = req[t].s
           /\ req'[t].n = req[t].n /\ req'[t].stream = req[t].stream
           /\ pc'[t] = "prompt" => Len(req[t].ks) > 1
<1>1. NoFrame \in Locals
  BY LimitsAssumption DEF NoFrame, Locals
<1>2. frame' \in [Threads -> Locals] /\ result' \in [Threads -> Nat \cup {None, Raised}]
  BY <1>1 DEF ThreadTypes, Return
<1>3. /\ frame'[t] = NoFrame /\ result'[t] = res
      /\ \A u \in Threads \ {t} : frame'[u] = frame[u] /\ result'[u] = result[u]
  BY DEF ThreadTypes, Return
<1>4. CASE res # Raised /\ Len(req[t].ks) > 1
  <2>1. pc' = [pc EXCEPT ![t] = "prompt"] /\ req' = [req EXCEPT ![t].ks = Tail(@)]
    BY <1>4 DEF Return, Goto
  <2>2. pc' \in [Threads -> Labels] /\ pc'[t] = "prompt"
        /\ \A u \in Threads \ {t} : pc'[u] = pc[u]
    BY <2>1 DEF ThreadTypes, Labels
  <2>3. req[t] \in Request /\ Tail(req[t].ks) \in Seq(Keys) \ {<< >>}
    BY <1>4, PromptFacts DEF ThreadTypes, Request
  <2>4. [req[t] EXCEPT !.ks = Tail(req[t].ks)] \in Request
    BY <2>3 DEF Request
  <2>5. req' = [req EXCEPT ![t] = [req[t] EXCEPT !.ks = Tail(req[t].ks)]]
    BY <2>1 DEF ThreadTypes
  <2>6. /\ req' \in [Threads -> Request] /\ req'[t] = [req[t] EXCEPT !.ks = Tail(req[t].ks)]
        /\ \A u \in Threads \ {t} : req'[u] = req[u]
    BY <2>4, <2>5 DEF ThreadTypes
  <2>7. /\ req'[t].api = req[t].api /\ req'[t].s = req[t].s
        /\ req'[t].n = req[t].n /\ req'[t].stream = req[t].stream
    BY <2>3, <2>6 DEF Request
  <2> QED BY <1>2, <1>3, <1>4, <2>2, <2>6, <2>7 DEF ThreadTypes, Moves
<1>5. CASE ~(res # Raised /\ Len(req[t].ks) > 1)
  <2>1. pc' = [pc EXCEPT ![t] = "idle"] /\ req' = req
    BY <1>5 DEF Return, Goto
  <2>2. pc' \in [Threads -> Labels] /\ pc'[t] = "idle"
        /\ \A u \in Threads \ {t} : pc'[u] = pc[u]
    BY <2>1 DEF ThreadTypes, Labels
  <2> QED BY <1>2, <1>3, <2>1, <2>2 DEF ThreadTypes, Moves
<1> QED BY <1>4, <1>5

\* A result that may be returned: none, or a call with the right length that was
\* saved when it was streamed.
GoodResult(t, cs, res) ==
    res \notin {None, Raised} =>
        /\ res \in DOMAIN cs
        /\ Api(t).counted => cs[res].n = req[t].n
        /\ Streamed(t) => cs[res].saves = 1

\* A return preserves the invariant.
LEMMA ReturnMove ==
    ASSUME CallInv, NEW t \in Threads, NEW res \in Nat \cup {None, Raised}, Return(t, res),
           StoreTypes', OtherTypes', CallsKept(t), GoodResult(t, calls', res), Truncated'
    PROVE  CallInv'
<1>1. /\ ThreadTypes' /\ Moves(t)
      /\ pc'[t] \in {"idle", "prompt"} /\ result'[t] = res
      /\ req'[t].api = req[t].api /\ req'[t].n = req[t].n /\ req'[t].stream = req[t].stream
  BY ReturnFacts DEF CallInv, Shape
<1>2. Shape'
  BY <1>1 DEF Shape
<1>3. Api(t)' = Api(t) /\ Streamed(t)' = Streamed(t)
  BY <1>1 DEF Api, Streamed
<1>4. CallOf(t)'
  BY <1>1, <1>3 DEF CallOf, GoodResult
<1> QED BY <1>1, <1>2, <1>4, ThreadMove

LEMMA ReturnStep ==
    ASSUME CallInv, NEW t \in Threads, NEW res \in Nat \cup {None, Raised}, Return(t, res),
           StoreTypes', OtherTypes', CallsKept(t), GoodResult(t, calls', res),
           up' = up, file' = file, pc[t] # "dump"
    PROVE  CallInv'
<1>1. \A u \in Threads \ {t} : pc'[u] = pc[u]
  BY ReturnFacts DEF CallInv, Shape, Moves
<1>2. Truncated'
  BY <1>1 DEF CallInv, Truncated
<1> QED BY <1>2, ReturnMove

\* The adapter goes on, with other locals or another request or result.
LEMMA MoveFacts ==
    ASSUME ThreadTypes, NEW t \in Threads, NEW label \in Labels, Goto(t, label),
           req' = req \/ \E r \in Request : req' = [req EXCEPT ![t] = r],
           frame' = frame \/ \E f \in Locals : frame' = [frame EXCEPT ![t] = f],
           result' = result
             \/ \E x \in Nat \cup {None, Raised} : result' = [result EXCEPT ![t] = x]
    PROVE  ThreadTypes' /\ Moves(t) /\ pc'[t] = label
<1>1. /\ pc' \in [Threads -> Labels] /\ pc'[t] = label
      /\ \A u \in Threads \ {t} : pc'[u] = pc[u]
  BY DEF ThreadTypes, Goto
<1>2. req' \in [Threads -> Request] /\ \A u \in Threads \ {t} : req'[u] = req[u]
  BY DEF ThreadTypes
<1>3. frame' \in [Threads -> Locals] /\ \A u \in Threads \ {t} : frame'[u] = frame[u]
  BY DEF ThreadTypes
<1>4. /\ result' \in [Threads -> Nat \cup {None, Raised}]
      /\ \A u \in Threads \ {t} : result'[u] = result[u]
  BY DEF ThreadTypes
<1> QED BY <1>1, <1>2, <1>3, <1>4 DEF ThreadTypes, Moves

\* A label is one more step of the adapter.
LEMMA LabelFacts ==
    {"idle", "prompt", "search", "hit", "miss", "open", "save", "flush", "dump", "drop"} = Labels
BY DEF Labels

\* When the calls, the map and the file stay, so do their types.
LEMMA StoreSame ==
    ASSUME CallInv, calls' = calls, UNCHANGED store
    PROVE  StoreTypes' /\ \A t \in Threads : CallsKept(t)
<1>1. data' = data /\ file' = file
  BY DEF store
<1> QED BY <1>1 DEF CallInv, Shape, StoreTypes, CallsKept

\* Requests that begin, and prompts of a batch.
LEMMA BeginCall ==
    ASSUME CallInv, NEW t \in Threads, NEW r \in Requests, Begin(t, r) \/ BeginBatch(t, r)
    PROVE  CallInv'
<1>1. ThreadTypes /\ OtherTypes /\ r \in Request /\ r.s \in Sessions \cup {NoSession}
  BY RequestsAssumption DEF CallInv, Shape, Request
<1>2. /\ up /\ pc[t] = "idle" /\ req' = [req EXCEPT ![t] = r] /\ dropped' = dropped \ {r.s}
      /\ result' = [result EXCEPT ![t] = None]
      /\ UNCHANGED <<store, up, todo, calls, count, faults, given, repeated>>
  BY DEF Begin, BeginBatch, Arrive
<1>3. StoreTypes' /\ CallsKept(t)
  BY <1>2, StoreSame
<1>4. frame' = frame \/ \E f \in Locals : frame' = [frame EXCEPT ![t] = f]
  <2>1. [frame[t] EXCEPT !.session = r.s] \in Locals
    BY <1>1 DEF ThreadTypes, Locals
  <2>2. frame' = frame \/ frame' = [frame EXCEPT ![t] = [frame[t] EXCEPT !.session = r.s]]
    BY DEF Begin, BeginBatch
  <2> QED BY <2>1, <2>2
<1>5. tmp_args' \in [Threads -> Sessions \cup {NoSession}]
  BY <1>1 DEF Begin, BeginBatch, OtherTypes
<1>6. PICK label \in {"search", "prompt"} : Goto(t, label)
  BY DEF Begin, BeginBatch
<1>7. ThreadTypes' /\ Moves(t) /\ pc'[t] = label
  BY <1>1, <1>2, <1>4, <1>6, LabelFacts, MoveFacts
<1>8. OtherTypes'
  BY <1>1, <1>2, <1>5 DEF OtherTypes
<1>9. CallOf(t)' /\ file' = file
  BY <1>2, <1>7 DEF CallOf, store
<1> QED BY <1>2, <1>3, <1>6, <1>7, <1>8, <1>9, ThreadStep DEF Shape

LEMMA NextPromptCall ==
    ASSUME CallInv, NEW t \in Threads, NextPrompt(t)
    PROVE  CallInv'
<1>1. ThreadTypes /\ OtherTypes
  BY DEF CallInv, Shape
<1>2. /\ pc[t] = "prompt" /\ frame' = [frame EXCEPT ![t] = [frame[t] EXCEPT !.session = tmp_args[t]]]
      /\ tmp_args' = [tmp_args EXCEPT ![t] = NoSession] /\ Goto(t, "search")
      /\ UNCHANGED <<store, up, req, result, todo, calls, count, faults, aux>>
  BY DEF NextPrompt
<1>3. [frame[t] EXCEPT !.session = tmp_args[t]] \in Locals
  BY <1>1 DEF ThreadTypes, OtherTypes, Locals
<1>4. ThreadTypes' /\ Moves(t) /\ pc'[t] = "search"
  BY <1>1, <1>2, <1>3, LabelFacts, MoveFacts
<1>5. StoreTypes' /\ CallsKept(t)
  BY <1>2, StoreSame
<1>6. OtherTypes'
  BY <1>1, <1>2 DEF OtherTypes, aux
<1>7. CallOf(t)' /\ file' = file
  BY <1>2, <1>4 DEF CallOf, store
<1> QED BY <1>2, <1>4, <1>5, <1>6, <1>7, ThreadStep DEF Shape

LEMMA SearchCall ==
    ASSUME CallInv, NEW t \in Threads, Search(t)
    PROVE  CallInv'
<1>1. ThreadTypes /\ OtherTypes /\ StoreTypes
  BY DEF CallInv, Shape
<1>2. pc[t] = "search" /\ UNCHANGED <<store, up, req, tmp_args, result, todo, calls, count, faults, aux>>
  BY DEF Search
<1>3. StoreTypes' /\ CallsKept(t) /\ file' = file
  BY <1>2, StoreSame DEF store
<1>4. OtherTypes'
  BY <1>1, <1>2 DEF OtherTypes, aux
<1>5. CASE Hits(Key(t), frame[t].session)
  <2>1. Goto(t, "hit") /\ frame' = [frame EXCEPT ![t] = [frame[t] EXCEPT !.call = data[Key(t)].ans]]
    BY <1>5 DEF Search
  <2>2. Key(t) \in DOMAIN data /\ data[Key(t)].ans \in Nat /\ Saved(calls, data[Key(t)].ans, Key(t))
    BY <1>1, <1>5 DEF Hits, StoreTypes, GoodMap
  <2>3. [frame[t] EXCEPT !.call = data[Key(t)].ans] \in Locals
    BY <1>1, <2>2 DEF ThreadTypes, Locals
  <2>4. ThreadTypes' /\ Moves(t) /\ pc'[t] = "hit"
    BY <1>1, <1>2, <2>1, <2>3, LabelFacts, MoveFacts
  <2>5. frame'[t].call = data[Key(t)].ans
    BY <1>1, <2>1 DEF ThreadTypes, Locals
  <2>6. CallOf(t)'
    BY <1>2, <2>2, <2>4, <2>5 DEF CallOf, Call, Key
  <2> QED BY <1>2, <1>3, <1>4, <2>4, <2>6, ThreadStep DEF Shape
<1>6. CASE ~Hits(Key(t), frame[t].session)
  <2>1. Goto(t, "miss") /\ frame' = frame
    BY <1>6 DEF Search
  <2>2. ThreadTypes' /\ Moves(t) /\ pc'[t] = "miss"
    BY <1>1, <1>2, <2>1, LabelFacts, MoveFacts
  <2>3. CallOf(t)'
    BY <2>2 DEF CallOf
  <2> QED BY <1>2, <1>3, <1>4, <2>2, <2>3, ThreadStep DEF Shape
<1> QED BY <1>5, <1>6

\* The key of a request, and what its session is given
LEMMA KeyFacts ==
    ASSUME ThreadTypes, NEW t \in Threads
    PROVE  /\ Key(t) \in Keys /\ Call(t) \in Nat
           /\ frame[t].session \in Sessions \cup {NoSession}
           /\ Given(t) \subseteq Sessions \X Nat
<1>1. req[t] \in Request /\ frame[t] \in Locals
  BY DEF ThreadTypes
<1>2. Key(t) \in Keys
  BY <1>1, PromptFacts DEF Key, Request
<1>3. Call(t) \in Nat /\ frame[t].session \in Sessions \cup {NoSession}
  BY <1>1 DEF Call, Locals
<1>4. req[t].s \in Sessions \cup {NoSession}
  BY <1>1 DEF Request
<1>5. Given(t) \subseteq Sessions \X Nat
  BY <1>3, <1>4 DEF Given
<1> QED BY <1>2, <1>3, <1>5

LEMMA HitCall ==
    ASSUME CallInv, NEW t \in Threads, Hit(t)
    PROVE  CallInv'
<1>1. ThreadTypes /\ OtherTypes /\ StoreTypes /\ CallOf(t)
  BY DEF CallInv, Shape
<1>2. /\ pc[t] = "hit" /\ AddSession(Key(t), Call(t), frame[t].session)
      /\ UNCHANGED <<up, tmp_args, todo, calls, count, faults, dropped>>
  BY DEF Hit
<1>3. Saved(calls, Call(t), Key(t))
  BY <1>1, <1>2 DEF CallOf
<1>4. StoreTypes' /\ file' = file
  BY <1>1, <1>2, KeyFacts, AddSessionFacts DEF StoreTypes
<1>5. CallsKept(t)
  BY <1>2 DEF CallsKept
<1>6. OtherTypes'
  <2>1. given' = given \/ given' = given \cup Given(t)
    BY DEF Hit
  <2> QED BY <1>1, <1>2, <2>1, KeyFacts DEF OtherTypes
<1>7. CASE RightLength(t)
  <2>1. Return(t, Call(t))
    BY <1>7 DEF Hit
  <2>2. GoodResult(t, calls', Call(t))
    BY <1>2, <1>3, <1>7 DEF GoodResult, Saved, RightLength
  <2> QED BY <1>1, <1>2, <1>4, <1>5, <1>6, <2>1, <2>2, KeyFacts, ReturnStep
<1>8. CASE ~RightLength(t)
  <2>1. Goto(t, "miss") /\ UNCHANGED <<req, result, frame>>
    BY <1>8 DEF Hit
  <2>2. ThreadTypes' /\ Moves(t) /\ pc'[t] = "miss"
    BY <1>1, <2>1, LabelFacts, MoveFacts
  <2>3. CallOf(t)'
    BY <2>2 DEF CallOf
  <2> QED BY <1>2, <1>4, <1>5, <1>6, <2>2, <2>3, ThreadStep DEF Shape
<1> QED BY <1>7, <1>8

\* A new call is nobody else's.
LEMMA ModelCall ==
    ASSUME CallInv, NEW t \in Threads, CallModel(t)
    PROVE  CallInv'
<1> DEFINE c == [k |-> Key(t), n |-> req[t].n, parts |-> 0, saves |-> 0]
           f == [frame[t] EXCEPT !.call = Len(calls) + 1,
                                 !.read = IF Streamed(t) THEN 0 ELSE Chunks]
           label == IF Streamed(t) THEN "open" ELSE "save"
<1>1. ThreadTypes /\ OtherTypes /\ StoreTypes
  BY DEF CallInv, Shape
<1>2. /\ pc[t] = "miss" /\ calls' = Append(calls, c)
      /\ frame' = [frame EXCEPT ![t].call = Len(calls) + 1,
                                ![t].read = IF Streamed(t) THEN 0 ELSE Chunks]
      /\ Goto(t, label)
      /\ UNCHANGED <<store, up, req, tmp_args, result, todo, count, faults, aux>>
  BY DEF CallModel
<1>3. c \in CallRec /\ c.n = req[t].n
  BY <1>1, KeyFacts DEF CallRec, ThreadTypes, Request
<1>4. /\ calls' \in Seq(CallRec) /\ Len(calls) \in Nat
      /\ DOMAIN calls = 1..Len(calls) /\ DOMAIN calls' = 1..(Len(calls) + 1)
      /\ \A i \in DOMAIN calls : calls'[i] = calls[i]
      /\ calls'[Len(calls) + 1] = c
  BY <1>1, <1>2, <1>3, AppendFacts DEF OtherTypes
<1>5. \A i \in DOMAIN calls : i \in DOMAIN calls'
  BY <1>4
<1>6. CallsKept(t)
  BY <1>4, <1>5 DEF CallsKept
<1>7. data' = data /\ file' = file
  BY <1>2 DEF store
<1>8. StoreTypes'
  BY <1>1, <1>4, <1>5, <1>7, MapKept DEF StoreTypes
<1>9. OtherTypes'
  BY <1>1, <1>2, <1>4 DEF OtherTypes, aux
<1>10. f \in Locals /\ frame' = [frame EXCEPT ![t] = f]
  <2>1. f \in Locals
    <3>1. frame[t] \in Locals
      BY <1>1 DEF ThreadTypes
    <3>2. Len(calls) + 1 \in Nat /\ (IF Streamed(t) THEN 0 ELSE Chunks) \in 0..Chunks
      BY <1>4, LimitsAssumption
    <3> QED BY <3>1, <3>2 DEF Locals
  <2>2. frame' = [frame EXCEPT ![t] = f]
    BY <1>2
  <2> QED BY <2>1, <2>2
<1>11. ThreadTypes' /\ Moves(t) /\ pc'[t] = label
  BY <1>1, <1>2, <1>10, LabelFacts, MoveFacts
<1>12. /\ frame'[t].call = Len(calls) + 1
       /\ frame'[t].read = IF Streamed(t) THEN 0 ELSE Chunks
  BY <1>1, <1>10 DEF ThreadTypes, Locals
<1>13. CallOf(t)'
  <2>1. Call(t)' = Len(calls) + 1 /\ Key(t)' = Key(t) /\ req'[t] = req[t]
    BY <1>2, <1>12 DEF Call, Key
  <2>2. Call(t)' \in DOMAIN calls' /\ calls'[Call(t)'] = [k |-> Key(t)', n |-> req'[t].n, parts |-> 0, saves |-> 0]
    BY <1>4, <2>1
  <2>3. pc'[t] = "save" => frame'[t].read = Chunks
    BY <1>11, <1>12
  <2> QED BY <1>11, <2>2, <2>3 DEF CallOf
<1>14. \A u \in Threads : CallOf(u)'
  BY <1>6, <1>11, <1>13, OthersKept
<1>15. Owned'
  <2>1. ASSUME NEW u \in Threads \ {t}, pc'[u] \in {"open", "save"}
        PROVE  Call(u)' # Call(t)'
    <3>1. pc[u] \in {"open", "save"} /\ Call(u)' = Call(u)
      BY <1>11, <2>1 DEF Moves, Call
    <3>2. CallOf(u)
      BY DEF CallInv
    <3>3. Call(u) \in 1..Len(calls)
      BY <1>4, <3>1, <3>2 DEF CallOf
    <3>4. Call(t)' = Len(calls) + 1
      BY <1>12 DEF Call
    <3> QED BY <1>4, <3>1, <3>3, <3>4
  <2>2. \A u \in Threads \ {t} : pc'[u] = pc[u] /\ Call(u)' = Call(u)
    BY <1>11 DEF Moves, Call
  <2> QED BY <2>1, <2>2 DEF CallInv, Owned
<1>16. Truncated'
  <2>1. \A u \in Threads \ {t} : pc'[u] = pc[u]
    BY <1>11 DEF Moves
  <2> QED BY <1>2, <1>7, <2>1 DEF CallInv, Truncated
<1> QED BY <1>8, <1>9, <1>11, <1>14, <1>15, <1>16 DEF CallInv, Shape

\* A stream that breaks off, is abandoned, or has no image left, and a model
\* that raises, change nothing but the thread.
LEMMA GiveUpCall ==
    ASSUME CallInv, NEW t \in Threads, ModelRaises(t) \/ Abandon(t) \/ NoImage(t) \/ PassOn(t)
    PROVE  CallInv'
<1>1. PICK res \in {None, Raised} : Return(t, res)
  BY DEF ModelRaises, Abandon, NoImage, PassOn
<1>2. /\ UNCHANGED <<store, up, tmp_args, todo, calls, aux>>
      /\ pc[t] # "dump"
  BY DEF ModelRaises, Abandon, NoImage, PassOn
<1>3. StoreTypes' /\ CallsKept(t) /\ file' = file
  BY <1>2, StoreSame DEF store
<1>4. OtherTypes'
  BY <1>2 DEF CallInv, Shape, OtherTypes, aux
<1>5. GoodResult(t, calls', res)
  BY <1>1 DEF GoodResult
<1> QED BY <1>1, <1>2, <1>3, <1>4, <1>5, ReturnStep

LEMMA ReadCall ==
    ASSUME CallInv, NEW t \in Threads, Read(t)
    PROVE  CallInv'
<1>1. ThreadTypes /\ OtherTypes /\ CallOf(t)
  BY DEF CallInv, Shape
<1>2. /\ pc[t] = "open" /\ frame[t].read < Chunks
      /\ frame' = [frame EXCEPT ![t] = [frame[t] EXCEPT !.read = frame[t].read + 1]]
      /\ UNCHANGED <<store, up, pc, req, tmp_args, result, todo, calls, count, faults, aux>>
  BY <1>1 DEF Read, ThreadTypes
<1>3. StoreTypes' /\ CallsKept(t) /\ file' = file
  BY <1>2, StoreSame DEF store
<1>4. OtherTypes'
  BY <1>1, <1>2 DEF OtherTypes, aux
<1>5. [frame[t] EXCEPT !.read = frame[t].read + 1] \in Locals
  <2>1. frame[t] \in Locals /\ Chunks \in Nat
    BY <1>1, LimitsAssumption DEF ThreadTypes
  <2>2. frame[t].read + 1 \in 0..Chunks
    BY <1>2, <2>1 DEF Locals
  <2> QED BY <2>1, <2>2 DEF Locals
<1>6. Goto(t, "open")
  BY <1>1, <1>2 DEF Goto, ThreadTypes
<1>7. ThreadTypes' /\ Moves(t) /\ pc'[t] = "open"
  BY <1>1, <1>2, <1>5, <1>6, LabelFacts, MoveFacts
<1>8. frame'[t].call = Call(t)
  BY <1>1, <1>2 DEF ThreadTypes, Locals, Call
<1>9. CallOf(t)'
  BY <1>1, <1>2, <1>7, <1>8 DEF CallOf, Call, Key
<1> QED BY <1>2, <1>3, <1>4, <1>7, <1>8, <1>9, ThreadStep DEF Shape

LEMMA ExhaustCall ==
    ASSUME CallInv, NEW t \in Threads, Exhaust(t)
    PROVE  CallInv'
<1>1. ThreadTypes /\ OtherTypes /\ CallOf(t)
  BY DEF CallInv, Shape
<1>2. /\ pc[t] = "open" /\ frame[t].read = Chunks /\ Goto(t, "save")
      /\ UNCHANGED <<store, up, req, tmp_args, frame, result, todo, calls, count, faults, aux>>
  BY DEF Exhaust, client
<1>3. StoreTypes' /\ CallsKept(t) /\ file' = file
  BY <1>2, StoreSame DEF store
<1>4. OtherTypes'
  BY <1>1, <1>2 DEF OtherTypes, aux
<1>5. ThreadTypes' /\ Moves(t) /\ pc'[t] = "save"
  BY <1>1, <1>2, LabelFacts, MoveFacts
<1>6. CallOf(t)' /\ frame'[t].call = Call(t)
  BY <1>1, <1>2, <1>5 DEF CallOf, Call, Key
<1> QED BY <1>2, <1>3, <1>4, <1>5, <1>6, ThreadStep DEF Shape

\* What saving makes of a call: it is whole, and nobody else's.
LEMMA SavedCall ==
    ASSUME CallInv, NEW t \in Threads, pc[t] = "save",
           calls' = [calls EXCEPT ![Call(t)].parts = frame[t].read, ![Call(t)].saves = @ + 1]
    PROVE  /\ calls' \in Seq(CallRec) /\ CallsKept(t)
           /\ \A i \in DOMAIN calls : calls[i].saves = 1 => i \in DOMAIN calls' /\ calls'[i] = calls[i]
           /\ Saved(calls', Call(t), Key(t)) /\ calls'[Call(t)].n = req[t].n
<1> DEFINE c == Call(t)
           new == [calls[c] EXCEPT !.parts = Chunks, !.saves = 1]
<1>1. ThreadTypes /\ CallOf(t) /\ calls \in Seq(CallRec)
  BY DEF CallInv, Shape, OtherTypes
<1>2. /\ c \in DOMAIN calls /\ frame[t].read = Chunks /\ calls[c] \in CallRec
      /\ calls[c] = [k |-> Key(t), n |-> req[t].n, parts |-> 0, saves |-> 0]
  <2>1. calls[c] \in CallRec
    BY <1>1, ElementOfSeq, LenProperties DEF CallOf
  <2> QED BY <1>1, <2>1 DEF CallOf
<1>3. calls' = [calls EXCEPT ![c] = new]
  <2>1. calls[c].saves + 1 = 1
    BY <1>2
  <2> QED BY <1>2, <2>1
<1>4. /\ new \in CallRec
      /\ new.k = Key(t) /\ new.n = req[t].n /\ new.parts = Chunks /\ new.saves = 1
  BY <1>2, LimitsAssumption DEF CallRec
<1>5. /\ DOMAIN calls' = DOMAIN calls /\ calls'[c] = new
      /\ \A i \in DOMAIN calls \ {c} : calls'[i] = calls[i]
  BY <1>2, <1>3
<1>6. calls' \in Seq(CallRec)
  <2>1. DOMAIN calls = 1..Len(calls) /\ Len(calls) \in Nat /\ calls \in [1..Len(calls) -> CallRec]
    BY <1>1, LenProperties
  <2>2. calls' \in [1..Len(calls) -> CallRec]
    BY <1>3, <1>4, <2>1
  <2> QED BY <2>1, <2>2, SeqDef
<1>7. CallsKept(t)
  BY <1>2, <1>4, <1>5 DEF CallsKept
<1>8. Saved(calls', c, Key(t)) /\ calls'[c].n = req[t].n
  BY <1>2, <1>4, <1>5 DEF Saved
<1>9. \A i \in DOMAIN calls : calls[i].saves = 1 => i \in DOMAIN calls' /\ calls'[i] = calls[i]
  BY <1>2, <1>5
<1> QED BY <1>6, <1>7, <1>8, <1>9

LEMMA SaveAnswerCall ==
    ASSUME CallInv, NEW t \in Threads, SaveAnswer(t)
    PROVE  CallInv'
<1>1. ThreadTypes /\ OtherTypes /\ StoreTypes
  BY DEF CallInv, Shape
<1>2. /\ pc[t] = "save" /\ Save(Key(t), Call(t), frame[t].session)
      /\ calls' = [calls EXCEPT ![Call(t)].parts = frame[t].read, ![Call(t)].saves = @ + 1]
      /\ given' = given \cup Given(t)
      /\ UNCHANGED <<up, tmp_args, todo, faults, repeated, dropped>>
  BY DEF SaveAnswer
<1>3. /\ calls' \in Seq(CallRec) /\ CallsKept(t)
      /\ \A i \in DOMAIN calls : calls[i].saves = 1 => i \in DOMAIN calls' /\ calls'[i] = calls[i]
      /\ Saved(calls', Call(t), Key(t)) /\ calls'[Call(t)].n = req[t].n
  BY <1>2, SavedCall
<1>4. GoodMap(calls', data) /\ GoodMap(calls', file.map)
  BY <1>1, <1>3, MapKept DEF StoreTypes
<1>5. GoodMap(calls', data') /\ file' = file
  BY <1>1, <1>2, <1>3, <1>4, KeyFacts, SaveFacts
<1>6. StoreTypes'
  BY <1>1, <1>4, <1>5 DEF StoreTypes
<1>7. OtherTypes'
  BY <1>1, <1>2, <1>3, KeyFacts DEF OtherTypes
<1>8. CASE (count + 1) % AutoFlush = 0
  <2>1. Goto(t, "flush") /\ UNCHANGED <<req, result, frame>>
    BY <1>8 DEF SaveAnswer
  <2>2. ThreadTypes' /\ Moves(t) /\ pc'[t] = "flush"
    BY <1>1, <2>1, LabelFacts, MoveFacts
  <2>3. CallOf(t)'
    <3>1. Call(t)' = Call(t) /\ Key(t)' = Key(t) /\ req'[t] = req[t]
      BY <2>1 DEF Call, Key
    <3> QED BY <1>3, <2>2, <3>1 DEF CallOf
  <2> QED BY <1>2, <1>3, <1>5, <1>6, <1>7, <2>2, <2>3, ThreadStep DEF Shape
<1>9. CASE (count + 1) % AutoFlush # 0
  <2>1. Return(t, Call(t))
    BY <1>9 DEF SaveAnswer
  <2>2. GoodResult(t, calls', Call(t))
    BY <1>3 DEF GoodResult, Saved
  <2> QED BY <1>1, <1>2, <1>3, <1>5, <1>6, <1>7, <2>1, <2>2, KeyFacts, ReturnStep
<1> QED BY <1>8, <1>9

\* A generator does not hide a save that raises.
LEMMA SaveRaisesCall ==
    ASSUME CallInv, NEW t \in Threads, SaveRaises(t)
    PROVE  CallInv'
<1> DEFINE res == IF Streamed(t) THEN Raised ELSE Call(t)
<1>1. ThreadTypes /\ OtherTypes /\ CallOf(t)
  BY DEF CallInv, Shape
<1>2. /\ pc[t] = "save" /\ Return(t, res)
      /\ UNCHANGED <<store, up, tmp_args, todo, calls, count, aux>>
  BY DEF SaveRaises
<1>3. StoreTypes' /\ CallsKept(t) /\ file' = file
  BY <1>2, StoreSame DEF store
<1>4. OtherTypes'
  BY <1>1, <1>2 DEF OtherTypes, aux
<1>5. Call(t) \in DOMAIN calls /\ calls[Call(t)].n = req[t].n
  BY <1>1, <1>2 DEF CallOf
<1>6. GoodResult(t, calls', res)
  BY <1>2, <1>5 DEF GoodResult
<1>7. res \in Nat \cup {None, Raised}
  BY <1>1, KeyFacts
<1> QED BY <1>2, <1>3, <1>4, <1>6, <1>7, ReturnStep

LEMMA OpenFileCall ==
    ASSUME CallInv, NEW t \in Threads, OpenFile(t)
    PROVE  CallInv'
<1>1. ThreadTypes /\ OtherTypes /\ StoreTypes /\ CallOf(t)
  BY DEF CallInv, Shape
<1>2. /\ pc[t] = "flush" /\ Goto(t, "dump") /\ UNCHANGED data
      /\ file' = [whole |-> FALSE, map |-> << >>]
      /\ UNCHANGED <<up, req, tmp_args, frame, result, todo, calls, count, faults, aux>>
  BY DEF OpenFile, FlushOpen, client
<1>3. StoreTypes'
  <2>1. GoodMap(calls, << >>)
    BY EmptyMap
  <2> QED BY <1>1, <1>2, <2>1 DEF StoreTypes
<1>4. OtherTypes'
  BY <1>1, <1>2 DEF OtherTypes, aux
<1>5. ThreadTypes' /\ Moves(t) /\ pc'[t] = "dump"
  BY <1>1, <1>2, LabelFacts, MoveFacts
<1>6. CallOf(t)'
  BY <1>1, <1>2, <1>5 DEF CallOf, Call, Key
<1>7. CallsKept(t)
  BY <1>2 DEF CallsKept
<1>8. Truncated'
  <2>1. \E u \in Threads : pc'[u] = "dump"
    BY <1>5
  <2> QED BY <2>1, Zenon DEF Truncated
<1>9. Shape'
  BY <1>3, <1>4, <1>5 DEF Shape
<1>10. pc'[t] \notin {"open", "save"}
  BY <1>5
<1> QED BY <1>5, <1>6, <1>7, <1>8, <1>9, <1>10, ThreadMove

LEMMA DumpCall ==
    ASSUME CallInv, NEW t \in Threads, Dump(t)
    PROVE  CallInv'
<1>1. ThreadTypes /\ OtherTypes /\ StoreTypes /\ CallOf(t)
  BY DEF CallInv, Shape
<1>2. /\ pc[t] = "dump" /\ UNCHANGED data /\ file' = [whole |-> TRUE, map |-> data]
      /\ Return(t, Call(t))
      /\ UNCHANGED <<up, tmp_args, todo, calls, count, faults, aux>>
  BY DEF Dump, FlushDump
<1>3. StoreTypes' /\ CallsKept(t)
  BY <1>1, <1>2 DEF StoreTypes, CallsKept
<1>4. OtherTypes'
  BY <1>1, <1>2 DEF OtherTypes, aux
<1>5. GoodResult(t, calls', Call(t))
  BY <1>1, <1>2 DEF GoodResult, CallOf, Saved
<1>6. Truncated'
  <2>1. file'.whole
    BY <1>2
  <2> QED BY <2>1, Zenon DEF Truncated
<1> QED BY <1>1, <1>2, <1>3, <1>4, <1>5, <1>6, KeyFacts, ReturnMove

LEMMA DropCall ==
    ASSUME CallInv, NEW t \in Threads, NEW s \in Sessions, Drop(t, s)
    PROVE  CallInv'
<1>1. ThreadTypes /\ OtherTypes /\ StoreTypes
  BY DEF CallInv, Shape
<1>2. /\ pc[t] = "idle" /\ req' = [req EXCEPT ![t] = [req[t] EXCEPT !.s = s]]
      /\ todo' = [todo EXCEPT ![t] = ListSessions(s)]
      /\ result' = [result EXCEPT ![t] = None] /\ Goto(t, "drop")
      /\ given' = {g \in given : g[1] # s}
      /\ UNCHANGED <<store, frame, up, tmp_args, calls, count, repeated, dropped>>
  BY <1>1 DEF Drop, ThreadTypes
<1>3. StoreTypes' /\ CallsKept(t) /\ file' = file
  BY <1>2, StoreSame DEF store
<1>4. [req[t] EXCEPT !.s = s] \in Request
  BY <1>1 DEF ThreadTypes, Request
<1>5. ThreadTypes' /\ Moves(t) /\ pc'[t] = "drop"
  BY <1>1, <1>2, <1>4, LabelFacts, MoveFacts
<1>6. ListSessions(s) \subseteq Keys \cup Sessions
  <2>1. DOMAIN data \subseteq Keys /\ \A k \in DOMAIN data : data[k].sess \subseteq Sessions
    BY <1>1 DEF StoreTypes, GoodMap
  <2> QED BY <2>1 DEF ListSessions
<1>7. OtherTypes'
  BY <1>1, <1>2, <1>6 DEF OtherTypes
<1>8. CallOf(t)'
  BY <1>1, <1>2, <1>5 DEF CallOf, ThreadTypes
<1> QED BY <1>2, <1>3, <1>5, <1>7, <1>8, ThreadStep DEF Shape

LEMMA DropOneCall ==
    ASSUME CallInv, NEW t \in Threads, DropOne(t)
    PROVE  CallInv'
<1>1. ThreadTypes /\ OtherTypes /\ StoreTypes /\ CallOf(t)
  BY DEF CallInv, Shape
<1>2. PICK k \in todo[t] :
         /\ pc[t] = "drop" /\ DeleteOne(k, req[t].s)
         /\ todo' = [todo EXCEPT ![t] = @ \ {k}]
         /\ UNCHANGED <<up, pc, req, frame, tmp_args, result, calls, count, faults, aux>>
  BY DEF DropOne
<1>3. req[t].s \in Sessions
  BY <1>1, <1>2 DEF DeleteOne, DeleteRaises, StoreTypes, GoodMap
<1>4. GoodMap(calls, data') /\ file' = file
  BY <1>1, <1>2, <1>3, DeleteFacts DEF StoreTypes
<1>5. StoreTypes' /\ CallsKept(t)
  BY <1>1, <1>2, <1>4 DEF StoreTypes, CallsKept
<1>6. todo' \in [Threads -> SUBSET (Keys \cup Sessions)]
  BY <1>1, <1>2 DEF OtherTypes
<1>7. OtherTypes' /\ ThreadTypes' /\ Moves(t)
  BY <1>1, <1>2, <1>6 DEF OtherTypes, ThreadTypes, Moves, aux
<1>8. CallOf(t)' /\ pc'[t] = "drop"
  BY <1>1, <1>2 DEF CallOf
<1> QED BY <1>2, <1>4, <1>5, <1>7, <1>8, ThreadStep DEF Shape

LEMMA DropOverCall ==
    ASSUME CallInv, NEW t \in Threads, DropRaises(t) \/ DropEnds(t)
    PROVE  CallInv'
<1>1. ThreadTypes /\ OtherTypes /\ CallOf(t)
  BY DEF CallInv, Shape
<1>2. /\ pc[t] = "drop" /\ Goto(t, "idle")
      /\ result' = result \/ result' = [result EXCEPT ![t] = Raised]
      /\ UNCHANGED <<store, up, req, frame, tmp_args, calls, count, faults, given, repeated>>
  BY DEF DropRaises, DropEnds, client, aux
<1>3. StoreTypes' /\ CallsKept(t) /\ file' = file
  BY <1>2, StoreSame DEF store
<1>4. ThreadTypes' /\ Moves(t) /\ pc'[t] = "idle"
  BY <1>1, <1>2, LabelFacts, MoveFacts
<1>5. todo' \in [Threads -> SUBSET (Keys \cup Sessions)]
  BY <1>1 DEF DropRaises, DropEnds, client, OtherTypes
<1>6. dropped' \subseteq Sessions
  <2>1. CASE DropRaises(t)
    BY <1>1, <2>1 DEF DropRaises, aux, OtherTypes
  <2>2. CASE DropEnds(t)
    BY <1>1, <1>2, <2>2 DEF DropEnds, OtherTypes, CallOf
  <2> QED BY <2>1, <2>2
<1>7. OtherTypes'
  BY <1>1, <1>2, <1>5, <1>6 DEF OtherTypes
<1>8. CallOf(t)'
  <2>1. result'[t] \in {None, Raised}
    BY <1>1, <1>2 DEF CallOf, ThreadTypes
  <2> QED BY <1>4, <2>1 DEF CallOf
<1> QED BY <1>2, <1>3, <1>4, <1>7, <1>8, ThreadStep DEF Shape

\* A process that ends leaves the store as it was, or flushed.
LEMMA DownCall ==
    ASSUME CallInv, Crash \/ Exit
    PROVE  CallInv'
<1>1. OtherTypes /\ StoreTypes /\ ThreadTypes
  BY DEF CallInv, Shape
<1>2. /\ up' = FALSE /\ pc' = Rest("idle") /\ todo' = Rest({}) /\ tmp_args' = Rest(NoSession)
      /\ result' = Rest(None) /\ given' = {} /\ dropped' = {} /\ frame' = Rest(NoFrame)
      /\ UNCHANGED <<req, calls>>
  BY DEF Crash, Exit, Down
<1>3. data' = data /\ (file' = file \/ file' = [whole |-> TRUE, map |-> data])
  BY DEF Crash, Exit, FlushDump, store
<1>4. StoreTypes'
  <2>1. CASE file' = file
    BY <1>1, <1>2, <1>3, <2>1 DEF StoreTypes
  <2>2. CASE file' = [whole |-> TRUE, map |-> data]
    <3>1. file'.map = data /\ file'.whole \in BOOLEAN
      BY <2>2
    <3> QED BY <1>1, <1>2, <1>3, <3>1 DEF StoreTypes
  <2> QED BY <1>3, <2>1, <2>2
<1>5. ThreadTypes'
  <2>1. NoFrame \in Locals
    BY LimitsAssumption DEF NoFrame, Locals
  <2> QED BY <1>1, <1>2, <2>1 DEF ThreadTypes, Rest, Labels
<1>6. OtherTypes'
  BY <1>1, <1>2 DEF OtherTypes, Rest
<1>7. \A t \in Threads : pc'[t] = "idle" /\ result'[t] = None
  BY <1>2 DEF Rest
<1>8. (\A t \in Threads : CallOf(t)') /\ Owned'
  BY <1>7 DEF CallOf, Owned
<1>9. Truncated'
  BY <1>2, Zenon DEF Truncated
<1> QED BY <1>4, <1>5, <1>6, <1>8, <1>9 DEF CallInv, Shape

\* A process starts from a file that is whole.
LEMMA StartCall ==
    ASSUME CallInv, Start
    PROVE  CallInv'
<1>1. /\ up' = TRUE /\ file.whole /\ data' = file.map /\ file' = file
      /\ UNCHANGED <<pc, req, tmp_args, frame, result, todo, calls, given, dropped>>
  BY DEF Start, Load, client, aux
<1>2. Shape'
  BY <1>1 DEF CallInv, Shape, ThreadTypes, StoreTypes, OtherTypes
<1>3. \A t \in Threads : CallOf(t)'
  BY <1>1 DEF CallInv, CallOf, Call, Key, Api, Streamed
<1>4. Owned'
  BY <1>1 DEF CallInv, Owned, Call
<1>5. Truncated'
  BY <1>1 DEF Truncated
<1> QED BY <1>2, <1>3, <1>4, <1>5 DEF CallInv

LEMMA CallStutter ==
    ASSUME CallInv, UNCHANGED vars
    PROVE  CallInv'
<1>1. UNCHANGED <<data, file, up, pc, req, tmp_args, frame, result, todo, calls, given, dropped>>
  BY DEF vars, store, client, aux
<1>2. Shape'
  BY <1>1 DEF CallInv, Shape, ThreadTypes, StoreTypes, OtherTypes
<1>3. \A t \in Threads : CallOf(t)'
  BY <1>1 DEF CallInv, CallOf, Call, Key, Api, Streamed
<1>4. Owned' /\ Truncated'
  BY <1>1 DEF CallInv, Owned, Truncated, Call
<1> QED BY <1>2, <1>3, <1>4 DEF CallInv

\* Every step of every thread, and the process's.
LEMMA CallStep == CallInv /\ [Next]_vars => CallInv'
<1> SUFFICES ASSUME CallInv, [Next]_vars PROVE CallInv'
  OBVIOUS
<1>1. ASSUME NEW t \in Threads, NEW r \in Requests, Begin(t, r) \/ BeginBatch(t, r)
      PROVE  CallInv'
  BY <1>1, BeginCall
<1>2. ASSUME NEW t \in Threads, NextPrompt(t) \/ Search(t) \/ Hit(t) \/ CallModel(t)
      PROVE  CallInv'
  BY <1>2, NextPromptCall, SearchCall, HitCall, ModelCall
<1>3. ASSUME NEW t \in Threads, ModelRaises(t) \/ Abandon(t) \/ NoImage(t) \/ PassOn(t)
      PROVE  CallInv'
  BY <1>3, GiveUpCall
<1>4. ASSUME NEW t \in Threads, Read(t) \/ Exhaust(t) \/ SaveAnswer(t) \/ SaveRaises(t)
      PROVE  CallInv'
  BY <1>4, ReadCall, ExhaustCall, SaveAnswerCall, SaveRaisesCall
<1>5. ASSUME NEW t \in Threads, OpenFile(t) \/ Dump(t) PROVE CallInv'
  BY <1>5, OpenFileCall, DumpCall
<1>6. ASSUME NEW t \in Threads, NEW s \in Sessions, Drop(t, s) PROVE CallInv'
  BY <1>6, DropCall
<1>7. ASSUME NEW t \in Threads, DropOne(t) \/ DropRaises(t) \/ DropEnds(t) PROVE CallInv'
  BY <1>7, DropOneCall, DropOverCall
<1>8. CASE Crash \/ Exit
  BY <1>8, DownCall
<1>9. CASE Start
  BY <1>9, StartCall
<1>10. CASE UNCHANGED vars
  BY <1>10, CallStutter
<1> QED BY <1>1, <1>2, <1>3, <1>4, <1>5, <1>6, <1>7, <1>8, <1>9, <1>10
        DEF Next, CannotStart, AtRest

LEMMA CallInit == Init => CallInv
<1> SUFFICES ASSUME Init PROVE CallInv
  OBVIOUS
<1>1. /\ data = << >> /\ file = [whole |-> TRUE, map |-> << >>] /\ up = TRUE /\ calls = << >>
      /\ pc = Rest("idle") /\ req = Rest(CHOOSE r \in Requests : TRUE)
      /\ tmp_args = Rest(NoSession) /\ frame = Rest(NoFrame)
      /\ result = Rest(None) /\ todo = Rest({}) /\ given = {} /\ dropped = {}
  BY DEF Init, MapInit
<1>2. ThreadTypes
  <2>1. (CHOOSE r \in Requests : TRUE) \in Request
    BY RequestsAssumption
  <2>2. NoFrame \in Locals
    BY LimitsAssumption DEF NoFrame, Locals
  <2> QED BY <1>1, <2>1, <2>2 DEF ThreadTypes, Rest, Labels
<1>3. StoreTypes
  BY <1>1, EmptyMap DEF StoreTypes
<1>4. OtherTypes
  <2>1. calls \in Seq(CallRec)
    BY <1>1, EmptySeq
  <2> QED BY <1>1, <2>1 DEF OtherTypes, Rest
<1>5. \A t \in Threads : pc[t] = "idle" /\ result[t] = None
  BY <1>1 DEF Rest
<1>6. (\A t \in Threads : CallOf(t)) /\ Owned
  BY <1>5 DEF CallOf, Owned
<1>7. Truncated
  <2>1. file.whole
    BY <1>1
  <2> QED BY <2>1, Zenon DEF Truncated
<1> QED BY <1>2, <1>3, <1>4, <1>6, <1>7 DEF CallInv, Shape

LEMMA CallInvariant == Spec => []CallInv
<1>1. Init => CallInv
  BY CallInit
<1>2. CallInv /\ [Next]_vars => CallInv'
  BY CallStep
<1> QED BY <1>1, <1>2, PTL DEF Spec

\* THEOREM: what any number of threads cache, through streams that break off,
\* are abandoned or overtaken, raising models and stores, flushes, crashes and
\* restarts, is a whole answer to that question; and Moderation.create returns a
\* result for each input.
THEOREM AnswersWhole == Spec => []WholeAnswers
<1>1. CallInv => WholeAnswers
  <2> SUFFICES ASSUME CallInv PROVE WholeAnswers
    OBVIOUS
  <2>1. TypeOK
    <3>1. /\ DOMAIN data \subseteq Keys /\ Cardinality(DOMAIN data) <= MaxSize
          /\ \A k \in DOMAIN data :
                data[k].ans \in DOMAIN calls /\ data[k].sess \subseteq Sessions
      BY DEF CallInv, Shape, StoreTypes, GoodMap, Saved
    <3>2. /\ pc \in [Threads -> Labels]
          /\ \A t \in Threads : frame[t].session \in Sessions \cup {NoSession}
          /\ \A t \in Threads : frame[t].read \in 0..Chunks
      BY DEF CallInv, Shape, ThreadTypes, Locals
    <3>3. \A t \in Threads : todo[t] \subseteq Keys \cup Sessions
      BY DEF CallInv, Shape, OtherTypes
    <3> QED BY <3>1, <3>2, <3>3 DEF TypeOK, Labels, CallInv, Truncated
  <2>2. \A k \in DOMAIN data : calls[data[k].ans].k = k /\ calls[data[k].ans].parts = Chunks
    BY DEF CallInv, Shape, StoreTypes, GoodMap, Saved
  <2>3. \A t \in Threads :
          pc[t] = "idle" /\ Api(t).counted /\ result[t] \notin {None, Raised}
              => calls[result[t]].n = req[t].n
    BY DEF CallInv, CallOf
  <2> QED BY <2>1, <2>2, <2>3 DEF WholeAnswers
<1> QED BY <1>1, CallInvariant, PTL

\* THEOREM: a stream that comes to its end without an exception was saved, once,
\* whatever other threads, the store and the process do.
THEOREM StreamsSaved == Spec => []EndOfStreamMeansSaved
<1>1. CallInv => EndOfStreamMeansSaved
  BY DEF CallInv, CallOf, EndOfStreamMeansSaved
<1> QED BY <1>1, CallInvariant, PTL

-----------------------------------------------------------------------------
(* Sessions: one request, or one drop, of a session at a time.             *)

\* The session of a thread is the one of its request, or none for the prompts
\* of a batch but the first; a drop still has to see the entries that name it.
SessOf(t) ==
    /\ pc[t] # "prompt" => tmp_args[t] = NoSession
    /\ pc[t] = "prompt" => tmp_args[t] \in {req[t].s, NoSession}
    /\ pc[t] \notin {"idle", "drop"} => req[t].s \notin dropped
    /\ pc[t] \notin {"idle", "drop", "prompt"} => frame[t].session \in {req[t].s, NoSession}
    /\ pc[t] = "drop" => \A k \in DOMAIN data : req[t].s \in data[k].sess => k \in todo[t]

OneAtATime ==
    \A t, u \in Threads :
        t # u /\ pc[t] # "idle" /\ pc[u] # "idle" /\ req[t].s # NoSession => req[t].s # req[u].s

\* A process that is down has no threads, and its sessions went with it.
DownRests == ~up => dropped = {} /\ given = {} /\ \A t \in Threads : pc[t] = "idle"

SessInv == (\A t \in Threads : SessOf(t)) /\ OneAtATime /\ DownRests /\ DropForgets

\* An entry is given no session but the one that t's adapt was called with.
Names(t) ==
    \A k \in DOMAIN data' : \A s \in data'[k].sess :
        \/ k \in DOMAIN data /\ s \in data[k].sess
        \/ pc[t] \notin {"idle", "drop", "prompt"} /\ s = frame[t].session

\* A session is dropped when t's list is done.
Dropped(t) ==
    \A s \in dropped' :
        \/ s \in dropped
        \/ pc[t] = "drop" /\ s = req[t].s /\ todo[t] = {} /\ data' = data

\* A session that t takes is free.
Free(t) ==
    pc'[t] # "idle" =>
        (pc[t] # "idle" /\ req'[t].s = req[t].s) \/ ~InUse(req'[t].s)

OwnLists(t) ==
    \A u \in Threads \ {t} : tmp_args'[u] = tmp_args[u] /\ todo'[u] = todo[u]

\* The sessions of an entry, then and now, are names.
LEMMA EntrySessions ==
    ASSUME CallInv, NEW k \in DOMAIN data
    PROVE  data[k].sess \subseteq Sessions
BY DEF CallInv, Shape, StoreTypes, GoodMap

\* A step of one thread preserves the invariant when it does for this thread.
LEMMA SessThread ==
    ASSUME CallInv, CallInv', SessInv, NEW t \in Threads, up'= up,
           up \/ pc[t] # "idle", Moves(t), OwnLists(t), Names(t), Dropped(t), Free(t), SessOf(t)'
    PROVE  SessInv'
<1>1. \A u \in Threads \ {t} : /\ pc'[u] = pc[u] /\ req'[u] = req[u] /\ frame'[u] = frame[u]
                              /\ tmp_args'[u] = tmp_args[u] /\ todo'[u] = todo[u]
  BY DEF Moves, OwnLists
<1>2. up
  BY DEF SessInv, DownRests
<1>3. \A k \in DOMAIN data' : data'[k].sess \subseteq Sessions
  BY DEF CallInv, Shape, StoreTypes, GoodMap
<1>4. /\ pc[t] \notin {"idle", "drop", "prompt"} => frame[t].session \in {req[t].s, NoSession}
      /\ pc[t] \notin {"idle", "drop"} => req[t].s \notin dropped
  BY DEF SessInv, SessOf
<1>5. pc[t] = "drop" => req[t].s \in Sessions
  BY DEF CallInv, CallOf
<1>6. \A u \in Threads \ {t} : pc[u] # "idle" /\ pc[t] # "idle" /\ req[t].s # NoSession =>
          req[t].s # req[u].s
  BY DEF SessInv, OneAtATime
<1>7. ASSUME NEW u \in Threads \ {t} PROVE SessOf(u)'
  <2>1. SessOf(u)
    BY DEF SessInv
  <2>2. pc[u] \notin {"idle", "drop"} => req[u].s \notin dropped'
    BY <1>5, <1>6, <2>1, MapAssumption DEF SessOf, Dropped
  <2>3. ASSUME pc[u] = "drop", NEW k \in DOMAIN data', req[u].s \in data'[k].sess
        PROVE  k \in todo[u]
    <3>1. req[u].s # NoSession
      BY <1>3, <2>3, MapAssumption
    <3>2. pc[t] \notin {"idle", "drop", "prompt"} => req[u].s # frame[t].session
      BY <1>4, <1>6, <2>3, <3>1
    <3>3. k \in DOMAIN data /\ req[u].s \in data[k].sess
      BY <2>3, <3>2 DEF Names
    <3> QED BY <2>1, <2>3, <3>3 DEF SessOf
  <2> QED BY <1>1, <2>1, <2>2, <2>3 DEF SessOf
<1>8. OneAtATime'
  <2>1. ASSUME NEW u \in Threads \ {t}, pc'[t] # "idle", pc[u] # "idle", req'[t].s = req[u].s
        PROVE  req[u].s = NoSession
    <3>1. CASE pc[t] # "idle" /\ req'[t].s = req[t].s
      BY <1>6, <2>1, <3>1
    <3>2. CASE ~InUse(req'[t].s)
      BY <2>1, <3>2 DEF InUse
    <3> QED BY <2>1, <3>1, <3>2 DEF Free
  <2> QED BY <1>1, <2>1 DEF SessInv, OneAtATime
<1>9. DownRests'
  BY <1>2 DEF DownRests
<1>10. ASSUME NEW s \in dropped', NEW k \in DOMAIN data', s \in data'[k].sess PROVE FALSE
  <2>1. s \in Sessions /\ s # NoSession
    BY <1>3, <1>10, MapAssumption
  <2>2. CASE s \in dropped
    <3>1. ~(k \in DOMAIN data /\ s \in data[k].sess)
      BY <2>2 DEF SessInv, DropForgets
    <3>2. pc[t] \notin {"idle", "drop", "prompt"} /\ s = frame[t].session
      BY <1>10, <3>1 DEF Names
    <3> QED BY <1>4, <2>1, <2>2, <3>2
  <2>3. CASE pc[t] = "drop" /\ s = req[t].s /\ todo[t] = {} /\ data' = data
    BY <1>10, <2>3 DEF SessInv, SessOf
  <2> QED BY <1>10, <2>2, <2>3 DEF Dropped
<1>11. DropForgets'
  BY <1>10 DEF DropForgets
<1> QED BY <1>7, <1>8, <1>9, <1>11 DEF SessInv

\* An adapter at its end has no session any more.
LEMMA ReturnSess ==
    ASSUME CallInv, SessInv, NEW t \in Threads, NEW res \in Nat \cup {None, Raised}, Return(t, res),
           pc[t] \notin {"idle", "drop", "prompt"}, tmp_args' = tmp_args, dropped' = dropped
    PROVE  SessOf(t)' /\ Free(t) /\ Moves(t)
<1>1. /\ Moves(t) /\ pc'[t] \in {"idle", "prompt"} /\ req'[t].s = req[t].s
  BY ReturnFacts DEF CallInv, Shape
<1>2. SessOf(t)
  BY DEF SessInv
<1> QED BY <1>1, <1>2 DEF SessOf, Free

\* What the map keeps when it does not change
LEMMA SameNames ==
    ASSUME NEW t \in Threads, data' = data
    PROVE  Names(t)
BY DEF Names

\* Steps that begin a request or a drop
LEMMA SessBegins ==
    ASSUME CallInv, CallInv', SessInv, NEW t \in Threads,
           \/ \E r \in Requests : Begin(t, r) \/ BeginBatch(t, r)
           \/ \E s \in Sessions : Drop(t, s)
    PROVE  SessInv'
<1>1. ThreadTypes /\ OtherTypes /\ SessOf(t)
  BY DEF CallInv, Shape, SessInv
<1>2. CASE \E r \in Requests : Begin(t, r) \/ BeginBatch(t, r)
  <2>1. PICK r \in Requests : Begin(t, r) \/ BeginBatch(t, r)
    BY <1>2
  <2>2. r \in Request /\ r.s \in Sessions \cup {NoSession}
    BY RequestsAssumption DEF Request
  <2>3. /\ up /\ pc[t] = "idle" /\ ~InUse(r.s) /\ req' = [req EXCEPT ![t] = r]
        /\ dropped' = dropped \ {r.s} /\ result' = [result EXCEPT ![t] = None]
        /\ UNCHANGED <<data, file, up, todo>>
    BY <2>1 DEF Begin, BeginBatch, Arrive, store
  <2>4. req'[t] = r /\ tmp_args[t] = NoSession
    BY <1>1, <2>2, <2>3 DEF ThreadTypes, SessOf
  <2>5. CASE Begin(t, r)
    <3>1. /\ tmp_args' = tmp_args /\ pc' = [pc EXCEPT ![t] = "search"]
          /\ frame' = [frame EXCEPT ![t] = [frame[t] EXCEPT !.session = r.s]]
      BY <1>1, <2>5 DEF Begin, Goto, ThreadTypes
    <3>2. pc'[t] = "search" /\ frame'[t].session = r.s
      BY <1>1, <3>1 DEF ThreadTypes, Locals
    <3>3. SessOf(t)'
      BY <2>3, <2>4, <3>1, <3>2 DEF SessOf
    <3>4. Moves(t) /\ OwnLists(t)
      BY <1>1, <2>3, <3>1 DEF Moves, OwnLists, ThreadTypes
    <3>5. Names(t) /\ Dropped(t) /\ Free(t)
      BY <2>3, <2>4, SameNames DEF Dropped, Free
    <3> QED BY <2>3, <3>3, <3>4, <3>5, SessThread
  <2>6. CASE BeginBatch(t, r)
    <3>1. /\ tmp_args' = [tmp_args EXCEPT ![t] = r.s] /\ pc' = [pc EXCEPT ![t] = "prompt"]
          /\ frame' = frame
      BY <2>6 DEF BeginBatch, Goto
    <3>2. pc'[t] = "prompt" /\ tmp_args'[t] = r.s
      BY <1>1, <3>1 DEF ThreadTypes, OtherTypes
    <3>3. SessOf(t)'
      BY <2>3, <2>4, <3>2 DEF SessOf
    <3>4. Moves(t) /\ OwnLists(t)
      BY <1>1, <2>3, <3>1 DEF Moves, OwnLists, ThreadTypes, OtherTypes
    <3>5. Names(t) /\ Dropped(t) /\ Free(t)
      BY <2>3, <2>4, SameNames DEF Dropped, Free
    <3> QED BY <2>3, <3>3, <3>4, <3>5, SessThread
  <2> QED BY <2>1, <2>5, <2>6
<1>3. CASE \E s \in Sessions : Drop(t, s)
  <2>1. PICK s \in Sessions : Drop(t, s)
    BY <1>3
  <2>2. /\ up /\ pc[t] = "idle" /\ ~InUse(s) /\ pc' = [pc EXCEPT ![t] = "drop"]
        /\ req' = [req EXCEPT ![t] = [req[t] EXCEPT !.s = s]]
        /\ todo' = [todo EXCEPT ![t] = ListSessions(s)]
        /\ result' = [result EXCEPT ![t] = None]
        /\ UNCHANGED <<data, frame, up, tmp_args, dropped>>
    BY <1>1, <2>1 DEF Drop, Goto, ThreadTypes, store
  <2>3. req[t] \in Request
    BY <1>1 DEF ThreadTypes
  <2>4. pc'[t] = "drop" /\ req'[t].s = s /\ todo'[t] = ListSessions(s)
    BY <1>1, <2>2, <2>3 DEF ThreadTypes, OtherTypes, Request
  <2>5. \A k \in DOMAIN data : s \in data[k].sess => k \in ListSessions(s)
    BY DEF ListSessions
  <2>6. SessOf(t)'
    BY <1>1, <2>2, <2>4, <2>5 DEF SessOf
  <2>7. Moves(t) /\ OwnLists(t)
    BY <1>1, <2>2 DEF Moves, OwnLists, ThreadTypes, OtherTypes
  <2>8. Names(t) /\ Dropped(t) /\ Free(t)
    BY <2>2, <2>4, SameNames DEF Dropped, Free
  <2> QED BY <2>2, <2>6, <2>7, <2>8, SessThread
<1> QED BY <1>2, <1>3

\* Steps within a request that leave the map alone
LEMMA SessGoesOn ==
    ASSUME CallInv, CallInv', SessInv, NEW t \in Threads,
           NextPrompt(t) \/ Search(t) \/ CallModel(t) \/ Read(t) \/ Exhaust(t) \/ OpenFile(t)
    PROVE  SessInv'
<1>1. ThreadTypes /\ OtherTypes /\ SessOf(t)
  BY DEF CallInv, Shape, SessInv
<1>2. /\ pc[t] \in {"prompt", "search", "miss", "open", "flush"}
      /\ UNCHANGED <<data, up, req, result, todo, dropped>>
  BY DEF NextPrompt, Search, CallModel, Read, Exhaust, OpenFile, FlushOpen, store, client, aux
<1>3. PICK label \in {"search", "hit", "miss", "open", "save", "dump"} :
         pc' = [pc EXCEPT ![t] = label]
  <2>1. pc' = [pc EXCEPT ![t] = pc[t]] \/ ~Read(t)
    BY <1>1 DEF Read, ThreadTypes
  <2>2. Read(t) => pc[t] = "open"
    BY DEF Read
  <2> QED BY <2>1, <2>2 DEF NextPrompt, Search, CallModel, Exhaust, OpenFile, Goto
<1>4. pc'[t] = label /\ \A u \in Threads \ {t} : pc'[u] = pc[u]
  BY <1>1, <1>3 DEF ThreadTypes
<1>5. PICK f \in Locals : frame' = [frame EXCEPT ![t] = f]
  <2>1. CallInv' => frame' \in [Threads -> Locals]
    BY DEF CallInv, Shape, ThreadTypes
  <2>2. \A u \in Threads \ {t} : frame'[u] = frame[u]
    BY <1>1 DEF NextPrompt, Search, CallModel, Read, Exhaust, OpenFile, client, ThreadTypes
  <2>3. frame' = [frame EXCEPT ![t] = frame'[t]] /\ frame'[t] \in Locals
    BY <1>1, <2>1, <2>2 DEF ThreadTypes
  <2> QED BY <2>3
<1>6. CASE NextPrompt(t)
  <2>1. /\ pc[t] = "prompt" /\ tmp_args' = [tmp_args EXCEPT ![t] = NoSession]
        /\ frame' = [frame EXCEPT ![t] = [frame[t] EXCEPT !.session = tmp_args[t]]]
    BY <1>1, <1>6 DEF NextPrompt, ThreadTypes
  <2>2. frame'[t].session = tmp_args[t] /\ tmp_args'[t] = NoSession
    BY <1>1, <2>1 DEF ThreadTypes, OtherTypes, Locals
  <2>3. pc'[t] \notin {"idle", "drop", "prompt"}
    BY <1>4
  <2>4. SessOf(t)'
    BY <1>1, <1>2, <2>1, <2>2, <2>3 DEF SessOf
  <2>5. Moves(t) /\ OwnLists(t)
    BY <1>1, <1>2, <1>4, <1>5, <2>1 DEF Moves, OwnLists, ThreadTypes, OtherTypes
  <2>6. Names(t) /\ Dropped(t) /\ Free(t)
    BY <1>2, SameNames DEF Dropped, Free
  <2> QED BY <1>2, <2>4, <2>5, <2>6, SessThread
<1>7. CASE ~NextPrompt(t)
  <2>1. tmp_args' = tmp_args /\ pc[t] # "prompt" /\ pc[t] \notin {"idle", "drop"}
    BY <1>7 DEF Search, CallModel, Read, Exhaust, OpenFile, client
  <2>2. frame'[t].session = frame[t].session
    BY <1>1, <1>7 DEF Search, CallModel, Read, Exhaust, OpenFile, client, ThreadTypes, Locals
  <2>3. pc'[t] \notin {"idle", "drop", "prompt"}
    BY <1>4
  <2>4. SessOf(t)'
    BY <1>1, <1>2, <2>1, <2>2, <2>3 DEF SessOf
  <2>5. Moves(t) /\ OwnLists(t)
    BY <1>1, <1>2, <1>4, <1>5, <2>1 DEF Moves, OwnLists, ThreadTypes
  <2>6. Names(t) /\ Dropped(t) /\ Free(t)
    BY <1>2, <2>1, SameNames DEF Dropped, Free
  <2> QED BY <1>2, <2>1, <2>4, <2>5, <2>6, SessThread
<1> QED BY <1>6, <1>7

\* Steps that end a request without touching the map
LEMMA SessReturns ==
    ASSUME CallInv, CallInv', SessInv, NEW t \in Threads,
           \/ ModelRaises(t) \/ Abandon(t) \/ NoImage(t) \/ PassOn(t)
           \/ SaveRaises(t) \/ Dump(t)
    PROVE  SessInv'
<1>1. ThreadTypes /\ OtherTypes
  BY DEF CallInv, Shape
<1>2. /\ pc[t] \notin {"idle", "drop", "prompt"}
      /\ UNCHANGED <<data, up, tmp_args, todo, dropped>>
  BY DEF ModelRaises, Abandon, NoImage, PassOn, SaveRaises, Dump, FlushDump, store, aux
<1>3. PICK res \in Nat \cup {None, Raised} : Return(t, res)
  BY <1>1, KeyFacts DEF ModelRaises, Abandon, NoImage, PassOn, SaveRaises, Dump
<1>4. SessOf(t)' /\ Free(t) /\ Moves(t)
  BY <1>2, <1>3, ReturnSess
<1>5. OwnLists(t) /\ Names(t) /\ Dropped(t)
  BY <1>2, SameNames DEF OwnLists, Dropped
<1> QED BY <1>2, <1>4, <1>5, SessThread

\* A hit, and a save, name the session of the request.
LEMMA HitNames ==
    ASSUME CallInv, NEW t \in Threads, Hit(t)
    PROVE  /\ Names(t) /\ DOMAIN data' = DOMAIN data
           /\ \A j \in DOMAIN data : data'[j].ans = data[j].ans /\ data[j].sess \subseteq data'[j].sess
           /\ frame[t].session # NoSession /\ Key(t) \in DOMAIN data /\ data[Key(t)].ans = Call(t)
                 => frame[t].session \in data'[Key(t)].sess
<1>1. pc[t] = "hit" /\ AddSession(Key(t), Call(t), frame[t].session)
  BY DEF Hit
<1>2. GoodMap(calls, data) /\ Key(t) \in Keys /\ Call(t) \in Nat
      /\ frame[t].session \in Sessions \cup {NoSession}
  BY KeyFacts DEF CallInv, Shape, StoreTypes
<1>3. /\ DOMAIN data' = DOMAIN data
      /\ \A j \in DOMAIN data : /\ data'[j].ans = data[j].ans
                                /\ data[j].sess \subseteq data'[j].sess
                                /\ data'[j].sess \subseteq data[j].sess \cup {frame[t].session}
      /\ frame[t].session # NoSession /\ Key(t) \in DOMAIN data /\ data[Key(t)].ans = Call(t)
            => frame[t].session \in data'[Key(t)].sess
  BY <1>1, <1>2, AddSessionFacts
<1>4. Names(t)
  BY <1>1, <1>3 DEF Names
<1> QED BY <1>3, <1>4

LEMMA SaveNames ==
    ASSUME CallInv, NEW t \in Threads, SaveAnswer(t)
    PROVE  /\ Names(t) /\ CallsKept(t) /\ Saved(calls', Call(t), Key(t))
           /\ Key(t) \in DOMAIN data' /\ data'[Key(t)] = Entry(Call(t), frame[t].session)
           /\ \A j \in DOMAIN data' \ {Key(t)} : j \in DOMAIN data /\ data'[j] = data[j]
<1>1. /\ pc[t] = "save" /\ Save(Key(t), Call(t), frame[t].session)
      /\ calls' = [calls EXCEPT ![Call(t)].parts = frame[t].read, ![Call(t)].saves = @ + 1]
  BY DEF SaveAnswer
<1>2. /\ CallsKept(t) /\ Saved(calls', Call(t), Key(t))
      /\ \A i \in DOMAIN calls : calls[i].saves = 1 => i \in DOMAIN calls' /\ calls'[i] = calls[i]
  BY <1>1, SavedCall
<1>3. GoodMap(calls', data) /\ Key(t) \in Keys /\ Call(t) \in Nat
      /\ frame[t].session \in Sessions \cup {NoSession}
  BY <1>2, KeyFacts, MapKept DEF CallInv, Shape, StoreTypes
<1>4. /\ Key(t) \in DOMAIN data' /\ data'[Key(t)] = Entry(Call(t), frame[t].session)
      /\ \A j \in DOMAIN data' \ {Key(t)} : j \in DOMAIN data /\ data'[j] = data[j]
  BY <1>1, <1>2, <1>3, SaveFacts
<1>5. data'[Key(t)].sess \subseteq {frame[t].session}
  BY <1>4 DEF Entry
<1>6. Names(t)
  BY <1>1, <1>4, <1>5 DEF Names
<1> QED BY <1>2, <1>4, <1>6

\* A hit and a save, which may end the request
LEMMA SessAnswers ==
    ASSUME CallInv, CallInv', SessInv, NEW t \in Threads, Hit(t) \/ SaveAnswer(t)
    PROVE  SessInv'
<1>1. ThreadTypes /\ OtherTypes /\ SessOf(t)
  BY DEF CallInv, Shape, SessInv
<1>2. pc[t] \in {"hit", "save"} /\ UNCHANGED <<up, tmp_args, todo, dropped>>
  BY DEF Hit, SaveAnswer
<1>3. Names(t) /\ OwnLists(t) /\ Dropped(t)
  BY <1>2, HitNames, SaveNames DEF OwnLists, Dropped
<1>4. CASE Return(t, Call(t))
  <2>1. SessOf(t)' /\ Free(t) /\ Moves(t)
    BY <1>1, <1>2, <1>4, KeyFacts, ReturnSess
  <2> QED BY <1>2, <1>3, <2>1, SessThread
<1>5. CASE ~Return(t, Call(t))
  <2>1. PICK label \in {"miss", "flush"} : Goto(t, label)
    BY <1>5 DEF Hit, SaveAnswer
  <2>2. UNCHANGED <<req, result, frame>>
    BY <1>5 DEF Hit, SaveAnswer
  <2>3. pc'[t] = label /\ Moves(t)
    BY <1>1, <2>1, <2>2, LabelFacts, MoveFacts
  <2>4. SessOf(t)' /\ Free(t)
    BY <1>1, <1>2, <2>2, <2>3 DEF SessOf, Free
  <2> QED BY <1>2, <1>3, <2>3, <2>4, SessThread
<1> QED BY <1>4, <1>5

\* The steps of a drop
LEMMA SessDrops ==
    ASSUME CallInv, CallInv', SessInv, NEW t \in Threads,
           DropOne(t) \/ DropRaises(t) \/ DropEnds(t)
    PROVE  SessInv'
<1>1. ThreadTypes /\ OtherTypes /\ SessOf(t) /\ req[t] \in Request
  BY DEF CallInv, Shape, SessInv, ThreadTypes
<1>2. pc[t] = "drop" /\ UNCHANGED <<up, tmp_args, req, frame>>
  BY DEF DropOne, DropRaises, DropEnds, client
<1>3. req[t].s \in Sessions
  BY <1>2 DEF CallInv, CallOf
<1>4. CASE DropOne(t)
  <2>1. PICK k \in todo[t] :
           /\ DeleteOne(k, req[t].s) /\ todo' = [todo EXCEPT ![t] = @ \ {k}]
           /\ UNCHANGED <<pc, result, dropped>>
    BY <1>4 DEF DropOne, aux
  <2>2. /\ DOMAIN data' \subseteq DOMAIN data
        /\ \A j \in DOMAIN data' : /\ data'[j].ans = data[j].ans
                                   /\ data'[j].sess = data[j].sess \ IF j = k THEN {req[t].s} ELSE {}
    BY <1>3, <2>1, DeleteFacts DEF CallInv, Shape, StoreTypes
  <2>3. Names(t)
    BY <2>2 DEF Names
  <2>4. todo'[t] = todo[t] \ {k} /\ Moves(t) /\ OwnLists(t)
    BY <1>1, <1>2, <2>1 DEF OtherTypes, Moves, OwnLists
  <2>5. SessOf(t)'
    <3>1. ASSUME NEW j \in DOMAIN data', req[t].s \in data'[j].sess PROVE j \in todo'[t]
      BY <1>1, <1>2, <2>2, <2>4, <3>1 DEF SessOf
    <3> QED BY <1>1, <1>2, <2>1, <3>1 DEF SessOf
  <2>6. Dropped(t) /\ Free(t)
    BY <1>2, <2>1 DEF Dropped, Free
  <2> QED BY <1>2, <2>3, <2>4, <2>5, <2>6, SessThread
<1>5. CASE DropRaises(t) \/ DropEnds(t)
  <2>1. /\ pc' = [pc EXCEPT ![t] = "idle"] /\ data' = data
        /\ result' = result \/ result' = [result EXCEPT ![t] = Raised]
        /\ todo' = todo \/ todo' = [todo EXCEPT ![t] = {}]
    BY <1>5 DEF DropRaises, DropEnds, Goto, store, client
  <2>2. Dropped(t)
    BY <1>2, <1>5, <2>1 DEF DropRaises, DropEnds, Dropped, aux
  <2>3. pc'[t] = "idle" /\ Moves(t) /\ OwnLists(t)
    BY <1>1, <1>2, <2>1 DEF Moves, OwnLists, ThreadTypes, OtherTypes
  <2>4. SessOf(t)' /\ Free(t) /\ Names(t)
    BY <1>1, <1>2, <2>1, <2>3, SameNames DEF SessOf, Free
  <2> QED BY <1>2, <2>2, <2>3, <2>4, SessThread
<1> QED BY <1>4, <1>5

\* The life of the process, and a step that does nothing
LEMMA SessRests ==
    ASSUME SessInv, Crash \/ Exit \/ Start \/ UNCHANGED vars
    PROVE  SessInv'
<1>1. CASE Crash \/ Exit
  <2>1. /\ pc' = Rest("idle") /\ tmp_args' = Rest(NoSession) /\ given' = {} /\ dropped' = {}
    BY <1>1 DEF Crash, Exit, Down
  <2>2. \A t \in Threads : pc'[t] = "idle" /\ tmp_args'[t] = NoSession
    BY <2>1 DEF Rest
  <2>3. (\A t \in Threads : SessOf(t)') /\ OneAtATime'
    BY <2>2 DEF SessOf, OneAtATime
  <2>4. DownRests' /\ DropForgets'
    BY <2>1, <2>2 DEF DownRests, DropForgets
  <2> QED BY <2>3, <2>4 DEF SessInv
<1>2. CASE Start
  <2>1. ~up /\ up' = TRUE /\ UNCHANGED <<pc, req, tmp_args, frame, todo, given, dropped>>
    BY <1>2 DEF Start, client, aux
  <2>2. dropped = {} /\ \A t \in Threads : pc[t] = "idle" /\ tmp_args[t] = NoSession
    BY <2>1 DEF SessInv, DownRests, SessOf
  <2>3. (\A t \in Threads : SessOf(t)') /\ OneAtATime'
    BY <2>1, <2>2 DEF SessOf, OneAtATime
  <2>4. DownRests' /\ DropForgets'
    BY <2>1, <2>2 DEF DownRests, DropForgets
  <2> QED BY <2>3, <2>4 DEF SessInv
<1>3. CASE UNCHANGED vars
  <2>1. UNCHANGED <<data, up, pc, req, tmp_args, frame, todo, given, dropped>>
    BY <1>3 DEF vars, store, client, aux
  <2>2. (\A t \in Threads : SessOf(t)') /\ OneAtATime'
    BY <2>1 DEF SessInv, SessOf, OneAtATime
  <2>3. DownRests' /\ DropForgets'
    BY <2>1 DEF SessInv, DownRests, DropForgets
  <2> QED BY <2>2, <2>3 DEF SessInv
<1> QED BY <1>1, <1>2, <1>3

LEMMA SessStep == CallInv /\ CallInv' /\ SessInv /\ [Next]_vars => SessInv'
<1> SUFFICES ASSUME CallInv, CallInv', SessInv, [Next]_vars PROVE SessInv'
  OBVIOUS
<1>1. ASSUME NEW t \in Threads,
             \/ \E r \in Requests : Begin(t, r) \/ BeginBatch(t, r)
             \/ \E s \in Sessions : Drop(t, s)
      PROVE  SessInv'
  BY <1>1, SessBegins
<1>2. ASSUME NEW t \in Threads,
             NextPrompt(t) \/ Search(t) \/ CallModel(t) \/ Read(t) \/ Exhaust(t) \/ OpenFile(t)
      PROVE  SessInv'
  BY <1>2, SessGoesOn
<1>3. ASSUME NEW t \in Threads,
             \/ ModelRaises(t) \/ Abandon(t) \/ NoImage(t) \/ PassOn(t)
             \/ SaveRaises(t) \/ Dump(t)
      PROVE  SessInv'
  BY <1>3, SessReturns
<1>4. ASSUME NEW t \in Threads, Hit(t) \/ SaveAnswer(t) PROVE SessInv'
  BY <1>4, SessAnswers
<1>5. ASSUME NEW t \in Threads, DropOne(t) \/ DropRaises(t) \/ DropEnds(t) PROVE SessInv'
  BY <1>5, SessDrops
<1>6. CASE Crash \/ Exit \/ Start \/ UNCHANGED vars
  BY <1>6, SessRests
<1> QED BY <1>1, <1>2, <1>3, <1>4, <1>5, <1>6 DEF Next, CannotStart, AtRest

LEMMA SessInit == Init => SessInv
<1> SUFFICES ASSUME Init PROVE SessInv
  OBVIOUS
<1>1. up = TRUE /\ dropped = {} /\ given = {} /\ pc = Rest("idle") /\ tmp_args = Rest(NoSession)
  BY DEF Init
<1>2. \A t \in Threads : pc[t] = "idle" /\ tmp_args[t] = NoSession
  BY <1>1 DEF Rest
<1>3. (\A t \in Threads : SessOf(t)) /\ OneAtATime
  BY <1>2 DEF SessOf, OneAtATime
<1>4. DownRests /\ DropForgets
  BY <1>1, <1>2 DEF DownRests, DropForgets
<1> QED BY <1>3, <1>4 DEF SessInv

LEMMA SessInvariant == Spec => []SessInv
<1>1. Init => SessInv
  BY SessInit
<1>2. CallInv /\ CallInv' /\ SessInv /\ [Next]_vars => SessInv'
  BY SessStep
<1> QED BY <1>1, <1>2, CallInvariant, PTL DEF Spec

\* THEOREM: when Session.drop has returned, no entry of the map names the
\* session until it asks again, whatever requests of other sessions hit, save
\* and evict while delete_session goes through its list.
THEOREM DropCorrect == Spec => []DropForgets
<1>1. SessInv => DropForgets
  BY DEF SessInv
<1> QED BY <1>1, SessInvariant, PTL

-----------------------------------------------------------------------------
(* A session is given an answer once.                                      *)

\* tmp_args has the session for the first prompt of a batch only: the other
\* prompts of a session's batch are asked, and answered, without it.
BatchesWithoutSession == \A r \in Requests : Len(r.ks) > 1 => r.s = NoSession

\* adapt was called with the session of the request, and what it found was not
\* given to it.
OnceOf(t) ==
    /\ pc[t] \notin {"idle", "drop"} /\ Len(req[t].ks) > 1 => req[t].s = NoSession
    /\ pc[t] \notin {"idle", "drop", "prompt"} => frame[t].session = req[t].s
    /\ pc[t] = "prompt" => tmp_args[t] = req[t].s
    /\ pc[t] = "drop" => \A g \in given : g[1] # req[t].s
    /\ pc[t] = "hit" => <<req[t].s, Call(t)>> \notin given

\* An answer that a session was given names it wherever it is cached.
GivenKnown ==
    \A g \in given :
        /\ g[2] \in DOMAIN calls /\ calls[g[2]].saves = 1
        /\ \A k \in DOMAIN data : data[k].ans = g[2] => g[1] \in data[k].sess

OnceInv == (\A t \in Threads : OnceOf(t)) /\ GivenKnown /\ AnswerOncePerSession

\* What is given, is given to the session of t's request.
GivesTo(t) ==
    \A g \in given' :
        \/ g \in given
        \/ pc[t] \notin {"idle", "drop"} /\ g[1] = req[t].s /\ g[1] # NoSession

\* What others know of what was given stays so.
LEMMA OnceOthers ==
    ASSUME SessInv, OnceInv, NEW t \in Threads, Moves(t), OwnLists(t), GivesTo(t),
           NEW u \in Threads \ {t}
    PROVE  OnceOf(u)'
<1>1. /\ pc'[u] = pc[u] /\ req'[u] = req[u] /\ frame'[u] = frame[u] /\ tmp_args'[u] = tmp_args[u]
      /\ Call(u)' = Call(u)
  BY DEF Moves, OwnLists, Call
<1>2. OnceOf(u)
  BY DEF OnceInv
<1>3. ASSUME pc[u] # "idle", NEW g \in given', g[1] = req[u].s PROVE g \in given
  <2>1. pc[t] # "idle" /\ req[t].s # NoSession => req[t].s # req[u].s
    BY <1>3 DEF SessInv, OneAtATime
  <2> QED BY <1>3, <2>1 DEF GivesTo
<1>4. pc[u] = "drop" => \A g \in given' : g[1] # req[u].s
  BY <1>2, <1>3 DEF OnceOf
<1>5. pc[u] = "hit" => <<req[u].s, Call(u)>> \notin given'
  BY <1>2, <1>3 DEF OnceOf
<1> QED BY <1>1, <1>2, <1>4, <1>5 DEF OnceOf

\* When the map does not change, and nothing is given.
LEMMA GivenSame ==
    ASSUME CallInv, OnceInv, NEW t \in Threads, CallsKept(t), data' = data, given' \subseteq given
    PROVE  GivenKnown'
<1>1. pc[t] = "save" => Call(t) \in DOMAIN calls /\ calls[Call(t)].saves = 0
  <2>1. CallOf(t)
    BY DEF CallInv
  <2> QED BY <2>1 DEF CallOf
<1>2. \A c \in DOMAIN calls : calls[c].saves = 1 => c \in DOMAIN calls' /\ calls'[c] = calls[c]
  BY <1>1 DEF CallsKept
<1> QED BY <1>2 DEF OnceInv, GivenKnown

\* The prompts that are left of a batch are without session.
LEMMA ReturnOnce ==
    ASSUME CallInv, SessInv, OnceInv, NEW t \in Threads, NEW res \in Nat \cup {None, Raised},
           Return(t, res), pc[t] \notin {"idle", "drop", "prompt"}, tmp_args' = tmp_args
    PROVE  OnceOf(t)' /\ Moves(t)
<1>1. /\ Moves(t) /\ pc'[t] \in {"idle", "prompt"} /\ req'[t].s = req[t].s
      /\ pc'[t] = "prompt" => Len(req[t].ks) > 1
  BY ReturnFacts DEF CallInv, Shape
<1>2. tmp_args[t] = NoSession
  BY DEF SessInv, SessOf
<1>3. Len(req[t].ks) > 1 => req[t].s = NoSession
  BY DEF OnceInv, OnceOf
<1> QED BY <1>1, <1>2, <1>3 DEF OnceOf

\* Steps that begin a request or a drop
LEMMA OnceBegins ==
    ASSUME CallInv, SessInv, OnceInv, BatchesWithoutSession, NEW t \in Threads,
           \/ \E r \in Requests : Begin(t, r) \/ BeginBatch(t, r)
           \/ \E s \in Sessions : Drop(t, s)
    PROVE  OnceInv'
<1>1. ThreadTypes /\ OtherTypes /\ SessOf(t)
  BY DEF CallInv, Shape, SessInv
<1>2. CASE \E r \in Requests : Begin(t, r) \/ BeginBatch(t, r)
  <2>1. PICK r \in Requests : Begin(t, r) \/ BeginBatch(t, r)
    BY <1>2
  <2>2. r \in Request /\ (Len(r.ks) > 1 => r.s = NoSession)
    BY RequestsAssumption DEF BatchesWithoutSession
  <2>3. /\ pc[t] = "idle" /\ req' = [req EXCEPT ![t] = r]
        /\ result' = [result EXCEPT ![t] = None]
        /\ UNCHANGED <<data, todo, calls, given, repeated>>
    BY <2>1 DEF Begin, BeginBatch, Arrive, store
  <2>4. req'[t] = r /\ tmp_args[t] = NoSession
    BY <1>1, <2>2, <2>3 DEF ThreadTypes, SessOf
  <2>5. OnceOf(t)' /\ Moves(t) /\ OwnLists(t)
    <3>1. CASE Begin(t, r)
      <4>1. /\ tmp_args' = tmp_args /\ pc' = [pc EXCEPT ![t] = "search"]
            /\ frame' = [frame EXCEPT ![t] = [frame[t] EXCEPT !.session = r.s]]
        BY <1>1, <3>1 DEF Begin, Goto, ThreadTypes
      <4>2. pc'[t] = "search" /\ frame'[t].session = r.s
        BY <1>1, <4>1 DEF ThreadTypes, Locals
      <4>3. OnceOf(t)'
        BY <2>2, <2>4, <4>2 DEF OnceOf
      <4> QED BY <1>1, <2>3, <4>1, <4>3 DEF Moves, OwnLists, ThreadTypes
    <3>2. CASE BeginBatch(t, r)
      <4>1. /\ tmp_args' = [tmp_args EXCEPT ![t] = r.s] /\ pc' = [pc EXCEPT ![t] = "prompt"]
            /\ frame' = frame
        BY <3>2 DEF BeginBatch, Goto
      <4>2. pc'[t] = "prompt" /\ tmp_args'[t] = r.s
        BY <1>1, <4>1 DEF ThreadTypes, OtherTypes
      <4>3. OnceOf(t)'
        BY <2>2, <2>4, <4>2 DEF OnceOf
      <4> QED BY <1>1, <2>3, <4>1, <4>3 DEF Moves, OwnLists, ThreadTypes, OtherTypes
    <3> QED BY <2>1, <3>1, <3>2
  <2>6. GivesTo(t) /\ GivenKnown' /\ AnswerOncePerSession'
    BY <2>3 DEF GivesTo, OnceInv, GivenKnown, AnswerOncePerSession
  <2>7. \A u \in Threads : OnceOf(u)'
    BY <2>5, <2>6, OnceOthers
  <2> QED BY <2>6, <2>7 DEF OnceInv
<1>3. CASE \E s \in Sessions : Drop(t, s)
  <2>1. PICK s \in Sessions : Drop(t, s)
    BY <1>3
  <2>2. /\ pc[t] = "idle" /\ pc' = [pc EXCEPT ![t] = "drop"]
        /\ req' = [req EXCEPT ![t] = [req[t] EXCEPT !.s = s]]
        /\ todo' = [todo EXCEPT ![t] = ListSessions(s)]
        /\ result' = [result EXCEPT ![t] = None]
        /\ given' = {g \in given : g[1] # s}
        /\ UNCHANGED <<data, frame, tmp_args, calls, repeated>>
    BY <1>1, <2>1 DEF Drop, Goto, ThreadTypes, store
  <2>3. pc'[t] = "drop" /\ req'[t].s = s
    BY <1>1, <2>2 DEF ThreadTypes, Request
  <2>4. OnceOf(t)'
    BY <2>2, <2>3 DEF OnceOf
  <2>5. Moves(t) /\ OwnLists(t)
    BY <1>1, <2>2 DEF Moves, OwnLists, ThreadTypes, OtherTypes
  <2>6. GivesTo(t) /\ GivenKnown' /\ AnswerOncePerSession'
    BY <2>2 DEF GivesTo, OnceInv, GivenKnown, AnswerOncePerSession
  <2>7. \A u \in Threads : OnceOf(u)'
    BY <2>4, <2>5, <2>6, OnceOthers
  <2> QED BY <2>6, <2>7 DEF OnceInv
<1> QED BY <1>2, <1>3

\* What search finds was not given to the session: check_hit_session.
LEMMA OnceSearch ==
    ASSUME CallInv, OnceInv, NEW t \in Threads, Search(t)
    PROVE  OnceOf(t)' /\ Moves(t) /\ OwnLists(t)
<1>1. ThreadTypes /\ OtherTypes /\ OnceOf(t)
  BY DEF CallInv, Shape, OnceInv
<1>2. pc[t] = "search" /\ UNCHANGED <<data, req, tmp_args, result, todo, given>>
  BY DEF Search, store, aux
<1>3. frame[t].session = req[t].s /\ (Len(req[t].ks) > 1 => req[t].s = NoSession)
  BY <1>1, <1>2 DEF OnceOf
<1>4. OwnLists(t)
  BY <1>2 DEF OwnLists
<1>5. CASE Hits(Key(t), frame[t].session)
  <2>1. /\ pc' = [pc EXCEPT ![t] = "hit"]
        /\ frame' = [frame EXCEPT ![t] = [frame[t] EXCEPT !.call = data[Key(t)].ans]]
    BY <1>1, <1>5 DEF Search, Goto, ThreadTypes
  <2>2. Key(t) \in DOMAIN data /\ data[Key(t)].ans \in Nat
    BY <1>5 DEF Hits, CallInv, Shape, StoreTypes, GoodMap
  <2>3. pc'[t] = "hit" /\ frame'[t].call = data[Key(t)].ans /\ frame'[t].session = frame[t].session
    BY <1>1, <2>1, <2>2 DEF ThreadTypes, Locals
  <2>4. <<req[t].s, data[Key(t)].ans>> \notin given
    <3>1. ASSUME <<req[t].s, data[Key(t)].ans>> \in given PROVE FALSE
      <4>1. req[t].s \in Sessions
        BY <1>1, <3>1 DEF OtherTypes
      <4>2. req[t].s \in data[Key(t)].sess
        BY <2>2, <3>1 DEF OnceInv, GivenKnown
      <4> QED BY <1>3, <1>5, <4>1, <4>2, MapAssumption DEF Hits
    <3> QED BY <3>1
  <2>5. OnceOf(t)'
    BY <1>2, <1>3, <2>3, <2>4 DEF OnceOf, Call
  <2>6. Moves(t)
    BY <1>1, <1>2, <2>1 DEF Moves, ThreadTypes
  <2> QED BY <1>4, <2>5, <2>6
<1>6. CASE ~Hits(Key(t), frame[t].session)
  <2>1. pc' = [pc EXCEPT ![t] = "miss"] /\ frame' = frame
    BY <1>6 DEF Search, Goto
  <2>2. pc'[t] = "miss"
    BY <1>1, <2>1 DEF ThreadTypes
  <2> QED BY <1>1, <1>2, <1>3, <1>4, <2>1, <2>2 DEF OnceOf, Moves, ThreadTypes
<1> QED BY <1>5, <1>6

\* Steps within a request that leave the map alone
LEMMA OnceGoesOn ==
    ASSUME CallInv, CallInv', SessInv, OnceInv, NEW t \in Threads,
           NextPrompt(t) \/ Search(t) \/ CallModel(t) \/ Read(t) \/ Exhaust(t) \/ OpenFile(t)
    PROVE  OnceInv'
<1>1. ThreadTypes /\ OtherTypes /\ OnceOf(t)
  BY DEF CallInv, Shape, OnceInv
<1>2. /\ pc[t] \in {"prompt", "search", "miss", "open", "flush"}
      /\ UNCHANGED <<data, req, result, todo, given, repeated>>
  BY DEF NextPrompt, Search, CallModel, Read, Exhaust, OpenFile, FlushOpen, store, client, aux
<1>3. CallsKept(t)
  <2>1. CASE CallModel(t)
    <3>1. [k |-> Key(t), n |-> req[t].n, parts |-> 0, saves |-> 0] \in CallRec
      BY <1>1, KeyFacts DEF CallRec, ThreadTypes, Request
    <3>2. /\ DOMAIN calls = 1..Len(calls) /\ DOMAIN calls' = 1..(Len(calls) + 1)
          /\ Len(calls) \in Nat /\ \A i \in DOMAIN calls : calls'[i] = calls[i]
      BY <1>1, <2>1, <3>1, AppendFacts DEF CallModel, OtherTypes
    <3>3. \A i \in DOMAIN calls : i \in DOMAIN calls'
      BY <3>2
    <3> QED BY <3>2, <3>3 DEF CallsKept
  <2>2. CASE ~CallModel(t)
    <3>1. calls' = calls
      BY <2>2 DEF NextPrompt, Search, Read, Exhaust, OpenFile
    <3> QED BY <3>1 DEF CallsKept
  <2> QED BY <2>1, <2>2
<1>4. OnceOf(t)' /\ Moves(t) /\ OwnLists(t)
  <2>1. CASE NextPrompt(t)
    <3>1. /\ pc[t] = "prompt" /\ tmp_args' = [tmp_args EXCEPT ![t] = NoSession]
          /\ frame' = [frame EXCEPT ![t] = [frame[t] EXCEPT !.session = tmp_args[t]]]
          /\ pc' = [pc EXCEPT ![t] = "search"]
      BY <1>1, <2>1 DEF NextPrompt, ThreadTypes, Goto
    <3>2. frame'[t].session = tmp_args[t] /\ pc'[t] = "search"
      BY <1>1, <3>1 DEF ThreadTypes, OtherTypes, Locals
    <3>3. OnceOf(t)'
      BY <1>1, <1>2, <3>1, <3>2 DEF OnceOf
    <3> QED BY <1>1, <1>2, <3>1, <3>3 DEF Moves, OwnLists, ThreadTypes, OtherTypes
  <2>2. CASE Search(t)
    BY <2>2, OnceSearch
  <2>3. CASE CallModel(t) \/ Read(t) \/ Exhaust(t) \/ OpenFile(t)
    <3>1. /\ tmp_args' = tmp_args /\ pc[t] \in {"miss", "open", "flush"}
          /\ \A u \in Threads \ {t} : pc'[u] = pc[u] /\ frame'[u] = frame[u]
      BY <1>1, <2>3 DEF CallModel, Read, Exhaust, OpenFile, Goto, client, ThreadTypes
    <3>2. pc'[t] \in {"open", "save", "dump"}
      BY <1>1, <2>3 DEF CallModel, Read, Exhaust, OpenFile, Goto, ThreadTypes
    <3>3. frame'[t].session = frame[t].session
      BY <1>1, <2>3 DEF CallModel, Read, Exhaust, OpenFile, client, ThreadTypes, Locals
    <3>4. OnceOf(t)'
      BY <1>1, <1>2, <3>1, <3>2, <3>3 DEF OnceOf
    <3> QED BY <1>2, <3>1, <3>4 DEF Moves, OwnLists
  <2> QED BY <2>1, <2>2, <2>3
<1>5. GivesTo(t)
  BY <1>2 DEF GivesTo
<1>6. GivenKnown' /\ AnswerOncePerSession'
  BY <1>2, <1>3, GivenSame DEF OnceInv, AnswerOncePerSession
<1>7. \A u \in Threads : OnceOf(u)'
  BY <1>4, <1>5, OnceOthers
<1> QED BY <1>6, <1>7 DEF OnceInv

\* Steps that end a request without touching the map
LEMMA OnceReturns ==
    ASSUME CallInv, SessInv, OnceInv, NEW t \in Threads,
           \/ ModelRaises(t) \/ Abandon(t) \/ NoImage(t) \/ PassOn(t)
           \/ SaveRaises(t) \/ Dump(t)
    PROVE  OnceInv'
<1>1. ThreadTypes /\ OtherTypes
  BY DEF CallInv, Shape
<1>2. /\ pc[t] \notin {"idle", "drop", "prompt"}
      /\ UNCHANGED <<data, tmp_args, todo, calls, given, repeated>>
  BY DEF ModelRaises, Abandon, NoImage, PassOn, SaveRaises, Dump, FlushDump, store, aux
<1>3. PICK res \in Nat \cup {None, Raised} : Return(t, res)
  BY <1>1, KeyFacts DEF ModelRaises, Abandon, NoImage, PassOn, SaveRaises, Dump
<1>4. OnceOf(t)' /\ Moves(t) /\ OwnLists(t) /\ GivesTo(t)
  BY <1>2, <1>3, ReturnOnce DEF OwnLists, GivesTo
<1>5. CallsKept(t)
  BY <1>2 DEF CallsKept
<1>6. GivenKnown' /\ AnswerOncePerSession'
  BY <1>2, <1>5, GivenSame DEF OnceInv, AnswerOncePerSession
<1>7. \A u \in Threads : OnceOf(u)'
  BY <1>4, OnceOthers
<1> QED BY <1>6, <1>7 DEF OnceInv

\* What a hit and a save give to a session is named in the entry.
LEMMA OnceGives ==
    ASSUME CallInv, SessInv, OnceInv, NEW t \in Threads, Hit(t) \/ SaveAnswer(t)
    PROVE  GivenKnown' /\ AnswerOncePerSession' /\ GivesTo(t)
<1>1. ThreadTypes /\ StoreTypes /\ CallOf(t) /\ OnceOf(t)
  BY DEF CallInv, Shape, OnceInv
<1>2. pc[t] \in {"hit", "save"} /\ (given' = given \/ given' = given \cup Given(t))
  BY DEF Hit, SaveAnswer
<1>3. /\ frame[t].session = req[t].s /\ req[t].s \in Sessions \cup {NoSession}
      /\ \A g \in Given(t) : g[1] = req[t].s /\ g[1] # NoSession /\ g[2] = Call(t)
  BY <1>1, <1>2, KeyFacts DEF OnceOf, Given
<1>4. GivesTo(t)
  BY <1>2, <1>3 DEF GivesTo
<1>5. CASE Hit(t)
  <2>1. calls' = calls /\ Saved(calls, Call(t), Key(t)) /\ pc[t] = "hit"
    BY <1>1, <1>5 DEF Hit, CallOf
  <2>2. /\ DOMAIN data' = DOMAIN data
        /\ \A j \in DOMAIN data : data'[j].ans = data[j].ans /\ data[j].sess \subseteq data'[j].sess
        /\ frame[t].session # NoSession /\ Key(t) \in DOMAIN data /\ data[Key(t)].ans = Call(t)
              => frame[t].session \in data'[Key(t)].sess
    BY <1>5, HitNames
  <2>3. \A k \in DOMAIN data : data[k].ans = Call(t) => k = Key(t)
    BY <1>1, <2>1 DEF StoreTypes, GoodMap, Saved
  <2>4. ASSUME NEW g \in given'
        PROVE  /\ g[2] \in DOMAIN calls' /\ calls'[g[2]].saves = 1
               /\ \A k \in DOMAIN data' : data'[k].ans = g[2] => g[1] \in data'[k].sess
    <3>1. CASE g \in given
      BY <2>1, <2>2, <3>1 DEF OnceInv, GivenKnown
    <3>2. CASE g \in Given(t)
      BY <1>3, <2>1, <2>2, <2>3, <3>2 DEF Saved
    <3> QED BY <1>2, <2>4, <3>1, <3>2
  <2>5. repeated' = {}
    <3>1. <<req[t].s, Call(t)>> \notin given /\ repeated = {}
      BY <1>1, <2>1 DEF OnceOf, OnceInv, AnswerOncePerSession
    <3>2. given \cap Given(t) = {}
      BY <3>1 DEF Given
    <3> QED BY <1>5, <3>1, <3>2 DEF Hit
  <2> QED BY <1>4, <2>4, <2>5 DEF GivenKnown, AnswerOncePerSession
<1>6. CASE SaveAnswer(t)
  <2>1. /\ CallsKept(t) /\ Saved(calls', Call(t), Key(t))
        /\ Key(t) \in DOMAIN data' /\ data'[Key(t)] = Entry(Call(t), frame[t].session)
        /\ \A j \in DOMAIN data' \ {Key(t)} : j \in DOMAIN data /\ data'[j] = data[j]
    BY <1>6, SaveNames
  <2>2. pc[t] = "save" /\ repeated' = repeated
    BY <1>6 DEF SaveAnswer
  <2>3. Call(t) \in DOMAIN calls /\ calls[Call(t)].saves = 0
    BY <1>1, <2>2 DEF CallOf
  <2>4. data'[Key(t)].ans = Call(t) /\ (req[t].s # NoSession => req[t].s \in data'[Key(t)].sess)
    BY <1>3, <2>1 DEF Entry
  <2>5. \A k \in DOMAIN data : data[k].ans # Call(t)
    BY <1>1, <2>3 DEF StoreTypes, GoodMap, Saved
  <2>6. ASSUME NEW g \in given'
        PROVE  /\ g[2] \in DOMAIN calls' /\ calls'[g[2]].saves = 1
               /\ \A k \in DOMAIN data' : data'[k].ans = g[2] => g[1] \in data'[k].sess
    <3>1. CASE g \in given
      <4>1. /\ g[2] \in DOMAIN calls /\ calls[g[2]].saves = 1
            /\ \A k \in DOMAIN data : data[k].ans = g[2] => g[1] \in data[k].sess
        BY <3>1 DEF OnceInv, GivenKnown
      <4>2. g[2] # Call(t)
        BY <2>3, <4>1
      <4>3. g[2] \in DOMAIN calls' /\ calls'[g[2]] = calls[g[2]]
        BY <2>1, <4>1, <4>2 DEF CallsKept
      <4> QED BY <2>1, <2>4, <4>1, <4>2, <4>3
    <3>2. CASE g \in Given(t)
      BY <1>3, <2>1, <2>4, <2>5, <3>2 DEF Saved
    <3> QED BY <1>2, <2>6, <3>1, <3>2
  <2> QED BY <1>4, <2>2, <2>6 DEF GivenKnown, AnswerOncePerSession, OnceInv
<1> QED BY <1>5, <1>6

LEMMA OnceAnswers ==
    ASSUME CallInv, SessInv, OnceInv, NEW t \in Threads, Hit(t) \/ SaveAnswer(t)
    PROVE  OnceInv'
<1>1. ThreadTypes /\ OtherTypes /\ OnceOf(t)
  BY DEF CallInv, Shape, OnceInv
<1>2. pc[t] \in {"hit", "save"} /\ UNCHANGED <<tmp_args, todo>>
  BY DEF Hit, SaveAnswer
<1>3. GivenKnown' /\ AnswerOncePerSession' /\ GivesTo(t) /\ OwnLists(t)
  BY <1>2, OnceGives DEF OwnLists
<1>4. OnceOf(t)' /\ Moves(t)
  <2>1. CASE Return(t, Call(t))
    BY <1>1, <1>2, <2>1, KeyFacts, ReturnOnce
  <2>2. CASE ~Return(t, Call(t))
    <3>1. PICK label \in {"miss", "flush"} : Goto(t, label)
      BY <2>2 DEF Hit, SaveAnswer
    <3>2. UNCHANGED <<req, result, frame>>
      BY <2>2 DEF Hit, SaveAnswer
    <3>3. pc'[t] = label /\ Moves(t)
      BY <1>1, <3>1, <3>2, LabelFacts, MoveFacts
    <3> QED BY <1>1, <1>2, <3>2, <3>3 DEF OnceOf
  <2> QED BY <2>1, <2>2
<1>5. \A u \in Threads : OnceOf(u)'
  BY <1>3, <1>4, OnceOthers
<1> QED BY <1>3, <1>5 DEF OnceInv

\* A drop takes a session from the entries when nothing is given to it any more.
LEMMA OnceDrops ==
    ASSUME CallInv, SessInv, OnceInv, NEW t \in Threads,
           DropOne(t) \/ DropRaises(t) \/ DropEnds(t)
    PROVE  OnceInv'
<1>1. ThreadTypes /\ OtherTypes /\ OnceOf(t)
  BY DEF CallInv, Shape, OnceInv
<1>2. pc[t] = "drop" /\ UNCHANGED <<tmp_args, req, frame, calls, given, repeated>>
  BY DEF DropOne, DropRaises, DropEnds, client, aux
<1>3. /\ pc'[t] \in {"idle", "drop"} /\ Moves(t) /\ OwnLists(t)
  BY <1>1, <1>2 DEF DropOne, DropRaises, DropEnds, Goto, client, Moves, OwnLists, ThreadTypes, OtherTypes
<1>4. OnceOf(t)' /\ GivesTo(t)
  BY <1>1, <1>2, <1>3 DEF OnceOf, GivesTo
<1>5. GivenKnown'
  <2>1. CASE DropOne(t)
    <3>1. PICK k \in todo[t] : DeleteOne(k, req[t].s)
      BY <2>1 DEF DropOne
    <3>2. req[t].s \in Sessions
      BY <1>2 DEF CallInv, CallOf
    <3>3. /\ DOMAIN data' \subseteq DOMAIN data
          /\ \A j \in DOMAIN data' : /\ data'[j].ans = data[j].ans
                                     /\ data'[j].sess = data[j].sess \ IF j = k THEN {req[t].s} ELSE {}
      BY <3>1, <3>2, DeleteFacts DEF CallInv, Shape, StoreTypes
    <3>4. \A g \in given : g[1] # req[t].s
      BY <1>1, <1>2 DEF OnceOf
    <3> QED BY <1>2, <3>3, <3>4 DEF OnceInv, GivenKnown
  <2>2. CASE DropRaises(t) \/ DropEnds(t)
    <3>1. data' = data
      BY <2>2 DEF DropRaises, DropEnds, store
    <3> QED BY <1>2, <3>1 DEF OnceInv, GivenKnown
  <2> QED BY <2>1, <2>2
<1>6. AnswerOncePerSession'
  BY <1>2 DEF OnceInv, AnswerOncePerSession
<1>7. \A u \in Threads : OnceOf(u)'
  BY <1>3, <1>4, OnceOthers
<1> QED BY <1>5, <1>6, <1>7 DEF OnceInv

LEMMA OnceRests ==
    ASSUME SessInv, OnceInv, Crash \/ Exit \/ Start \/ UNCHANGED vars
    PROVE  OnceInv'
<1>1. CASE Crash \/ Exit
  <2>1. pc' = Rest("idle") /\ given' = {} /\ repeated' = {}
    BY <1>1 DEF Crash, Exit, Down
  <2>2. \A t \in Threads : pc'[t] = "idle"
    BY <2>1 DEF Rest
  <2>3. \A t \in Threads : OnceOf(t)'
    BY <2>2 DEF OnceOf
  <2> QED BY <2>1, <2>3 DEF OnceInv, GivenKnown, AnswerOncePerSession
<1>2. CASE Start
  <2>1. ~up /\ UNCHANGED <<pc, given, repeated>>
    BY <1>2 DEF Start, aux
  <2>2. given = {} /\ \A t \in Threads : pc[t] = "idle"
    BY <2>1 DEF SessInv, DownRests
  <2>3. \A t \in Threads : OnceOf(t)'
    BY <2>1, <2>2 DEF OnceOf
  <2> QED BY <2>1, <2>2, <2>3 DEF OnceInv, GivenKnown, AnswerOncePerSession
<1>3. CASE UNCHANGED vars
  <2>1. UNCHANGED <<data, pc, req, tmp_args, frame, calls, given, repeated>>
    BY <1>3 DEF vars, store, client, aux
  <2>2. \A t \in Threads : OnceOf(t)'
    BY <2>1 DEF OnceInv, OnceOf, Call
  <2>3. GivenKnown' /\ AnswerOncePerSession'
    BY <2>1 DEF OnceInv, GivenKnown, AnswerOncePerSession
  <2> QED BY <2>2, <2>3 DEF OnceInv
<1> QED BY <1>1, <1>2, <1>3

LEMMA OnceStep ==
    BatchesWithoutSession /\ CallInv /\ CallInv' /\ SessInv /\ OnceInv /\ [Next]_vars => OnceInv'
<1> SUFFICES ASSUME BatchesWithoutSession, CallInv, CallInv', SessInv, OnceInv, [Next]_vars
             PROVE  OnceInv'
  OBVIOUS
<1>1. ASSUME NEW t \in Threads,
             \/ \E r \in Requests : Begin(t, r) \/ BeginBatch(t, r)
             \/ \E s \in Sessions : Drop(t, s)
      PROVE  OnceInv'
  BY <1>1, OnceBegins
<1>2. ASSUME NEW t \in Threads,
             NextPrompt(t) \/ Search(t) \/ CallModel(t) \/ Read(t) \/ Exhaust(t) \/ OpenFile(t)
      PROVE  OnceInv'
  BY <1>2, OnceGoesOn
<1>3. ASSUME NEW t \in Threads,
             \/ ModelRaises(t) \/ Abandon(t) \/ NoImage(t) \/ PassOn(t)
             \/ SaveRaises(t) \/ Dump(t)
      PROVE  OnceInv'
  BY <1>3, OnceReturns
<1>4. ASSUME NEW t \in Threads, Hit(t) \/ SaveAnswer(t) PROVE OnceInv'
  BY <1>4, OnceAnswers
<1>5. ASSUME NEW t \in Threads, DropOne(t) \/ DropRaises(t) \/ DropEnds(t) PROVE OnceInv'
  BY <1>5, OnceDrops
<1>6. CASE Crash \/ Exit \/ Start \/ UNCHANGED vars
  BY <1>6, OnceRests
<1> QED BY <1>1, <1>2, <1>3, <1>4, <1>5, <1>6 DEF Next, CannotStart, AtRest

\* THEOREM: while no batch of prompts has a session, a session is never given
\* the same cached answer twice, over saves that overwrite the tuple, evictions,
\* drops, restarts and the hits of other threads.
THEOREM SessionsServedOnce ==
    ASSUME BatchesWithoutSession
    PROVE  Spec => []AnswerOncePerSession
<1>1. Init => OnceInv
  <2> SUFFICES ASSUME Init PROVE OnceInv
    OBVIOUS
  <2>1. given = {} /\ repeated = {} /\ pc = Rest("idle")
    BY DEF Init
  <2>2. \A t \in Threads : pc[t] = "idle"
    BY <2>1 DEF Rest
  <2>3. \A t \in Threads : OnceOf(t)
    BY <2>2 DEF OnceOf
  <2> QED BY <2>1, <2>3 DEF OnceInv, GivenKnown, AnswerOncePerSession
<1>2. BatchesWithoutSession
  OBVIOUS
<1>3. CallInv /\ CallInv' /\ SessInv /\ OnceInv /\ [Next]_vars => OnceInv'
  BY <1>2, OnceStep
<1>4. OnceInv => AnswerOncePerSession
  BY DEF OnceInv
<1> QED BY <1>1, <1>3, <1>4, CallInvariant, SessInvariant, PTL DEF Spec
=============================================================================
