------------------------------ MODULE GDSFCache ------------------------------
(***************************************************************************)
(* The cost-aware eviction index: GDSFCache (manager/eviction/gdsf.py) as  *)
(* MemoryCacheEviction (manager/eviction/memory_cache.py) wraps it and as  *)
(* the base class cachetools.Cache (external) drives it.                   *)
(*                                                                         *)
(* GDSFCache keeps, beside the cached values, a frequency and a priority   *)
(* per key, an inflation value L and a lazy heap: a push adds an entry and *)
(* never removes the one it makes stale; popitem skips stale entries.      *)
(* MemoryCacheEviction replaces popitem on the instance by a wrapper that  *)
(* pops clean_size keys in a row and hands them to on_evict, and           *)
(* cachetools.Cache.__setitem__ calls that wrapper while there is no room. *)
(*                                                                         *)
(* Nothing in the code locks the index, so put is a process of its caller: *)
(* every thread walks through __setitem__ step by step (the test of the    *)
(* while loop, each popitem, on_evict, the final store).  One method body  *)
(* of GDSFCache (popitem, _push with its caller, __getitem__) is one step. *)
(***************************************************************************)
EXTENDS Integers, Sequences, FiniteSets, Functions

CONSTANTS
    Threads,        \* callers of put and get
    Keys,           \* objects put in the index (row ids, in GPTCache)
    Costs,          \* numeric values a caller gives as costs
    Placeholder,    \* True, what put stores when it is given no costs
    Size,           \* getsizeof, per value
    Unit,           \* common multiple of the sizes: priorities count 1/Unit
    MaxSize,        \* maxsize
    CleanParam,     \* the clean_size argument, 0 when it is not given
    Batches,        \* argument lists of put: sequences of <<obj, value>>
    MaxPushes       \* bound: _push is called at most this often in a run

Values == Costs \cup {Placeholder}

\* cachetools: a value of size 0 is allowed, and _push then divides by 1
Divisor(v) == IF Size[v] = 0 THEN 1 ELSE Size[v]

\* _cost_of: a bool (the placeholder) costs 1, a number costs itself
_cost_of(v) == IF v = Placeholder THEN 1 ELSE v

\* cost / size of a value, in units of 1/Unit
Gain(v) == (Unit * _cost_of(v)) \div Divisor(v)

ASSUME ThreadsAssumption == IsFiniteSet(Threads) /\ Threads # {}
ASSUME CostsAssumption == Costs \subseteq Nat /\ Placeholder \notin Nat
ASSUME SizeAssumption == Size \in [Values -> Nat]
ASSUME UnitAssumption ==
    /\ Unit \in Nat
    /\ \A v \in Values : (Unit * _cost_of(v)) % Divisor(v) = 0
ASSUME BoundsAssumption ==
    MaxSize \in Nat /\ CleanParam \in Nat /\ MaxPushes \in Nat
ASSUME BatchesAssumption == Batches \subseteq Seq(Keys \X Values) \ {<<>>}

\* Mutant: the fraction is taken of clean_size too
CleanSizeFraction == IF CleanParam = 0 THEN MaxSize \div 5 ELSE CleanParam \div 5

\* EvictionBase.get: clean_size falls back to int(maxsize * 0.2)
CleanSize == IF CleanParam = 0 THEN MaxSize \div 5 ELSE CleanParam

VARIABLES
    data,       \* key -> value: the cached entries
    currsize,   \* what cachetools believes the entries' total size is
    freq,       \* _freq
    prio,       \* _prio: the current priority of each cached key
    heap,       \* _heap: set of [prio, cnt, key], stale entries included
    counter,    \* _counter: the next tie-break
    inflation,  \* _inflation, the L of GDSF
    pc,         \* thread -> where it is in MemoryCacheEviction.put
    todo,       \* thread -> the <<obj, value>> pairs it has still to store
    popped,     \* thread -> the list under construction in popitem_wrapper
    owed        \* auxiliary: keys that left the index since they were last
                \* stored and that no call of on_evict has been given yet

policy == <<data, currsize, freq, prio, heap, counter, inflation>>
vars == <<data, currsize, freq, prio, heap, counter, inflation,
          pc, todo, popped, owed>>

HeapEntry == [prio : Nat, cnt : Nat, key : Keys]

Key(t) == Head(todo[t])[1]
Value(t) == Head(todo[t])[2]

\* f with k mapped to v, whether or not k was in its domain
With(f, k, v) == [x \in DOMAIN f \cup {k} |-> IF x = k THEN v ELSE f[x]]
\* f without k
Drop(f, k) == Restrict(f, DOMAIN f \ {k})

SizeIn(d, k) == IF k \in DOMAIN d THEN Size[d[k]] ELSE 0

\* heapq compares the tuples (priority, tiebreak, key); tie-breaks differ
Before(e, f) == e.prio < f.prio \/ (e.prio = f.prio /\ e.cnt < f.cnt)

\* Mutant: popitem tests that the key is cached, not that the entry is current
CurrentByKey == {e \in heap : e.key \in DOMAIN prio}

\* The entries popitem does not skip: _prio.get(key) == prio
Current == {e \in heap : e.key \in DOMAIN prio /\ prio[e.key] = e.prio}

Init ==
    /\ data = [k \in {} |-> Placeholder]
    /\ currsize = 0
    /\ freq = [k \in {} |-> 0]
    /\ prio = [k \in {} |-> 0]
    /\ heap = {}
    /\ counter = 0
    /\ inflation = 0
    /\ pc = [t \in Threads |-> "idle"]
    /\ todo = [t \in Threads |-> <<>>]
    /\ popped = [t \in Threads |-> <<>>]
    /\ owed = {}

\* Mutant: the priority leaves L out
_pushNoAging(k, v, n) ==
    LET p == n * Gain(v)
    IN  /\ prio' = With(prio, k, p)
        /\ heap' = heap \cup {[prio |-> p, cnt |-> counter, key |-> k]}
        /\ counter' = counter + 1
\* Mutant: a key that has a heap entry is not pushed again
_pushOnce(k, v, n) ==
    LET p == inflation + (n * Gain(v))
    IN  /\ prio' = With(prio, k, p)
        /\ heap' = heap \cup (IF k \in DOMAIN prio THEN {}
                             ELSE {[prio |-> p, cnt |-> counter, key |-> k]})
        /\ counter' = counter + 1

\* _push for a key whose frequency is n and whose value is v
_push(k, v, n) ==
    LET p == inflation + (n * Gain(v))
    IN  /\ prio' = With(prio, k, p)
        /\ heap' = heap \cup {[prio |-> p, cnt |-> counter, key |-> k]}
        /\ counter' = counter + 1

\* The bound: a call starts only when its pushes still fit
Pending == [t \in Threads |-> Len(todo[t])]
Room(n) == counter + SumFunction(Pending) + n <= MaxPushes

-----------------------------------------------------------------------------
(* MemoryCacheEviction.put and cachetools.Cache.__setitem__.               *)

\* put(objs, costs): the loop over objs begins
Put(t, b) ==
    /\ pc[t] = "idle"
    /\ Room(Len(b))
    /\ todo' = [todo EXCEPT ![t] = b]
    /\ pc' = [pc EXCEPT ![t] = "enter"]
    /\ UNCHANGED <<policy, popped, owed>>

\* __setitem__ up to its while loop: ValueError for a value larger than the
\* index ends put; the loop is skipped for a key that does not grow
Enter(t) ==
    /\ pc[t] = "enter"
    /\ \/ /\ Size[Value(t)] > MaxSize
          /\ pc' = [pc EXCEPT ![t] = "idle"]
          /\ todo' = [todo EXCEPT ![t] = <<>>]
       \/ /\ Size[Value(t)] <= MaxSize
          /\ pc' = [pc EXCEPT ![t] =
                IF \/ Key(t) \notin DOMAIN data
                   \/ Size[data[Key(t)]] < Size[Value(t)]
                THEN "loop" ELSE "store"]
          /\ UNCHANGED todo
    /\ UNCHANGED <<policy, popped, owed>>

\* Mutant: the test forgets that the new entry needs room too
LoopOffByOne(t) ==
    /\ pc[t] = "loop"
    /\ pc' = [pc EXCEPT ![t] = IF currsize > MaxSize THEN "pop" ELSE "store"]
    /\ UNCHANGED <<policy, todo, popped, owed>>

\* while currsize + size > maxsize: self.popitem()
Loop(t) ==
    /\ pc[t] = "loop"
    /\ pc' = [pc EXCEPT ![t] =
          IF currsize + Size[Value(t)] > MaxSize THEN "pop" ELSE "store"]
    /\ UNCHANGED <<policy, todo, popped, owed>>

\* Mutant: the list has only the key that was popped last
PopItemKeepsLast(t) ==
    /\ pc[t] = "pop"
    /\ Len(popped[t]) < CleanSize
    /\ \E e \in Current :
          /\ \A f \in Current \ {e} : Before(e, f)
          /\ heap' = {f \in heap : Before(e, f)}
          /\ inflation' = e.prio
          /\ currsize' = currsize - Size[data[e.key]]
          /\ data' = Drop(data, e.key)
          /\ freq' = Drop(freq, e.key)
          /\ prio' = Drop(prio, e.key)
          /\ popped' = [popped EXCEPT ![t] = <<e.key>>]
          /\ owed' = owed \cup {e.key}
    /\ UNCHANGED <<counter, pc, todo>>

\* GDSFCache.popitem, called by popitem_wrapper: every entry before the
\* first current one is stale and dropped, that one is the victim
PopItem(t) ==
    /\ pc[t] = "pop"
    /\ Len(popped[t]) < CleanSize
    /\ \E e \in Current :
          /\ \A f \in Current \ {e} : Before(e, f)
          /\ heap' = {f \in heap : Before(e, f)}
          /\ inflation' = e.prio
          /\ currsize' = currsize - Size[data[e.key]]
          /\ data' = Drop(data, e.key)
          /\ freq' = Drop(freq, e.key)
          /\ prio' = Drop(prio, e.key)
          /\ popped' = [popped EXCEPT ![t] = Append(@, e.key)]
          /\ owed' = owed \cup {e.key}
    /\ UNCHANGED <<counter, pc, todo>>

\* popitem raises KeyError inside the list comprehension of popitem_wrapper:
\* keys is still [], what the comprehension had popped is not assigned to it
PopEmpty(t) ==
    /\ pc[t] = "pop"
    /\ Len(popped[t]) < CleanSize
    /\ Current = {}
    /\ heap' = {}
    /\ popped' = [popped EXCEPT ![t] = <<>>]
    /\ pc' = [pc EXCEPT ![t] = "report"]
    /\ UNCHANGED <<data, currsize, freq, prio, counter, inflation, todo, owed>>

Reporting(t) ==
    pc[t] = "report" \/ (pc[t] = "pop" /\ Len(popped[t]) = CleanSize)

\* on_evict(keys) returns and the while loop tests again
OnEvict(t) ==
    /\ Reporting(t)
    /\ pc' = [pc EXCEPT ![t] = "loop"]
    /\ popped' = [popped EXCEPT ![t] = <<>>]
    /\ owed' = owed \ Range(popped[t])
    /\ UNCHANGED <<policy, todo>>

\* on_evict(keys) raises (a store failed): the exception leaves put
OnEvictRaises(t) ==
    /\ Reporting(t)
    /\ pc' = [pc EXCEPT ![t] = "idle"]
    /\ todo' = [todo EXCEPT ![t] = <<>>]
    /\ popped' = [popped EXCEPT ![t] = <<>>]
    /\ owed' = owed \ Range(popped[t])
    /\ UNCHANGED policy

\* The end of __setitem__: cachetools' assignments, then GDSFCache's
Store(t) ==
    LET k == Key(t)
        v == Value(t)
        n == IF k \in DOMAIN freq THEN freq[k] ELSE 1
    IN  /\ pc[t] = "store"
        /\ currsize' = currsize + Size[v] - SizeIn(data, k)
        /\ data' = With(data, k, v)
        /\ freq' = With(freq, k, n)
        /\ _push(k, v, n)
        /\ todo' = [todo EXCEPT ![t] = Tail(@)]
        /\ pc' = [pc EXCEPT ![t] = IF Tail(todo[t]) = <<>> THEN "idle" ELSE "enter"]
        /\ owed' = owed \ {k}
        /\ UNCHANGED <<inflation, popped>>

-----------------------------------------------------------------------------
(* MemoryCacheEviction.get.                                                *)

\* get(obj) of a cached key is GDSFCache.__getitem__
Get(t, k) ==
    /\ pc[t] = "idle"
    /\ k \in DOMAIN data
    /\ Room(1)
    /\ freq' = [freq EXCEPT ![k] = @ + 1]
    /\ _push(k, data[k], freq[k] + 1)
    /\ UNCHANGED <<data, currsize, inflation, pc, todo, popped, owed>>

\* No call is running: get of a missing key, or no call at all
AtRest ==
    /\ \A t \in Threads : pc[t] = "idle"
    /\ UNCHANGED vars

PutStep(t) ==
    \/ Enter(t) \/ Loop(t) \/ PopItem(t) \/ PopEmpty(t)
    \/ OnEvict(t) \/ OnEvictRaises(t) \/ Store(t)

Next ==
    \/ \E t \in Threads :
          \/ \E b \in Batches : Put(t, b)
          \/ \E k \in Keys : Get(t, k)
          \/ PutStep(t)
    \/ AtRest

Spec == Init /\ [][Next]_vars

\* A thread inside put keeps running; nobody has to call put or get
FairSpec == Spec /\ \A t \in Threads : WF_vars(PutStep(t))

-----------------------------------------------------------------------------
(* Properties.                                                             *)

PartialMap(f, S, T) == DOMAIN f \subseteq S /\ \A x \in DOMAIN f : f[x] \in T

\* The type of every variable.
TypeOK ==
    /\ PartialMap(data, Keys, Values)
    /\ currsize \in Int
    /\ PartialMap(freq, Keys, Nat)
    /\ PartialMap(prio, Keys, Nat)
    /\ heap \subseteq HeapEntry
    /\ counter \in Nat
    /\ inflation \in Nat
    /\ pc \in [Threads -> {"idle", "enter", "loop", "pop", "report", "store"}]
    /\ todo \in [Threads -> Seq(Keys \X Values)]
    /\ popped \in [Threads -> Seq(Keys)]
    /\ owed \subseteq Keys
    /\ \A t \in Threads : pc[t] = "idle" <=> todo[t] = <<>>

\* The lazy heap never forgets a cached key: the frequencies and priorities
\* are kept for exactly the cached keys, and each of them has a heap entry
\* that carries its current priority, however many hits, overwrites and
\* evictions of other keys came in between.  So popitem raises KeyError
\* only when nothing is cached.
HeapCoversCache ==
    /\ DOMAIN freq = DOMAIN data
    /\ DOMAIN prio = DOMAIN data
    /\ \A k \in DOMAIN data : \E e \in Current : e.key = k

\* L is a lower bound of every priority, in _prio and in the heap, stale
\* entries included: a new entry never ranks below one evicted before.
PrioritiesAboveInflation ==
    /\ \A k \in DOMAIN prio : prio[k] >= inflation
    /\ \A e \in heap : e.prio >= inflation

\* L never falls (the class comment: "an inflation value that rises").
InflationNeverFalls == [][inflation' >= inflation]_vars

UnitSizes == \A v \in Values : Size[v] = 1

\* With entries of size 1, as the data managers create them, the index
\* exceeds maxsize by less than the number of threads that use it: each
\* of them can pass the test of the while loop before the others store.
\* One thread never exceeds it.
CapacityOvershoot ==
    UnitSizes => Cardinality(DOMAIN data) < MaxSize + Cardinality(Threads)

\* No batch can meet an empty index: the batches of all threads together take no
\* more entries than there are when the index is full, or each is of one entry
BatchesFit ==
    \/ CleanSize <= 1
    \/ UnitSizes /\ Cardinality(Threads) * CleanSize <= MaxSize

\* Every key that left the index, and has not been stored again, has been
\* given to on_evict or is in a list that is about to be: no row is left
\* behind in the stores with nothing to evict it.  This is so if the batches
\* fit; with one thread that is a clean_size that is not larger than maxsize.
EveryEvictionReported ==
    BatchesFit => owed \subseteq UNION {Range(popped[t]) : t \in Threads}

\* "the function for cleaning the data in the store" (memory_cache.py, on_evict)
\* is given whatever is evicted.  The code does otherwise when a batch meets an
\* index that other threads have emptied: KeyError, and what it had popped is
\* forgotten.
NothingUnreported ==
    owed \subseteq UNION {Range(popped[t]) : t \in Threads}

\* A call of put ends.
PutTerminates == \A t \in Threads : pc[t] # "idle" ~> pc[t] = "idle"

\* The index with its lazy heap implements the policy as it is described:
\* the victim is always an entry of least priority among all entries.
PC == INSTANCE PriorityCache WITH
          entries <- [k \in DOMAIN data |->
              [value |-> data[k], uses |-> freq[k], prio |-> prio[k]]],
          floor <- inflation
ImplementsPriorityCache == PC!Spec

=============================================================================
