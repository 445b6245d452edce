--------------------------- MODULE GDSFCacheProofs ---------------------------
(***************************************************************************)
(* Proofs about GDSFCache, for every set of threads, keys and values, every*)
(* size function, maxsize and clean_size.                                  *)
(***************************************************************************)
EXTENDS GDSFCache, FiniteSetTheorems, TLAPS

(* The cost over size of a value is a natural number of units (_cost_of,   *)
(* and the division in _push).                                             *)
LEMMA GainType == ASSUME NEW v \in Values PROVE Gain(v) \in Nat
<1>1. _cost_of(v) \in Nat
  BY CostsAssumption DEF _cost_of, Values
<1>2. Divisor(v) \in Nat \ {0}
  BY SizeAssumption DEF Divisor
<1>3. Unit * _cost_of(v) \in Nat
  BY <1>1, UnitAssumption
<1> QED
  BY <1>2, <1>3 DEF Gain

(* A priority is a natural number, not below the inflation it was made     *)
(* with (_push).                                                           *)
LEMMA PriorityType ==
    ASSUME NEW l \in Nat, NEW n \in Nat, NEW v \in Values
    PROVE  l + (n * Gain(v)) \in Nat /\ l + (n * Gain(v)) >= l
<1> DEFINE g == Gain(v)
<1>1. g \in Nat
  BY GainType
<1> HIDE DEF g
<1>2. n * g \in Nat
  BY <1>1
<1>3. l + (n * g) \in Nat /\ l + (n * g) >= l
  BY <1>2
<1> QED
  BY <1>3 DEF g

(* clean_size is a number, given or not.                                   *)
LEMMA CleanSizeType == CleanSize \in Nat
  BY BoundsAssumption DEF CleanSize

(* What Drop does to a partial map (del on the dictionaries).              *)
LEMMA DropMap ==
    ASSUME NEW f, NEW S, NEW T, PartialMap(f, S, T), NEW k
    PROVE  /\ PartialMap(Drop(f, k), S, T)
           /\ DOMAIN Drop(f, k) = DOMAIN f \ {k}
           /\ \A x \in DOMAIN f \ {k} : Drop(f, k)[x] = f[x]
  BY DEF PartialMap, Drop, Restrict

(* A thread that is not idle has a first pair to store.                    *)
LEMMA FirstPair ==
    ASSUME TypeOK, NEW t \in Threads, pc[t] # "idle"
    PROVE  /\ Key(t) \in Keys
           /\ Value(t) \in Values
           /\ Tail(todo[t]) \in Seq(Keys \X Values)
<1>1. todo[t] \in Seq(Keys \X Values) /\ todo[t] # <<>>
  BY DEF TypeOK
<1>2. Head(todo[t]) \in Keys \X Values /\ Tail(todo[t]) \in Seq(Keys \X Values)
  BY <1>1
<1> QED
  BY <1>2 DEF Key, Value

-----------------------------------------------------------------------------
(* The lazy heap.                                                          *)

(* The inductive invariant of the heap.  TypeOK alone is not inductive:    *)
(* popitem reads the value of a key it found in _prio, so the keys of both *)
(* dictionaries have to agree.                                             *)
HeapInv == TypeOK /\ HeapCoversCache /\ PrioritiesAboveInflation

(* What _push does to the priorities and the heap, for both of its callers.*)
LEMMA Pushing ==
    ASSUME HeapInv, NEW k \in Keys, NEW v \in Values, NEW n \in Nat,
           _push(k, v, n)
    PROVE  /\ PartialMap(prio', Keys, Nat)
           /\ DOMAIN prio' = DOMAIN prio \cup {k}
           /\ \A x \in DOMAIN prio \ {k} : prio'[x] = prio[x]
           /\ prio'[k] >= inflation
           /\ heap' \subseteq HeapEntry
           /\ heap \subseteq heap'
           /\ \E e \in heap' : e.key = k /\ e.prio = prio'[k]
           /\ \A e \in heap' : e.prio >= inflation
           /\ counter' \in Nat
<1> DEFINE p == inflation + (n * Gain(v))
           e0 == [prio |-> p, cnt |-> counter, key |-> k]
<1>1. p \in Nat /\ p >= inflation
  BY PriorityType DEF HeapInv, TypeOK
<1> HIDE DEF p
<1>2. prio' = With(prio, k, p) /\ heap' = heap \cup {e0} /\ counter' = counter + 1
  BY DEF _push, p
<1>3. /\ PartialMap(prio', Keys, Nat)
      /\ DOMAIN prio' = DOMAIN prio \cup {k}
      /\ prio'[k] = p
      /\ \A x \in DOMAIN prio \ {k} : prio'[x] = prio[x]
  <2>1. PartialMap(prio, Keys, Nat)
    BY DEF HeapInv, TypeOK
  <2>2. /\ PartialMap(With(prio, k, p), Keys, Nat)
        /\ DOMAIN With(prio, k, p) = DOMAIN prio \cup {k}
        /\ With(prio, k, p)[k] = p
        /\ \A x \in DOMAIN prio \ {k} : With(prio, k, p)[x] = prio[x]
    BY <1>1, <2>1 DEF PartialMap, With
  <2> QED
    BY <1>2, <2>2
<1>4. e0 \in HeapEntry /\ e0.key = k /\ e0.prio = p
  BY <1>1 DEF HeapEntry, HeapInv, TypeOK
<1>5. heap' \subseteq HeapEntry /\ heap \subseteq heap' /\ e0 \in heap'
  BY <1>2, <1>4 DEF HeapInv, TypeOK
<1>6. \A e \in heap' : e.prio >= inflation
  BY <1>1, <1>2, <1>4 DEF HeapInv, PrioritiesAboveInflation
<1>7. counter' \in Nat
  BY <1>2 DEF HeapInv, TypeOK
<1> QED
  BY <1>1, <1>3, <1>4, <1>5, <1>6, <1>7

(* Pushing a key keeps an entry for every key that had one.                *)
LEMMA PushingCovers ==
    ASSUME HeapInv, NEW k \in Keys, NEW v \in Values, NEW n \in Nat,
           _push(k, v, n),
           DOMAIN data' = DOMAIN data \cup {k},
           DOMAIN freq' = DOMAIN freq \cup {k},
           inflation' = inflation
    PROVE  HeapCoversCache' /\ PrioritiesAboveInflation'
<1>1. /\ DOMAIN prio' = DOMAIN prio \cup {k}
      /\ \A x \in DOMAIN prio \ {k} : prio'[x] = prio[x]
      /\ prio'[k] >= inflation
      /\ heap \subseteq heap'
      /\ \E e \in heap' : e.key = k /\ e.prio = prio'[k]
      /\ \A e \in heap' : e.prio >= inflation
  BY Pushing
<1>2. DOMAIN freq' = DOMAIN data' /\ DOMAIN prio' = DOMAIN data'
  BY <1>1 DEF HeapInv, HeapCoversCache
<1>3. ASSUME NEW j \in DOMAIN data'
      PROVE  \E e \in Current' : e.key = j
  <2>1. CASE j = k
    BY <1>1, <2>1 DEF Current
  <2>2. CASE j # k
    <3>1. j \in DOMAIN data /\ j \in DOMAIN prio \ {k}
      BY <1>2, <2>2 DEF HeapInv, HeapCoversCache
    <3>2. PICK e \in Current : e.key = j
      BY <3>1 DEF HeapInv, HeapCoversCache
    <3>3. e \in Current'
      BY <1>1, <3>1, <3>2 DEF Current
    <3> QED
      BY <3>2, <3>3
  <2> QED
    BY <2>1, <2>2
<1>4. ASSUME NEW j \in DOMAIN prio'
      PROVE  prio'[j] >= inflation'
  BY <1>1 DEF HeapInv, PrioritiesAboveInflation
<1> QED
  BY <1>1, <1>2, <1>3, <1>4 DEF HeapCoversCache, PrioritiesAboveInflation

(* The test of popitem never fails on the entry it evicts, and every other *)
(* key keeps its entry: the entries that are dropped are stale.            *)
LEMMA PopItemHeap ==
    ASSUME HeapInv, NEW t \in Threads, PopItem(t)
    PROVE  HeapInv'
<1>1. PICK e \in Current :
          /\ \A f \in Current \ {e} : Before(e, f)
          /\ heap' = {f \in heap : Before(e, f)}
          /\ inflation' = e.prio
          /\ currsize' = currsize - Size[data[e.key]]
          /\ data' = Drop(data, e.key)
          /\ freq' = Drop(freq, e.key)
          /\ prio' = Drop(prio, e.key)
          /\ popped' = [popped EXCEPT ![t] = Append(@, e.key)]
          /\ owed' = owed \cup {e.key}
  BY DEF PopItem
<1> DEFINE k == e.key
<1>2. /\ e \in heap /\ e \in HeapEntry
      /\ k \in Keys /\ e.prio \in Nat
      /\ k \in DOMAIN prio /\ prio[k] = e.prio /\ k \in DOMAIN data
  BY <1>1 DEF Current, HeapInv, TypeOK, HeapEntry, HeapCoversCache
<1>3. /\ DOMAIN data' = DOMAIN data \ {k}
      /\ DOMAIN freq' = DOMAIN freq \ {k}
      /\ DOMAIN prio' = DOMAIN prio \ {k}
      /\ \A x \in DOMAIN prio \ {k} : prio'[x] = prio[x]
      /\ PartialMap(data', Keys, Values)
      /\ PartialMap(freq', Keys, Nat)
      /\ PartialMap(prio', Keys, Nat)
  <2>1. /\ PartialMap(data, Keys, Values)
        /\ PartialMap(freq, Keys, Nat)
        /\ PartialMap(prio, Keys, Nat)
    BY DEF HeapInv, TypeOK
  <2>2. PartialMap(data', Keys, Values) /\ DOMAIN data' = DOMAIN data \ {k}
    BY <1>1, <2>1, DropMap
  <2>3. PartialMap(freq', Keys, Nat) /\ DOMAIN freq' = DOMAIN freq \ {k}
    BY <1>1, <2>1, DropMap
  <2>4. /\ PartialMap(prio', Keys, Nat) /\ DOMAIN prio' = DOMAIN prio \ {k}
        /\ \A x \in DOMAIN prio \ {k} : prio'[x] = prio[x]
    BY <1>1, <2>1, DropMap
  <2> QED
    BY <2>2, <2>3, <2>4
<1>4. \A f \in heap' : f \in HeapEntry /\ f.prio >= e.prio
  BY <1>1, <1>2 DEF HeapInv, TypeOK, HeapEntry, Before
<1>5. ASSUME NEW j \in DOMAIN data'
      PROVE  /\ \E f \in Current' : f.key = j
             /\ prio'[j] >= e.prio
  <2>1. j \in DOMAIN data /\ j \in DOMAIN prio \ {k}
    BY <1>3 DEF HeapInv, HeapCoversCache
  <2>2. PICK f \in Current : f.key = j
    BY <2>1 DEF HeapInv, HeapCoversCache
  <2>3. f \in heap /\ f.prio = prio[j] /\ f # e
    BY <2>1, <2>2 DEF Current
  <2>4. f \in heap'
    BY <1>1, <2>2, <2>3
  <2>5. f \in Current'
    BY <1>3, <2>1, <2>2, <2>3, <2>4 DEF Current
  <2>6. prio'[j] >= e.prio
    BY <1>3, <1>4, <2>1, <2>3, <2>4
  <2> QED
    BY <2>2, <2>5, <2>6
<1>6. TypeOK'
  <2>1. Size[data[k]] \in Nat
    BY <1>2, SizeAssumption DEF HeapInv, TypeOK, PartialMap
  <2>2. currsize' \in Int
    BY <1>1, <2>1 DEF HeapInv, TypeOK
  <2>3. popped' \in [Threads -> Seq(Keys)]
    BY <1>1, <1>2 DEF HeapInv, TypeOK
  <2>4. heap' \subseteq HeapEntry /\ inflation' \in Nat /\ owed' \subseteq Keys
    BY <1>1, <1>2, <1>4 DEF HeapInv, TypeOK
  <2>5. UNCHANGED <<counter, pc, todo>>
    BY DEF PopItem
  <2> QED
    BY <1>3, <2>2, <2>3, <2>4, <2>5 DEF HeapInv, TypeOK
<1>7. HeapCoversCache'
  BY <1>3, <1>5 DEF HeapInv, HeapCoversCache
<1>8. PrioritiesAboveInflation'
  BY <1>1, <1>3, <1>4, <1>5 DEF HeapInv, HeapCoversCache, PrioritiesAboveInflation
<1> QED
  BY <1>6, <1>7, <1>8 DEF HeapInv

(* Steps that leave the index alone keep what the invariant says of it.    *)
LEMMA SamePolicy ==
    ASSUME HeapInv, UNCHANGED policy
    PROVE  HeapCoversCache' /\ PrioritiesAboveInflation'
  BY DEF policy, HeapInv, HeapCoversCache, PrioritiesAboveInflation, Current

(* put, the test of the while loop and the two ends of on_evict.           *)
LEMMA ControlHeap ==
    ASSUME HeapInv, NEW t \in Threads,
           \/ \E b \in Batches : Put(t, b)
           \/ Enter(t) \/ Loop(t) \/ OnEvict(t) \/ OnEvictRaises(t)
    PROVE  HeapInv'
<1> USE DEF HeapInv
<1>1. UNCHANGED policy
  BY DEF Put, Enter, Loop, OnEvict, OnEvictRaises
<1>2. TypeOK'
  <2>1. UNCHANGED <<data, currsize, freq, prio, heap, counter, inflation>>
    BY <1>1 DEF policy
  <2>2. CASE \E b \in Batches : Put(t, b)
    <3>1. PICK b \in Batches : Put(t, b)
      BY <2>2
    <3>2. b \in Seq(Keys \X Values) /\ b # <<>>
      BY BatchesAssumption
    <3> QED
      BY <2>1, <3>1, <3>2 DEF Put, TypeOK, PartialMap
  <2>3. CASE Enter(t)
    <3>1. UNCHANGED <<popped, owed>> /\ pc[t] = "enter"
      BY <2>3 DEF Enter
    <3>2. CASE /\ pc' = [pc EXCEPT ![t] = "idle"]
               /\ todo' = [todo EXCEPT ![t] = <<>>]
      BY <2>1, <3>1, <3>2 DEF TypeOK, PartialMap
    <3>3. CASE /\ \E l \in {"loop", "store"} : pc' = [pc EXCEPT ![t] = l]
               /\ todo' = todo
      BY <2>1, <3>1, <3>3 DEF TypeOK, PartialMap
    <3> QED
      BY <2>3, <3>2, <3>3 DEF Enter
  <2>4. CASE Loop(t)
    BY <2>1, <2>4 DEF Loop, TypeOK, PartialMap
  <2>5. CASE OnEvict(t)
    BY <2>1, <2>5 DEF OnEvict, Reporting, TypeOK, PartialMap
  <2>6. CASE OnEvictRaises(t)
    BY <2>1, <2>6 DEF OnEvictRaises, Reporting, TypeOK, PartialMap
  <2> QED
    BY <2>2, <2>3, <2>4, <2>5, <2>6
<1> QED
  BY <1>1, <1>2, SamePolicy

(* KeyError: nothing is cached, so nothing is lost with the stale entries. *)
LEMMA PopEmptyHeap ==
    ASSUME HeapInv, NEW t \in Threads, PopEmpty(t)
    PROVE  HeapInv'
<1> USE DEF HeapInv
<1>1. DOMAIN data = {}
  BY DEF PopEmpty, HeapCoversCache
<1>2. TypeOK'
  BY DEF PopEmpty, TypeOK, PartialMap
<1>3. HeapCoversCache' /\ PrioritiesAboveInflation'
  BY <1>1 DEF PopEmpty, HeapCoversCache, PrioritiesAboveInflation
<1> QED
  BY <1>2, <1>3

(* The store at the end of __setitem__.                                    *)
LEMMA StoreHeap ==
    ASSUME HeapInv, NEW t \in Threads, Store(t)
    PROVE  HeapInv'
<1> DEFINE k == Key(t)
           v == Value(t)
           n == IF k \in DOMAIN freq THEN freq[k] ELSE 1
<1>1. k \in Keys /\ v \in Values /\ Tail(todo[t]) \in Seq(Keys \X Values)
  BY FirstPair DEF Store, HeapInv
<1>2. n \in Nat
  BY DEF HeapInv, TypeOK, PartialMap
<1>3. /\ pc[t] = "store"
      /\ currsize' = currsize + Size[v] - SizeIn(data, k)
      /\ data' = With(data, k, v)
      /\ freq' = With(freq, k, n)
      /\ _push(k, v, n)
      /\ todo' = [todo EXCEPT ![t] = Tail(@)]
      /\ pc' = [pc EXCEPT ![t] = IF Tail(todo[t]) = <<>> THEN "idle" ELSE "enter"]
      /\ owed' = owed \ {k}
      /\ UNCHANGED <<inflation, popped>>
  BY DEF Store
<1> HIDE DEF k, v, n
<1>4. PartialMap(data', Keys, Values) /\ DOMAIN data' = DOMAIN data \cup {k}
  BY <1>1, <1>3 DEF HeapInv, TypeOK, PartialMap, With
<1>5. PartialMap(freq', Keys, Nat) /\ DOMAIN freq' = DOMAIN freq \cup {k}
  BY <1>1, <1>2, <1>3 DEF HeapInv, TypeOK, PartialMap, With
<1>6. currsize' \in Int
  <2>1. Size[v] \in Int /\ SizeIn(data, k) \in Int /\ currsize \in Int
    BY <1>1, SizeAssumption DEF SizeIn, HeapInv, TypeOK, PartialMap
  <2> QED
    BY <1>3, <2>1
<1>7. /\ PartialMap(prio', Keys, Nat)
      /\ heap' \subseteq HeapEntry
      /\ counter' \in Nat
  BY <1>1, <1>2, <1>3, Pushing
<1>8. HeapCoversCache' /\ PrioritiesAboveInflation'
  BY <1>1, <1>2, <1>3, <1>4, <1>5, PushingCovers
<1>9. TypeOK'
  BY <1>1, <1>3, <1>4, <1>5, <1>6, <1>7 DEF HeapInv, TypeOK
<1> QED
  BY <1>8, <1>9 DEF HeapInv

(* A hit.                                                                  *)
LEMMA GetHeap ==
    ASSUME HeapInv, NEW t \in Threads, NEW k \in Keys, Get(t, k)
    PROVE  HeapInv'
<1> DEFINE n == freq[k] + 1
<1>1. k \in DOMAIN data /\ k \in DOMAIN freq
  BY DEF Get, HeapInv, HeapCoversCache
<1>2. data[k] \in Values /\ n \in Nat
  BY <1>1 DEF HeapInv, TypeOK, PartialMap
<1>3. /\ freq' = [freq EXCEPT ![k] = n]
      /\ _push(k, data[k], n)
      /\ UNCHANGED <<data, currsize, inflation, pc, todo, popped, owed>>
  BY DEF Get
<1> HIDE DEF n
<1>4. PartialMap(freq', Keys, Nat) /\ DOMAIN freq' = DOMAIN freq
  BY <1>2, <1>3 DEF HeapInv, TypeOK, PartialMap
<1>5. /\ PartialMap(prio', Keys, Nat)
      /\ heap' \subseteq HeapEntry
      /\ counter' \in Nat
  BY <1>2, <1>3, Pushing
<1>6. HeapCoversCache' /\ PrioritiesAboveInflation'
  <2>1. DOMAIN data' = DOMAIN data \cup {k} /\ DOMAIN freq' = DOMAIN freq \cup {k}
    BY <1>1, <1>3, <1>4
  <2> QED
    BY <1>2, <1>3, <2>1, PushingCovers
<1>7. TypeOK'
  BY <1>3, <1>4, <1>5 DEF HeapInv, TypeOK
<1> QED
  BY <1>6, <1>7 DEF HeapInv

(* The empty index satisfies the invariant.                                *)
LEMMA InitHeap == Init => HeapInv
  BY DEF Init, HeapInv, TypeOK, HeapCoversCache, PrioritiesAboveInflation,
         PartialMap, Current

(* Every step keeps the invariant, one lemma per action.                   *)
LEMMA NextHeap == HeapInv /\ [Next]_vars => HeapInv'
<1> SUFFICES ASSUME HeapInv, [Next]_vars PROVE HeapInv'
  OBVIOUS
<1>1. CASE UNCHANGED vars
  <2>1. TypeOK'
    BY <1>1 DEF vars, HeapInv, TypeOK, PartialMap
  <2>2. UNCHANGED policy
    BY <1>1 DEF vars, policy
  <2> QED
    BY <2>1, <2>2, SamePolicy DEF HeapInv
<1>2. ASSUME NEW t \in Threads, PutStep(t) PROVE HeapInv'
  BY <1>2, ControlHeap, PopItemHeap, PopEmptyHeap, StoreHeap DEF PutStep
<1>3. ASSUME NEW t \in Threads, NEW b \in Batches, Put(t, b) PROVE HeapInv'
  BY <1>3, ControlHeap
<1>4. ASSUME NEW t \in Threads, NEW k \in Keys, Get(t, k) PROVE HeapInv'
  BY <1>4, GetHeap
<1> QED
  BY <1>1, <1>2, <1>3, <1>4 DEF Next, AtRest

(* The heap invariant holds in every run: types are respected, a cached    *)
(* key always has a current heap entry, and L is below every priority.     *)
THEOREM HeapCorrect == Spec => []HeapInv
  BY InitHeap, NextHeap, PTL DEF Spec

(* Every variable keeps its type.                                          *)
THEOREM TypeCorrect == Spec => []TypeOK
  BY HeapCorrect, PTL DEF HeapInv

(* The lazy heap never forgets a cached key: popitem raises KeyError only  *)
(* on an empty cache.                                                      *)
THEOREM CoverageCorrect == Spec => []HeapCoversCache
  BY HeapCorrect, PTL DEF HeapInv

(* L is a lower bound of every priority in _prio and in the heap.          *)
THEOREM InflationBelowPriorities == Spec => []PrioritiesAboveInflation
  BY HeapCorrect, PTL DEF HeapInv

-----------------------------------------------------------------------------
(* L never falls.                                                          *)

(* L never falls: popitem sets it to the priority of its victim, which is  *)
(* not below it, and nothing else sets it.                                 *)
THEOREM InflationCorrect == Spec => InflationNeverFalls
<1>1. HeapInv /\ [Next]_vars => [inflation' >= inflation]_vars
  <2> SUFFICES ASSUME HeapInv, Next PROVE inflation' >= inflation
    OBVIOUS
  <2>1. ASSUME NEW t \in Threads, PopItem(t) PROVE inflation' >= inflation
    BY <2>1 DEF PopItem, Current, HeapInv, PrioritiesAboveInflation
  <2>2. CASE inflation' = inflation
    BY <2>2 DEF HeapInv, TypeOK
  <2> QED
    BY <2>1, <2>2 DEF Next, PutStep, Put, Enter, Loop, PopEmpty, OnEvict,
                      OnEvictRaises, Store, Get, AtRest, policy, vars
<1> QED
  BY <1>1, HeapCorrect, PTL DEF Spec, InflationNeverFalls

-----------------------------------------------------------------------------
(* The index implements the policy.                                        *)

(* The entries of the abstract cache, PC's refinement mapping.             *)
Entries == [k \in DOMAIN data |->
               [value |-> data[k], uses |-> freq[k], prio |-> prio[k]]]

(* The final store of __setitem__ admits the key.                          *)
LEMMA StoreAdmits ==
    ASSUME HeapInv, NEW t \in Threads, Store(t)
    PROVE  \E k \in Keys, v \in Values : PC!Admit(k, v)
<1>1. Key(t) \in Keys /\ Value(t) \in Values
  BY FirstPair DEF Store, HeapInv
<1>2. PICK k \in Keys, v \in Values : k = Key(t) /\ v = Value(t)
  BY <1>1
<1> DEFINE n == IF k \in DOMAIN freq THEN freq[k] ELSE 1
           p == inflation + (n * Gain(v))
<1>3. /\ data' = With(data, k, v)
      /\ freq' = With(freq, k, n)
      /\ prio' = With(prio, k, p)
      /\ inflation' = inflation
  BY <1>2 DEF Store, _push
<1>4. DOMAIN freq = DOMAIN data /\ DOMAIN prio = DOMAIN data
  BY DEF HeapInv, HeapCoversCache
<1>5. n = IF k \in DOMAIN Entries THEN Entries[k].uses ELSE 1
  BY <1>4 DEF Entries
<1>6. Entries' = [x \in DOMAIN Entries \cup {k} |->
                     IF x = k THEN [value |-> v, uses |-> n, prio |-> p]
                     ELSE Entries[x]]
  <2> HIDE DEF n, p
  <2> QED
    BY <1>3, <1>4 DEF Entries, With
<1>7. PC!Admit(k, v)
  BY <1>3, <1>5, <1>6 DEF PC!Admit, PC!Entry, Entries
<1> QED
  BY <1>7

(* A hit touches the key.                                                  *)
LEMMA GetTouches ==
    ASSUME HeapInv, NEW t \in Threads, NEW k \in Keys, Get(t, k)
    PROVE  PC!Touch(k)
<1> DEFINE n == freq[k] + 1
           p == inflation + (n * Gain(data[k]))
<1>1. /\ k \in DOMAIN data
      /\ data' = data
      /\ freq' = [freq EXCEPT ![k] = n]
      /\ prio' = With(prio, k, p)
      /\ inflation' = inflation
  BY DEF Get, _push
<1>2. DOMAIN freq = DOMAIN data /\ DOMAIN prio = DOMAIN data
  BY DEF HeapInv, HeapCoversCache
<1>3. Entries' = [Entries EXCEPT ![k] =
                     [value |-> data[k], uses |-> n, prio |-> p]]
  <2> HIDE DEF n, p
  <2> QED
    BY <1>1, <1>2 DEF Entries, With
<1>4. k \in DOMAIN Entries /\ Entries[k].value = data[k] /\ Entries[k].uses = freq[k]
  BY <1>1 DEF Entries
<1> QED
  BY <1>1, <1>3, <1>4 DEF PC!Touch, PC!Entry, Entries

(* popitem evicts an entry of least priority.                              *)
LEMMA PopItemEvicts ==
    ASSUME HeapInv, NEW t \in Threads, PopItem(t)
    PROVE  \E k \in Keys : PC!Evict(k)
<1>1. PICK e \in Current :
          /\ \A f \in Current \ {e} : Before(e, f)
          /\ inflation' = e.prio
          /\ data' = Drop(data, e.key)
          /\ freq' = Drop(freq, e.key)
          /\ prio' = Drop(prio, e.key)
  BY DEF PopItem
<1> DEFINE k == e.key
<1>2. DOMAIN freq = DOMAIN data /\ DOMAIN prio = DOMAIN data
  BY DEF HeapInv, HeapCoversCache
<1>3. e \in HeapEntry /\ k \in Keys /\ k \in DOMAIN data /\ prio[k] = e.prio
  BY <1>1, <1>2 DEF Current, HeapInv, TypeOK, HeapEntry
<1>4. ASSUME NEW j \in DOMAIN data PROVE prio[k] <= prio[j]
  <2>1. PICK f \in Current : f.key = j
    BY DEF HeapInv, HeapCoversCache
  <2>2. f \in HeapEntry /\ f.prio = prio[j]
    BY <2>1 DEF Current, HeapInv, TypeOK
  <2>3. CASE f = e
    BY <1>3, <2>2, <2>3 DEF HeapEntry
  <2>4. CASE f # e
    BY <1>1, <1>3, <2>2, <2>4 DEF Before, HeapEntry
  <2> QED
    BY <2>3, <2>4
<1>5. Entries' = [x \in DOMAIN Entries \ {k} |-> Entries[x]]
  BY <1>1, <1>2 DEF Entries, Drop, Restrict
<1>6. /\ k \in DOMAIN Entries
      /\ Entries[k].prio = prio[k]
      /\ \A j \in DOMAIN Entries : Entries[j].prio = prio[j]
  BY <1>3 DEF Entries
<1>7. PC!Evict(k)
  BY <1>1, <1>3, <1>4, <1>5, <1>6 DEF PC!Evict, Entries
<1> QED
  BY <1>3, <1>7

(* GDSFCache with its lazy heap implements the policy its class comment    *)
(* describes: priorities are L + frequency * cost / size, the victim is an *)
(* entry of least priority among all cached ones, and L rises to it.       *)
THEOREM RefinesPriorityCache == Spec => ImplementsPriorityCache
<1>1. Init => PC!Init
  <2> SUFFICES ASSUME Init PROVE PC!Init
    OBVIOUS
  <2>1. DOMAIN data = {} /\ inflation = 0
    BY DEF Init
  <2> QED
    BY <2>1 DEF PC!Init
<1>2. HeapInv /\ [Next]_vars => [PC!Next]_(PC!vars)
  <2> SUFFICES ASSUME HeapInv, [Next]_vars
               PROVE  PC!Next \/ UNCHANGED PC!vars
    OBVIOUS
  <2>1. CASE UNCHANGED <<data, freq, prio, inflation>>
    BY <2>1 DEF PC!vars
  <2>2. ASSUME NEW t \in Threads, Store(t) PROVE PC!Next
    BY <2>2, StoreAdmits DEF PC!Next
  <2>3. ASSUME NEW t \in Threads, NEW k \in Keys, Get(t, k) PROVE PC!Next
    BY <2>3, GetTouches DEF PC!Next
  <2>4. ASSUME NEW t \in Threads, PopItem(t) PROVE PC!Next
    BY <2>4, PopItemEvicts DEF PC!Next
  <2>5. \/ UNCHANGED <<data, freq, prio, inflation>>
        \/ \E t \in Threads : Store(t) \/ PopItem(t) \/ (\E k \in Keys : Get(t, k))
    BY DEF Next, PutStep, Put, Enter, Loop, PopEmpty, OnEvict,
           OnEvictRaises, AtRest, policy, vars
  <2> QED
    BY <2>1, <2>2, <2>3, <2>4, <2>5
<1> QED
  BY <1>1, <1>2, HeapCorrect, PTL DEF Spec, ImplementsPriorityCache, PC!Spec

-----------------------------------------------------------------------------
(* The capacity of the index when threads share it.                        *)

(* The keys that threads have made room for and are about to store.        *)
Storing == {k \in Keys : \E t \in Threads : pc[t] = "store" /\ Key(t) = k}

(* CapacityOvershoot is not inductive: the keys about to be stored take    *)
(* room too, each of them once, and only if they are not cached already.   *)
CapacityInv ==
    /\ IsFiniteSet(DOMAIN data)
    /\ UnitSizes =>
          /\ currsize = Cardinality(DOMAIN data)
          /\ Cardinality(DOMAIN data) + Cardinality(Storing \ DOMAIN data)
                < MaxSize + Cardinality(Threads)

StoringIsBounded ==
    /\ IsFiniteSet(Storing)
    /\ Cardinality(Storing) <= Cardinality(Threads)
    /\ Cardinality(Storing) \in Nat
    /\ Cardinality(Threads) \in Nat \ {0}

(* There are no more keys about to be stored than threads.                 *)
LEMMA StoringBound == TypeOK => StoringIsBounded
<1> SUFFICES ASSUME TypeOK PROVE StoringIsBounded
  OBVIOUS
<1> DEFINE S == {t \in Threads : pc[t] = "store"}
           f == [t \in S |-> Key(t)]
<1>1. /\ IsFiniteSet(S) /\ Cardinality(S) <= Cardinality(Threads)
      /\ Cardinality(Threads) \in Nat \ {0}
  BY ThreadsAssumption, FS_Subset, FS_CardinalityType, FS_EmptySet
<1>2. \A t \in S : Key(t) \in Storing
  BY FirstPair DEF Storing
<1>3. f \in Surjection(S, Storing)
  BY <1>2 DEF Surjection, Storing
<1>4. IsFiniteSet(Storing) /\ Cardinality(Storing) <= Cardinality(S)
  BY <1>1, <1>3, FS_Surjection
<1> QED
  BY <1>1, <1>4, FS_CardinalityType DEF StoringIsBounded

(* Removing keys from a finite set of keys cannot make it larger.          *)
LEMMA StoringDifference ==
    ASSUME NEW A, NEW B, IsFiniteSet(B), A \subseteq B
    PROVE  /\ IsFiniteSet(A) /\ Cardinality(A) \in Nat
           /\ Cardinality(B) \in Nat /\ Cardinality(A) <= Cardinality(B)
  BY FS_Subset, FS_CardinalityType

(* A step that stores and evicts nothing, and makes no new key pending.    *)
LEMMA QuietCapacity ==
    ASSUME TypeOK, CapacityInv,
           DOMAIN data' = DOMAIN data, currsize' = currsize,
           (Storing \ DOMAIN data)' \subseteq Storing \ DOMAIN data
    PROVE  CapacityInv'
<1> DEFINE A == (Storing \ DOMAIN data)'
           B == Storing \ DOMAIN data
<1>1. IsFiniteSet(B)
  BY StoringBound, FS_Subset DEF StoringIsBounded
<1>2. /\ Cardinality(A) \in Nat /\ Cardinality(B) \in Nat
      /\ Cardinality(A) <= Cardinality(B)
  BY <1>1, StoringDifference
<1>3. Cardinality(DOMAIN data) \in Nat /\ Cardinality(Threads) \in Nat /\ MaxSize \in Nat
  BY StoringBound, FS_CardinalityType, BoundsAssumption DEF CapacityInv, StoringIsBounded
<1>4. UnitSizes =>
         Cardinality(DOMAIN data) + Cardinality(A) < MaxSize + Cardinality(Threads)
  <2> HIDE DEF A, B
  <2>1. UnitSizes =>
           Cardinality(DOMAIN data) + Cardinality(B) < MaxSize + Cardinality(Threads)
    BY DEF CapacityInv, B
  <2> QED
    BY <1>2, <1>3, <2>1
<1> QED
  BY <1>4 DEF CapacityInv, UnitSizes

(* A step that changes no list and gives no thread the label "store" makes *)
(* no key pending; a thread that leaves its list behind neither.           *)
LEMMA StoringShrinks ==
    ASSUME NEW t \in Threads,
           \A u \in Threads \ {t} : pc'[u] = pc[u] /\ todo'[u] = todo[u],
           pc'[t] # "store"
    PROVE  Storing' \subseteq Storing
  BY DEF Storing, Key

(* put, KeyError, and the ends of on_evict leave nothing new to store.     *)
LEMMA ControlCapacity ==
    ASSUME TypeOK, CapacityInv, NEW t \in Threads,
           \/ \E b \in Batches : Put(t, b)
           \/ PopEmpty(t) \/ OnEvict(t) \/ OnEvictRaises(t)
    PROVE  CapacityInv'
<1>1. data' = data /\ currsize' = currsize
  BY DEF Put, PopEmpty, OnEvict, OnEvictRaises, policy
<1>2. /\ \A u \in Threads \ {t} : pc'[u] = pc[u] /\ todo'[u] = todo[u]
      /\ pc'[t] # "store"
  BY DEF Put, PopEmpty, OnEvict, OnEvictRaises, TypeOK
<1>3. Storing' \subseteq Storing
  BY <1>2, StoringShrinks
<1> QED
  BY <1>1, <1>3, QuietCapacity

(* The loop is skipped only for a key that is cached already.              *)
LEMMA EnterCapacity ==
    ASSUME TypeOK, CapacityInv, NEW t \in Threads, Enter(t)
    PROVE  CapacityInv'
<1>1. data' = data /\ currsize' = currsize
  BY DEF Enter, policy
<1>2. CASE pc'[t] # "store"
  <2>1. \A u \in Threads \ {t} : pc'[u] = pc[u] /\ todo'[u] = todo[u]
    BY DEF Enter, TypeOK
  <2>2. Storing' \subseteq Storing
    BY <1>2, <2>1, StoringShrinks
  <2> QED
    BY <1>1, <2>2, QuietCapacity
<1>3. CASE pc'[t] = "store"
  <2>1. /\ todo' = todo /\ Key(t) \in DOMAIN data
        /\ \A u \in Threads \ {t} : pc'[u] = pc[u]
    BY <1>3 DEF Enter, TypeOK
  <2>2. Storing' \subseteq Storing \cup {Key(t)}
    BY <2>1 DEF Storing, Key
  <2> QED
    BY <1>1, <2>1, <2>2, QuietCapacity
<1> QED
  BY <1>2, <1>3

(* The test of the while loop: there is room for one more key at that      *)
(* moment, whatever the other threads are about to store.                  *)
LEMMA LoopCapacity ==
    ASSUME TypeOK, TypeOK', CapacityInv, NEW t \in Threads, Loop(t)
    PROVE  CapacityInv'
<1>1. data' = data /\ currsize' = currsize
  BY DEF Loop, policy
<1>2. CASE pc'[t] # "store"
  <2>1. \A u \in Threads \ {t} : pc'[u] = pc[u] /\ todo'[u] = todo[u]
    BY DEF Loop, TypeOK
  <2>2. Storing' \subseteq Storing
    BY <1>2, <2>1, StoringShrinks
  <2> QED
    BY <1>1, <2>2, QuietCapacity
<1>3. CASE pc'[t] = "store"
  <2> DEFINE A == (Storing \ DOMAIN data)'
  <2>1. IsFiniteSet(Storing') /\ Cardinality(Storing') <= Cardinality(Threads)
        /\ Cardinality(Storing') \in Nat /\ Cardinality(Threads) \in Nat \ {0}
    <3>1. StoringIsBounded'
      BY StoringBound, PTL
    <3> QED
      BY <3>1 DEF StoringIsBounded
  <2>2. Cardinality(A) \in Nat /\ Cardinality(A) <= Cardinality(Threads)
    <3>1. Cardinality(A) \in Nat /\ Cardinality(A) <= Cardinality(Storing')
      BY <2>1, StoringDifference
    <3> QED
      BY <2>1, <3>1
  <2>3. UnitSizes => currsize + 1 <= MaxSize
    <3>1. Size[Value(t)] \in Nat /\ currsize + Size[Value(t)] <= MaxSize
      <4>1. Value(t) \in Values
        BY FirstPair DEF Loop
      <4>2. ~(currsize + Size[Value(t)] > MaxSize)
        BY <1>3 DEF Loop, TypeOK
      <4>3. Size[Value(t)] \in Nat /\ currsize \in Int /\ MaxSize \in Nat
        BY <4>1, SizeAssumption, BoundsAssumption DEF TypeOK
      <4> QED
        BY <4>2, <4>3
    <3> QED
      BY <3>1, FirstPair DEF UnitSizes, Loop
  <2>4. UnitSizes =>
           Cardinality(DOMAIN data) + Cardinality(A) < MaxSize + Cardinality(Threads)
    <3> HIDE DEF A
    <3>1. Cardinality(DOMAIN data) \in Nat /\ MaxSize \in Nat
      BY FS_CardinalityType, BoundsAssumption DEF CapacityInv
    <3>2. UnitSizes => Cardinality(DOMAIN data) + 1 <= MaxSize
      BY <2>3 DEF CapacityInv
    <3> QED
      BY <2>1, <2>2, <3>1, <3>2
  <2> QED
    BY <1>1, <2>4 DEF CapacityInv, UnitSizes
<1> QED
  BY <1>2, <1>3

(* An eviction frees one place, and at most one key that was cached        *)
(* becomes one to make room for.                                           *)
LEMMA PopItemCapacity ==
    ASSUME HeapInv, CapacityInv, NEW t \in Threads, PopItem(t)
    PROVE  CapacityInv'
<1>1. PICK k \in DOMAIN data : /\ DOMAIN data' = DOMAIN data \ {k}
                               /\ currsize' = currsize - Size[data[k]]
  BY DEF PopItem, Current, HeapInv, HeapCoversCache, Drop, Restrict
<1>2. Storing' = Storing
  BY DEF PopItem, Storing, Key
<1> DEFINE D == DOMAIN data
           A == Storing \ (D \ {k})
           B == Storing \ D
<1>3. StoringIsBounded /\ IsFiniteSet(B) /\ IsFiniteSet(D)
  BY StoringBound, FS_Subset DEF StoringIsBounded, HeapInv, CapacityInv
<1>4. /\ IsFiniteSet(D \ {k})
      /\ Cardinality(D \ {k}) = Cardinality(D) - 1
      /\ Cardinality(D) \in Nat
  BY <1>1, <1>3, FS_RemoveElement, FS_CardinalityType
<1>5. /\ Cardinality(A) \in Nat /\ Cardinality(B) \in Nat
      /\ Cardinality(A) <= Cardinality(B) + 1
  <2>1. IsFiniteSet(B \cup {k}) /\ Cardinality(B \cup {k}) <= Cardinality(B) + 1
    <3>1. /\ IsFiniteSet(B \cup {k})
          /\ Cardinality(B \cup {k}) = IF k \in B THEN Cardinality(B) ELSE Cardinality(B) + 1
      BY <1>3, FS_AddElement
    <3>2. Cardinality(B) \in Nat
      BY <1>3, FS_CardinalityType
    <3> HIDE DEF B
    <3> QED
      BY <3>1, <3>2
  <2>2. A \subseteq B \cup {k}
    OBVIOUS
  <2>3. /\ Cardinality(A) \in Nat /\ Cardinality(B \cup {k}) \in Nat
        /\ Cardinality(A) <= Cardinality(B \cup {k})
    BY <2>1, <2>2, StoringDifference
  <2>4. Cardinality(B) \in Nat
    BY <1>3, FS_CardinalityType
  <2> HIDE DEF A, B
  <2> QED
    BY <2>1, <2>3, <2>4
<1>6. UnitSizes => currsize' = Cardinality(D) - 1
  BY <1>1 DEF UnitSizes, CapacityInv, HeapInv, TypeOK, PartialMap
<1>7. UnitSizes => Cardinality(D) - 1 + Cardinality(A) < MaxSize + Cardinality(Threads)
  <2>1. UnitSizes => Cardinality(D) + Cardinality(B) < MaxSize + Cardinality(Threads)
    BY DEF CapacityInv
  <2> HIDE DEF A, B, D
  <2> QED
    BY <1>3, <1>4, <1>5, <2>1, BoundsAssumption DEF StoringIsBounded
<1> QED
  BY <1>1, <1>2, <1>4, <1>6, <1>7 DEF CapacityInv, UnitSizes

(* A store takes the place its key was waiting for, or replaces an entry.  *)
LEMMA StoreCapacity ==
    ASSUME HeapInv, CapacityInv, NEW t \in Threads, Store(t)
    PROVE  CapacityInv'
<1>1. Key(t) \in Keys /\ Value(t) \in Values
  BY FirstPair DEF Store, HeapInv
<1>2. PICK k \in Keys, v \in Values : k = Key(t) /\ v = Value(t)
  BY <1>1
<1> DEFINE D == DOMAIN data
           A == Storing' \ (D \cup {k})
           B == Storing \ D
<1>3. DOMAIN data' = D \cup {k} /\ currsize' = currsize + Size[v] - SizeIn(data, k)
  BY <1>2 DEF Store, With
<1>4. k \in Storing
  BY <1>2 DEF Store, Storing
<1>5. Storing' \subseteq Storing
  <2>1. /\ \A u \in Threads \ {t} : pc'[u] = pc[u] /\ todo'[u] = todo[u]
        /\ pc'[t] # "store"
    BY DEF Store, HeapInv, TypeOK
  <2> QED
    BY <2>1, StoringShrinks
<1>6. StoringIsBounded /\ IsFiniteSet(B) /\ IsFiniteSet(D) /\ Cardinality(B) \in Nat
  BY StoringBound, FS_Subset, FS_CardinalityType DEF StoringIsBounded, HeapInv, CapacityInv
<1>7. /\ IsFiniteSet(D \cup {k}) /\ Cardinality(D) \in Nat
      /\ Cardinality(D \cup {k}) = IF k \in D THEN Cardinality(D) ELSE Cardinality(D) + 1
  BY <1>6, FS_AddElement, FS_CardinalityType
<1>8. /\ Cardinality(A) \in Nat
      /\ Cardinality(A) <= IF k \in D THEN Cardinality(B) ELSE Cardinality(B) - 1
  <2>1. CASE k \in D
    <3>1. A \subseteq B
      BY <1>5
    <3> QED
      BY <1>6, <2>1, <3>1, StoringDifference
  <2>2. CASE k \notin D
    <3>1. A \subseteq B \ {k} /\ k \in B
      BY <1>4, <1>5, <2>2
    <3>2. IsFiniteSet(B \ {k}) /\ Cardinality(B \ {k}) = Cardinality(B) - 1
      BY <1>6, <3>1, FS_RemoveElement
    <3>3. Cardinality(A) \in Nat /\ Cardinality(A) <= Cardinality(B \ {k})
      BY <3>1, <3>2, StoringDifference
    <3> QED
      BY <2>2, <3>2, <3>3
  <2> QED
    BY <2>1, <2>2
<1>9. UnitSizes => currsize' = Cardinality(D \cup {k})
  <2>1. UnitSizes => Size[v] = 1 /\ SizeIn(data, k) = IF k \in D THEN 1 ELSE 0
    BY <1>2 DEF UnitSizes, SizeIn, HeapInv, TypeOK, PartialMap
  <2>2. UnitSizes => currsize = Cardinality(D)
    BY DEF CapacityInv
  <2> HIDE DEF D
  <2> QED
    BY <1>3, <1>7, <2>1, <2>2
<1>10. UnitSizes =>
          Cardinality(D \cup {k}) + Cardinality(A) < MaxSize + Cardinality(Threads)
  <2>1. UnitSizes => Cardinality(D) + Cardinality(B) < MaxSize + Cardinality(Threads)
    BY DEF CapacityInv
  <2> HIDE DEF A, B, D
  <2> QED
    BY <1>6, <1>7, <1>8, <2>1, BoundsAssumption DEF StoringIsBounded
<1> QED
  BY <1>3, <1>7, <1>9, <1>10 DEF CapacityInv, UnitSizes

(* The empty index has room.                                               *)
LEMMA InitCapacity == Init => CapacityInv
<1> SUFFICES ASSUME Init PROVE CapacityInv
  OBVIOUS
<1>1. DOMAIN data = {} /\ currsize = 0 /\ Storing = {}
  BY DEF Init, Storing
<1>2. Cardinality(Threads) \in Nat \ {0}
  BY ThreadsAssumption, FS_CardinalityType, FS_EmptySet
<1> QED
  BY <1>1, <1>2, FS_EmptySet, BoundsAssumption DEF CapacityInv

(* Every step keeps the room that pending stores need.                     *)
LEMMA NextCapacity == HeapInv /\ HeapInv' /\ CapacityInv /\ [Next]_vars => CapacityInv'
<1> SUFFICES ASSUME HeapInv, HeapInv', CapacityInv, [Next]_vars PROVE CapacityInv'
  OBVIOUS
<1>1. TypeOK /\ TypeOK'
  BY DEF HeapInv
<1>2. CASE UNCHANGED <<data, currsize, pc, todo>>
  <2>1. Storing' = Storing
    BY <1>2 DEF Storing, Key
  <2> QED
    BY <1>1, <1>2, <2>1, QuietCapacity
<1>3. ASSUME NEW t \in Threads, PutStep(t) PROVE CapacityInv'
  BY <1>1, <1>3, ControlCapacity, EnterCapacity, LoopCapacity, PopItemCapacity,
     StoreCapacity DEF PutStep
<1>4. ASSUME NEW t \in Threads, NEW b \in Batches, Put(t, b) PROVE CapacityInv'
  BY <1>1, <1>4, ControlCapacity
<1>5. ASSUME NEW t \in Threads, NEW k \in Keys, Get(t, k)
      PROVE  UNCHANGED <<data, currsize, pc, todo>>
  BY <1>5 DEF Get
<1> QED
  BY <1>2, <1>3, <1>4, <1>5 DEF Next, AtRest, vars

(* Threads that share the unlocked index exceed maxsize by fewer entries   *)
(* than there are threads, and one thread alone never exceeds it.          *)
THEOREM CapacityCorrect == Spec => []CapacityOvershoot
<1>1. HeapInv /\ CapacityInv => CapacityOvershoot
  <2> SUFFICES ASSUME HeapInv, CapacityInv, UnitSizes
               PROVE  Cardinality(DOMAIN data) < MaxSize + Cardinality(Threads)
    BY DEF CapacityOvershoot
  <2>1. StoringIsBounded
    BY StoringBound DEF HeapInv
  <2>2. IsFiniteSet(Storing \ DOMAIN data)
    BY <2>1, FS_Subset DEF StoringIsBounded
  <2>3. Cardinality(Storing \ DOMAIN data) \in Nat /\ Cardinality(DOMAIN data) \in Nat
    BY <2>2, FS_CardinalityType DEF CapacityInv
  <2> QED
    BY <2>1, <2>3, BoundsAssumption DEF CapacityInv, StoringIsBounded
<1> QED
  BY <1>1, InitCapacity, NextCapacity, HeapCorrect, PTL DEF Spec

-----------------------------------------------------------------------------
(* Every eviction is reported.                                             *)

(* The pops the threads have still to do in the batches they have begun.   *)
Pops == {p \in Threads \X (1..CleanSize) : pc[p[1]] = "pop" /\ p[2] > Len(popped[p[1]])}

Fits == UnitSizes /\ Cardinality(Threads) * CleanSize <= MaxSize

(* EveryEvictionReported is not inductive: that popitem_wrapper completes  *)
(* its lists rests on how many entries are left while threads pop.         *)
RoomInv == Fits => Cardinality(Pops) <= Cardinality(DOMAIN data)

Reported == \A k \in owed : \E t \in Threads : k \in Range(popped[t])

ReportInv == RoomInv /\ (BatchesFit => Reported)

(* All batches together are Threads times clean_size pops at most.         *)
LEMMA PopsBound ==
    /\ IsFiniteSet(Pops) /\ Cardinality(Pops) \in Nat
    /\ Cardinality(Threads) * CleanSize \in Nat
    /\ Cardinality(Pops) <= Cardinality(Threads) * CleanSize
<1> DEFINE S == 1..CleanSize
<1>1. IsFiniteSet(S) /\ Cardinality(S) = CleanSize
  BY CleanSizeType, FS_Interval
<1>2. /\ IsFiniteSet(Threads \X S)
      /\ Cardinality(Threads \X S) = Cardinality(Threads) * Cardinality(S)
  BY <1>1, ThreadsAssumption, FS_Product
<1>3. Pops \subseteq Threads \X S
  BY DEF Pops
<1>4. Cardinality(Threads \X S) \in Nat
  BY <1>2, FS_CardinalityType
<1> QED
  BY <1>1, <1>2, <1>3, <1>4, FS_Subset, FS_CardinalityType

(* A step that begins no batch and evicts nothing.                         *)
LEMMA QuietRoom ==
    ASSUME RoomInv, IsFiniteSet(DOMAIN data'), DOMAIN data \subseteq DOMAIN data',
           \A u \in Threads : pc'[u] = "pop" => pc[u] = "pop" /\ popped'[u] = popped[u]
    PROVE  RoomInv'
<1>1. Pops' \subseteq Pops
  BY DEF Pops
<1>2. Cardinality(Pops') <= Cardinality(Pops) /\ Cardinality(Pops') \in Nat
      /\ Cardinality(Pops) \in Nat
  BY <1>1, PopsBound, FS_Subset, FS_CardinalityType
<1>3. /\ Cardinality(DOMAIN data) <= Cardinality(DOMAIN data')
      /\ Cardinality(DOMAIN data) \in Nat /\ Cardinality(DOMAIN data') \in Nat
  BY FS_Subset, FS_CardinalityType
<1>4. Fits' <=> Fits
  BY DEF Fits, UnitSizes
<1> QED
  BY <1>2, <1>3, <1>4 DEF RoomInv

(* What a list names after one more key is appended.                       *)
LEMMA RangeAppend ==
    ASSUME NEW S, NEW s \in Seq(S), NEW x \in S
    PROVE  Range(Append(s, x)) = Range(s) \cup {x}
<1>1. DOMAIN Append(s, x) = 1..(Len(s) + 1) /\ DOMAIN s = 1..Len(s) /\ Len(s) \in Nat
  OBVIOUS
<1>2. \A i \in 1..Len(s) : Append(s, x)[i] = s[i]
  OBVIOUS
<1>3. Append(s, x)[Len(s) + 1] = x
  OBVIOUS
<1> QED
  BY <1>1, <1>2, <1>3 DEF Range

(* Where the batches fit, a thread that pops finds a current entry.        *)
LEMMA NeverShort ==
    ASSUME HeapInv, RoomInv, Fits, NEW t \in Threads
    PROVE  ~ PopEmpty(t)
<1> SUFFICES ASSUME PopEmpty(t) PROVE FALSE
  OBVIOUS
<1>1. pc[t] = "pop" /\ Len(popped[t]) < CleanSize /\ Current = {}
  BY DEF PopEmpty
<1>2. DOMAIN data = {}
  BY <1>1 DEF HeapInv, HeapCoversCache
<1>3. Len(popped[t]) \in Nat
  BY DEF HeapInv, TypeOK
<1>4. <<t, Len(popped[t]) + 1>> \in Pops
  BY <1>1, <1>3, CleanSizeType DEF Pops
<1>5. Cardinality(Pops) = 0
  BY <1>2, FS_EmptySet, PopsBound DEF RoomInv
<1> QED
  BY <1>4, <1>5, PopsBound, FS_EmptySet

(* popitem takes an entry from the index and a pop from the batch.         *)
LEMMA PopItemRoom ==
    ASSUME HeapInv, CapacityInv, RoomInv, NEW t \in Threads, PopItem(t)
    PROVE  RoomInv'
<1>1. PICK k \in Keys : /\ k \in DOMAIN data
                        /\ DOMAIN data' = DOMAIN data \ {k}
                        /\ popped' = [popped EXCEPT ![t] = Append(@, k)]
                        /\ pc[t] = "pop" /\ pc' = pc /\ Len(popped[t]) < CleanSize
  BY DEF PopItem, Current, HeapInv, HeapCoversCache, TypeOK, PartialMap, Drop, Restrict
<1>2. popped[t] \in Seq(Keys) /\ popped'[t] = Append(popped[t], k)
      /\ \A u \in Threads \ {t} : popped'[u] = popped[u]
  BY <1>1 DEF HeapInv, TypeOK
<1>3. Len(popped[t]) \in Nat /\ Len(popped'[t]) = Len(popped[t]) + 1
  BY <1>2
<1> DEFINE p == <<t, Len(popped[t]) + 1>>
<1>4. p \in Pops
  BY <1>1, <1>3, CleanSizeType DEF Pops
<1>5. Pops' \subseteq Pops \ {p}
  <2> SUFFICES ASSUME NEW q \in Pops' PROVE q \in Pops \ {p}
    OBVIOUS
  <2>1. q \in Threads \X (1..CleanSize) /\ pc[q[1]] = "pop" /\ q[2] > Len(popped'[q[1]])
    BY <1>1 DEF Pops
  <2>2. CASE q[1] = t
    BY <1>3, <2>1, <2>2, CleanSizeType DEF Pops
  <2>3. CASE q[1] # t
    BY <1>2, <2>1, <2>3 DEF Pops
  <2> QED BY <2>2, <2>3
<1>6. /\ IsFiniteSet(Pops \ {p}) /\ Cardinality(Pops \ {p}) = Cardinality(Pops) - 1
      /\ Cardinality(Pops) \in Nat
  BY <1>4, PopsBound, FS_RemoveElement
<1>7. Cardinality(Pops') <= Cardinality(Pops) - 1 /\ Cardinality(Pops') \in Nat
  BY <1>5, <1>6, FS_Subset, FS_CardinalityType
<1>8. Cardinality(DOMAIN data') = Cardinality(DOMAIN data) - 1
      /\ Cardinality(DOMAIN data) \in Nat
  BY <1>1, FS_RemoveElement, FS_CardinalityType DEF CapacityInv
<1>9. Fits' <=> Fits
  BY DEF Fits, UnitSizes
<1> QED
  BY <1>6, <1>7, <1>8, <1>9 DEF RoomInv

(* A batch begins only where the index is full.                            *)
LEMMA LoopRoom ==
    ASSUME HeapInv, CapacityInv, RoomInv, NEW t \in Threads, Loop(t)
    PROVE  RoomInv'
<1>1. /\ UNCHANGED <<data, popped>> /\ pc[t] = "loop"
      /\ pc' = [pc EXCEPT ![t] = IF currsize + Size[Value(t)] > MaxSize THEN "pop" ELSE "store"]
  BY DEF Loop, policy
<1>2. \A u \in Threads \ {t} : pc'[u] = pc[u]
  BY <1>1 DEF HeapInv, TypeOK
<1>3. CASE pc'[t] # "pop"
  BY <1>1, <1>2, <1>3, QuietRoom DEF CapacityInv
<1>4. CASE pc'[t] = "pop"
  <2> SUFFICES ASSUME Fits' PROVE Cardinality(Pops') <= Cardinality(DOMAIN data')
    BY DEF RoomInv
  <2>1. Fits
    BY DEF Fits, UnitSizes
  <2>2. Value(t) \in Values
    BY <1>1, FirstPair DEF HeapInv
  <2>3. Size[Value(t)] = 1 /\ currsize = Cardinality(DOMAIN data)
    BY <2>1, <2>2 DEF Fits, UnitSizes, CapacityInv
  <2>4. Cardinality(DOMAIN data) \in Nat /\ MaxSize \in Nat
    BY FS_CardinalityType, BoundsAssumption DEF CapacityInv
  <2>5. Cardinality(DOMAIN data) >= MaxSize
    BY <1>1, <1>4, <2>3, <2>4 DEF HeapInv, TypeOK
  <2>6. (/\ Cardinality(Pops) \in Nat /\ Cardinality(Threads) * CleanSize \in Nat
         /\ Cardinality(Pops) <= Cardinality(Threads) * CleanSize)'
    BY PopsBound, PTL
  <2>7. Cardinality(Pops') \in Nat /\ Cardinality(Threads) * CleanSize \in Nat
        /\ Cardinality(Pops') <= Cardinality(Threads) * CleanSize
    BY <2>6
  <2>8. Cardinality(Threads) * CleanSize <= MaxSize
    BY <2>1 DEF Fits
  <2> HIDE DEF Fits
  <2>9. Cardinality(Pops') <= Cardinality(DOMAIN data)
    BY <2>4, <2>5, <2>7, <2>8
  <2> QED BY <1>1, <2>9
<1> QED BY <1>3, <1>4

(* Every step keeps the account of the evictions.                          *)
LEMMA NextReport ==
    ASSUME HeapInv, CapacityInv, CapacityInv', ReportInv, [Next]_vars
    PROVE  ReportInv'
<1>a. IsFiniteSet(DOMAIN data') /\ (BatchesFit' <=> BatchesFit)
  BY DEF CapacityInv, BatchesFit, UnitSizes
<1>1. CASE UNCHANGED vars
  <2>1. RoomInv'
    BY <1>1, <1>a, QuietRoom DEF vars, ReportInv
  <2> QED BY <1>1, <1>a, <2>1 DEF vars, ReportInv, Reported
<1>2. ASSUME NEW t \in Threads,
             \/ \E b \in Batches : Put(t, b)
             \/ \E k \in Keys : Get(t, k)
             \/ Enter(t)
      PROVE  ReportInv'
  <2>1. UNCHANGED <<popped, owed>> /\ DOMAIN data' = DOMAIN data
        /\ \A u \in Threads : pc'[u] = "pop" => pc[u] = "pop"
    BY <1>2 DEF Put, Get, Enter, policy, HeapInv, TypeOK
  <2>2. RoomInv'
    BY <1>a, <2>1, QuietRoom DEF ReportInv
  <2> QED BY <1>a, <2>1, <2>2 DEF ReportInv, Reported
<1>3. ASSUME NEW t \in Threads, Loop(t) PROVE ReportInv'
  <2>1. RoomInv'
    BY <1>3, LoopRoom DEF ReportInv
  <2> QED BY <1>3, <1>a, <2>1 DEF Loop, ReportInv, Reported
<1>4. ASSUME NEW t \in Threads, PopItem(t) PROVE ReportInv'
  <2>1. RoomInv'
    BY <1>4, PopItemRoom DEF ReportInv
  <2>2. PICK k \in Keys : /\ popped' = [popped EXCEPT ![t] = Append(@, k)]
                          /\ owed' = owed \cup {k}
    BY <1>4 DEF PopItem, Current, HeapInv, HeapCoversCache, TypeOK, PartialMap
  <2>3. popped[t] \in Seq(Keys) /\ popped'[t] = Append(popped[t], k)
        /\ \A u \in Threads \ {t} : popped'[u] = popped[u]
    BY <2>2 DEF HeapInv, TypeOK
  <2>4. Range(popped'[t]) = Range(popped[t]) \cup {k}
    BY <2>3, RangeAppend
  <2>5. BatchesFit => Reported'
    BY <2>2, <2>3, <2>4 DEF ReportInv, Reported
  <2> QED BY <1>a, <2>1, <2>5 DEF ReportInv
<1>5. ASSUME NEW t \in Threads, PopEmpty(t) PROVE ReportInv'
  <2>1. /\ owed' = owed /\ data' = data /\ pc[t] = "pop" /\ Len(popped[t]) < CleanSize
        /\ popped[t] \in Seq(Keys) /\ popped'[t] = <<>>
        /\ \A u \in Threads \ {t} : popped'[u] = popped[u] /\ pc'[u] = pc[u]
        /\ pc'[t] # "pop"
    BY <1>5 DEF PopEmpty, HeapInv, TypeOK
  <2>2. RoomInv'
    BY <1>a, <2>1, QuietRoom DEF ReportInv
  <2>3. ASSUME BatchesFit PROVE Reported'
    <3>1. ~Fits
      BY <1>5, NeverShort DEF ReportInv
    <3>2. CleanSize <= 1
      BY <2>3, <3>1 DEF BatchesFit, Fits
    <3>3. popped[t] = <<>>
      BY <2>1, <3>2, CleanSizeType
    <3> QED BY <2>1, <2>3, <3>3 DEF ReportInv, Reported
  <2> QED BY <1>a, <2>2, <2>3 DEF ReportInv
<1>6. ASSUME NEW t \in Threads, OnEvict(t) \/ OnEvictRaises(t) PROVE ReportInv'
  <2>1. /\ owed' = owed \ Range(popped[t]) /\ data' = data /\ pc'[t] # "pop"
        /\ \A u \in Threads \ {t} : popped'[u] = popped[u] /\ pc'[u] = pc[u]
    BY <1>6 DEF OnEvict, OnEvictRaises, policy, HeapInv, TypeOK
  <2>2. RoomInv'
    BY <1>a, <2>1, QuietRoom DEF ReportInv
  <2> QED BY <1>a, <2>1, <2>2 DEF ReportInv, Reported
<1>7. ASSUME NEW t \in Threads, Store(t) PROVE ReportInv'
  <2>1. /\ owed' \subseteq owed /\ popped' = popped /\ DOMAIN data \subseteq DOMAIN data'
        /\ \A u \in Threads : pc'[u] = "pop" => pc[u] = "pop"
    BY <1>7 DEF Store, With, HeapInv, TypeOK
  <2>2. RoomInv'
    BY <1>a, <2>1, QuietRoom DEF ReportInv
  <2> QED BY <1>a, <2>1, <2>2 DEF ReportInv, Reported
<1> QED
  BY <1>1, <1>2, <1>3, <1>4, <1>5, <1>6, <1>7 DEF Next, PutStep, AtRest

(* If the batches fit, whatever the threads do, every key that leaves the  *)
(* index is given to on_evict: either a batch of one key loses nothing to  *)
(* KeyError, or the index always has as many entries as the pops that are  *)
(* still to come.                                                          *)
THEOREM ReportingCorrect == Spec => []EveryEvictionReported
<1>1. Init => ReportInv
  <2> SUFFICES ASSUME Init PROVE ReportInv
    OBVIOUS
  <2>1. Pops = {}
    BY DEF Init, Pops
  <2>2. DOMAIN data = {} /\ owed = {}
    BY DEF Init
  <2> QED BY <2>1, <2>2, FS_EmptySet DEF ReportInv, RoomInv, Reported
<1>2. HeapInv /\ CapacityInv /\ CapacityInv' /\ ReportInv /\ [Next]_vars => ReportInv'
  BY NextReport
<1>3. ReportInv => EveryEvictionReported
  BY DEF ReportInv, Reported, EveryEvictionReported
<1> QED
  BY <1>1, <1>2, <1>3, InitCapacity, NextCapacity, HeapCorrect, PTL DEF Spec

====================================================================================
