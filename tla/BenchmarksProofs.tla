-------------------------- MODULE BenchmarksProofs --------------------------
(***************************************************************************)
(* The benchmark harness counts what the index does, evicts nothing early, *)
(* its ablated policies evict what the simpler policies would, and aging   *)
(* bounds how long an entry survives: for any prompts, costs, sizes,       *)
(* batches and workloads.                                                  *)
(***************************************************************************)
EXTENDS Benchmarks, FiniteSetTheorems, NaturalsInduction, TLAPS

-----------------------------------------------------------------------------
(* The inductive invariants.                                               *)

\* The harness's set holds the entries and the keys popitem_wrapper has not
\* handed over yet; the prompt that is put is in neither.
InStep ==
    /\ in_cache = cached \cup popped /\ cached \cap popped = {}
    /\ pc = "idle" => popped = {}
    /\ pc = "loop" => pid \notin in_cache /\ n >= 1

\* A miss adds an entry at once or, while it is put, will.
Counted == n - hits - Cardinality(cached) = evicted + (IF pc = "loop" THEN 1 ELSE 0)

BInv == TypeOK /\ InStep /\ Counted

\* The prompts that were requested, with the one that is being put
Seen == Requested \cup (IF pc = "loop" THEN {pid} ELSE {})

\* Nothing is missing before the first eviction, and that one had a reason.
Early ==
    /\ in_cache \subseteq Requested
    /\ evicted = 0 => Requested = cached /\ popped = {}
    /\ evicted # 0 => Cardinality(Seen) > maxsize

\* Entries were used, and not after the last request.
Pushed ==
    /\ \A p \in cached : uses[p] >= 1 /\ pushed[p] <= n
    /\ pc = "loop" => \A p \in cached : pushed[p] < n

\* The inflation is the lowest priority there ever was.
Inflated ==
    policy \in Aged =>
        \A p \in cached : inflation <= prio[p] /\ Weight(p) <= prio[p]

\* With equal costs a later push has no lower priority.
Recency ==
    EqualCosts /\ policy = "COST_ONLY" =>
        /\ \A p \in cached : prio[p] <= inflation + cost[p]
        /\ \A p, q \in cached : pushed[p] < pushed[q] => prio[p] <= prio[q]

\* Without aging the priority is the frequency times the cost.
Frequency == policy = "GDSF_NO_AGE" => \A p \in cached : prio[p] = uses[p] * cost[p]

\* The other entries that are below a priority
Below(p, bar) == {q \in cached \ {p} : prio[q] < bar}

\* Since p was pushed, at inflation prio[p] - Weight(p), the inflation grew by
\* the least cost k times or more, and each time after at most maxsize - 1
\* evictions: what is below the next step goes first, and no push adds to it.
Overtaken(p, k) ==
    /\ inflation >= prio[p] - Weight(p) + k * LeastCost
    /\ age[p] + Cardinality(Below(p, prio[p] - Weight(p) + (k + 1) * LeastCost))
           <= (maxsize - 1) * (k + 1)

Aging == policy \in Aged => \A p \in cached : \E k \in Nat : Overtaken(p, k)

-----------------------------------------------------------------------------
(* Sets and sizes.                                                         *)

\* The parameters of an experiment are those of main.
LEMMA ExperimentFacts ==
    ASSUME TypeOK
    PROVE  /\ maxsize \in Nat \ {0}
           /\ policy \in BuiltIn \cup Ablation
           /\ CleanSize \in Nat \ {0}
<1>1. maxsize \in MaxSizes \cup {FixedSize} /\ policy \in BuiltIn \cup Ablation
  BY DEF TypeOK, Experiments, BuiltIn, Ablation
<1>2. maxsize \in Nat \ {0}
  BY <1>1, SizeAssumption
<1>3. CleanSize \in Nat \ {0}
  BY <1>2, LimitsAssumption DEF CleanSize
<1> QED BY <1>1, <1>2, <1>3

\* Sets of prompts are finite.
LEMMA FinitePrompts ==
    ASSUME NEW S \in SUBSET Prompts
    PROVE  IsFiniteSet(S) /\ Cardinality(S) \in Nat
<1>1. IsFiniteSet(S)
  BY PromptsAssumption, FS_Subset
<1> QED BY <1>1, FS_CardinalityType

\* One prompt more, one prompt less.
LEMMA OnePrompt ==
    ASSUME NEW S \in SUBSET Prompts, NEW p \in Prompts
    PROVE  /\ p \notin S => Cardinality(S \cup {p}) = Cardinality(S) + 1
           /\ p \in S => Cardinality(S \ {p}) = Cardinality(S) - 1
<1>1. IsFiniteSet(S)
  BY FinitePrompts
<1> QED BY <1>1, FS_AddElement, FS_RemoveElement

\* A set of prompts is no larger than one that holds it.
LEMMA MorePrompts ==
    ASSUME NEW T \in SUBSET Prompts, NEW S \in SUBSET T
    PROVE  Cardinality(S) <= Cardinality(T)
<1>1. IsFiniteSet(T)
  BY FinitePrompts
<1> QED BY <1>1, FS_Subset

\* Products of a number and a positive one
LEMMA TimesFacts ==
    ASSUME NEW a \in Nat, NEW b \in Nat, NEW c \in Nat \ {0}
    PROVE  /\ a * c \in Nat
           /\ a >= 1 => c <= a * c
           /\ a * c <= b * c => a <= b
           /\ (a + 1) * c = a * c + c
<1>1. a * c \in Nat /\ (a + 1) * c = a * c + c
  OBVIOUS
<1>2. a >= 1 => c <= a * c
  <2> SUFFICES ASSUME a >= 1 PROVE c <= a * c
    OBVIOUS
  <2>1. (a - 1) * c >= 0 /\ (a - 1) * c = a * c - c
    OBVIOUS
  <2> QED BY <2>1, <1>1
<1>3. ASSUME a * c <= b * c, a > b PROVE FALSE
  <2>1. (a - b) * c >= c
    <3>1. (a - b - 1) * c >= 0 /\ (a - b - 1) * c = (a - b) * c - c
      BY <1>3
    <3> QED BY <3>1
  <2>2. (a - b) * c = a * c - b * c
    OBVIOUS
  <2> QED BY <1>1, <1>3, <2>1, <2>2
<1> QED BY <1>1, <1>2, <1>3

\* A product grows with its factor.
LEMMA ProductGrows ==
    ASSUME NEW m \in Nat, NEW a \in Nat, NEW b \in Nat, a <= b
    PROVE  m * a <= m * b
<1>1. PICK d \in Nat : b = a + d
  <2>1. b - a \in Nat /\ b = a + (b - a)
    OBVIOUS
  <2> QED BY <2>1
<1>2. m * (a + d) = m * a + m * d /\ m * d \in Nat /\ m * a \in Nat
  OBVIOUS
<1> QED BY <1>1, <1>2

\* The order of the natural numbers, as a relation
Less == OpToRel(<, Nat)

LEMMA LessFacts ==
    /\ IsWellFoundedOn(Less, Nat)
    /\ \A x, y \in Nat : <<y, x>> \in Less <=> y < x
<1>1. IsWellFoundedOn(Less, Nat)
  BY NatLessThanWellFounded DEF Less
<1>2. \A x, y \in Nat : <<y, x>> \in Less <=> y < x
  BY DEF Less, OpToRel
<1> QED BY <1>1, <1>2

\* The least cost is a cost, and the least one.
LEMMA LeastCostFacts ==
    ASSUME TypeOK
    PROVE  LeastCost \in Nat \ {0} /\ \A p \in Prompts : LeastCost <= cost[p]
<1> DEFINE T == {cost[p] : p \in Prompts}
<1>1. T \in SUBSET (Nat \ {0}) /\ T # {}
  BY CostsAssumption DEF TypeOK
<1>2. PICK x \in T : \A y \in T : <<y, x>> \notin Less
  <2> HIDE DEF T
  <2>1. T \in SUBSET Nat
    BY <1>1
  <2> QED BY <1>1, <2>1, LessFacts, WFMin
<1>3. \A y \in T : x <= y
  <2> TAKE y \in T
  <2>1. x \in Nat /\ y \in Nat
    BY <1>1
  <2>2. ~ (y < x)
    BY <2>1, <1>2, LessFacts
  <2> QED BY <2>1, <2>2
<1>4. \E c \in T : \A p \in Prompts : c <= cost[p]
  BY <1>2, <1>3
<1>5. LeastCost \in T /\ \A p \in Prompts : LeastCost <= cost[p]
  BY <1>4 DEF LeastCost
<1> QED BY <1>1, <1>5

\* What an entry weighs, at its last push or at a next one.
LEMMA WeightFacts ==
    ASSUME TypeOK, NEW p \in Prompts
    PROVE  /\ cost[p] \in Nat \ {0} /\ Weight(p) \in Nat
           /\ uses[p] >= 1 => LeastCost <= Weight(p)
           /\ \A t \in Nat : Priority(p, t) \in Nat
<1>1. cost[p] \in Nat \ {0} /\ uses[p] \in Nat /\ inflation \in Nat
  BY CostsAssumption DEF TypeOK
<1>2. LeastCost \in Nat \ {0} /\ LeastCost <= cost[p]
  BY LeastCostFacts
<1>3. uses[p] * cost[p] \in Nat /\ (uses[p] >= 1 => cost[p] <= uses[p] * cost[p])
  BY <1>1, TimesFacts
<1>4. \A t \in Nat : t * cost[p] \in Nat
  BY <1>1, TimesFacts
<1>5. \A t \in Nat : Priority(p, t) \in Nat
  BY <1>1, <1>4 DEF Priority
<1> QED BY <1>1, <1>2, <1>3, <1>5 DEF Weight

-----------------------------------------------------------------------------
(* The harness and the index in step.                                      *)

LEMMA InitFacts == Init => BInv
<1> SUFFICES ASSUME Init PROVE BInv
  OBVIOUS
<1>1. PICK e \in Experiments :
          policy = e.policy /\ maxsize = e.maxsize /\ workload = e.workload
  BY DEF Init
<1>2. [policy |-> policy, maxsize |-> maxsize, workload |-> workload] \in Experiments
      /\ maxsize \in Nat
  BY <1>1, SizeAssumption DEF Experiments
<1>3. Cardinality({}) = 0
  BY FS_EmptySet
<1>4. TypeOK
  BY <1>2, <1>3 DEF Init, TypeOK
<1>5. InStep /\ Counted
  BY <1>3 DEF Init, InStep, Counted
<1> QED BY <1>4, <1>5 DEF BInv

\* A push keeps the types.
LEMMA PushTypes ==
    ASSUME TypeOK, NEW p \in Prompts, NEW t \in Nat, NEW now \in Nat, Push(p, t, now)
    PROVE  /\ uses' \in [Prompts -> Nat] /\ prio' \in [Prompts -> Nat]
           /\ pushed' \in [Prompts -> Nat] /\ counter' \in [Prompts -> Nat]
          /\ age' \in [Prompts -> Nat]
<1>1. Priority(p, t) \in Nat
  BY WeightFacts
<1> HIDE DEF Priority
<1> QED BY <1>1 DEF Push, TypeOK

LEMMA HitStep ==
    ASSUME BInv, NEW p \in Prompts, Hit(p)
    PROVE  BInv'
<1> USE DEF BInv
<1>1. p \in cached
  BY DEF Hit, InStep
<1>2. uses[p] + 1 \in Nat /\ n + 1 \in Nat /\ Push(p, uses[p] + 1, n + 1)
  BY <1>1 DEF Hit, TypeOK
<1>3. /\ uses' \in [Prompts -> Nat] /\ prio' \in [Prompts -> Nat]
      /\ pushed' \in [Prompts -> Nat] /\ counter' \in [Prompts -> Nat]
      /\ age' \in [Prompts -> Nat]
  BY <1>2, PushTypes
<1>4. TypeOK'
  BY <1>1, <1>3 DEF Hit, TypeOK, config
<1>5. InStep'
  BY DEF Hit, InStep
<1>6. Cardinality(cached) \in Nat
  BY FinitePrompts DEF TypeOK
<1>7. Counted'
  BY <1>6 DEF Hit, Counted, TypeOK
<1> QED BY <1>4, <1>5, <1>7

LEMMA MissStep ==
    ASSUME BInv, NEW p \in Prompts, Miss(p)
    PROVE  BInv'
<1> USE DEF BInv
<1>1. TypeOK'
  BY DEF Miss, TypeOK, config, per
<1>2. InStep'
  BY DEF Miss, InStep, TypeOK
<1>3. Cardinality(cached) \in Nat
  BY FinitePrompts DEF TypeOK
<1>4. Counted'
  BY <1>3 DEF Miss, Counted, TypeOK
<1> QED BY <1>1, <1>2, <1>4

LEMMA PopItemStep ==
    ASSUME BInv, NEW p \in Prompts, PopItem(p)
    PROVE  BInv'
<1> USE DEF BInv
<1>1. Cardinality(cached) \in Nat /\ Cardinality(cached') = Cardinality(cached) - 1
  BY FinitePrompts, OnePrompt DEF PopItem, TypeOK
<1>2. age' \in [Prompts -> Nat]
  BY DEF PopItem, TypeOK
<1>3. inflation' \in Nat
  BY DEF PopItem, TypeOK
<1>4. Cardinality(cached') <= maxsize'
  BY <1>1, ExperimentFacts DEF PopItem, TypeOK, config
<1>5. TypeOK'
  BY <1>2, <1>3, <1>4 DEF PopItem, TypeOK, config
<1>6. InStep'
  BY DEF PopItem, InStep, TypeOK
<1>7. Counted'
  BY <1>1 DEF PopItem, Counted, TypeOK
<1> QED BY <1>5, <1>6, <1>7

LEMMA OnEvictStep ==
    ASSUME BInv, OnEvict
    PROVE  BInv'
<1> USE DEF BInv
<1>1. TypeOK'
  BY DEF OnEvict, TypeOK, config, per
<1>2. InStep'
  BY DEF OnEvict, InStep
<1>3. Counted'
  BY DEF OnEvict, Counted
<1> QED BY <1>1, <1>2, <1>3

LEMMA StoreStep ==
    ASSUME BInv, Store
    PROVE  BInv'
<1> USE DEF BInv
<1>1. pid \in Prompts /\ pid \notin cached
  BY DEF Store, InStep, TypeOK
<1>2. Cardinality(cached) \in Nat /\ Cardinality(cached') = Cardinality(cached) + 1
  BY <1>1, FinitePrompts, OnePrompt DEF Store, TypeOK
<1>3. /\ uses' \in [Prompts -> Nat] /\ prio' \in [Prompts -> Nat]
      /\ pushed' \in [Prompts -> Nat] /\ counter' \in [Prompts -> Nat]
      /\ age' \in [Prompts -> Nat]
  BY <1>1, PushTypes DEF Store, TypeOK
<1>4. Cardinality(cached') <= maxsize'
  BY <1>2, ExperimentFacts DEF Store, config
<1>5. TypeOK'
  BY <1>1, <1>3, <1>4 DEF Store, TypeOK, config
<1>6. InStep'
  BY DEF Store, InStep, TypeOK
<1>7. Counted'
  BY <1>2 DEF Store, Counted, TypeOK
<1> QED BY <1>5, <1>6, <1>7

LEMMA BStep == BInv /\ [Next]_vars => BInv'
<1> SUFFICES ASSUME BInv, [Next]_vars PROVE BInv'
  OBVIOUS
<1>1. ASSUME NEW p \in Prompts, Hit(p) PROVE BInv'
  BY <1>1, HitStep
<1>2. ASSUME NEW p \in Prompts, Miss(p) PROVE BInv'
  BY <1>2, MissStep
<1>3. ASSUME NEW p \in Prompts, PopItem(p) PROVE BInv'
  BY <1>3, PopItemStep
<1>4. CASE OnEvict
  BY <1>4, OnEvictStep
<1>5. CASE Store
  BY <1>5, StoreStep
<1>6. CASE UNCHANGED vars
  BY <1>6 DEF vars, config, per, BInv, TypeOK, InStep, Counted
<1> QED BY <1>1, <1>2, <1>3, <1>4, <1>5, <1>6 DEF Next, Done

LEMMA BInvariant == Spec => []BInv
<1>1. Init => BInv
  BY InitFacts
<1>2. BInv /\ [Next]_vars => BInv'
  BY BStep
<1> QED BY <1>1, <1>2, PTL DEF Spec

\* The harness's own set and the number of evictions it reports agree with the
\* index whenever run_one counts: what on_evict hands over in each batch, and
\* what run_one adds after put, miss nothing.
THEOREM HarnessCounts == Spec => []HarnessInStep
<1>1. BInv => HarnessInStep
  <2> SUFFICES ASSUME BInv PROVE HarnessInStep
    OBVIOUS
  <2>1. pc = "idle" => in_cache = cached /\ n - hits - Cardinality(cached) = evicted
    BY DEF BInv, InStep, Counted, TypeOK
  <2> QED BY <2>1 DEF BInv, HarnessInStep
<1> QED BY <1>1, BInvariant, PTL

-----------------------------------------------------------------------------
(* No early eviction.                                                      *)

\* Prompts stay requested, and a miss makes at most the one that is put so.
LEMMA EarlyStep == BInv /\ BInv' /\ Early /\ [Next]_vars => Early'
<1> SUFFICES ASSUME BInv, BInv', Early, [Next]_vars PROVE Early'
  OBVIOUS
<1> USE DEF BInv
<1>1. ASSUME NEW p \in Prompts, Hit(p) PROVE Early'
  <2>1. stored' = stored /\ Seen' = Seen
    BY <1>1 DEF Hit, Push, per, Seen, Requested
  <2> QED BY <1>1, <2>1 DEF Hit, Early, Requested, config
<1>2. ASSUME NEW p \in Prompts, Miss(p) PROVE Early'
  <2>1. Requested' = Requested /\ Seen = Requested /\ Seen' = Requested \cup {p}
    BY <1>2 DEF Miss, per, Seen, Requested
  <2>2. Cardinality(Seen) <= Cardinality(Seen')
    <3>1. Requested \cup {p} \in SUBSET Prompts /\ Requested \in SUBSET (Requested \cup {p})
      BY DEF Requested
    <3> QED BY <2>1, <3>1, MorePrompts
  <2>3. Cardinality(Seen) \in Nat /\ Cardinality(Seen') \in Nat /\ maxsize \in Nat
    <3>1. Seen \in SUBSET Prompts /\ Seen' \in SUBSET Prompts
      BY <2>1 DEF Requested
    <3> QED BY <3>1, FinitePrompts, ExperimentFacts
  <2>4. evicted # 0 => Cardinality(Seen') > maxsize
    BY <2>2, <2>3 DEF Early
  <2> QED BY <1>2, <2>1, <2>4 DEF Miss, Early, config
<1>3. ASSUME NEW p \in Prompts, PopItem(p) PROVE Early'
  <2>1. Requested' = Requested /\ Seen' = Seen /\ Seen = Requested \cup {pid}
    BY <1>3 DEF PopItem, Seen, Requested
  <2>2. evicted' # 0 /\ in_cache' = in_cache /\ maxsize' = maxsize
    BY <1>3 DEF PopItem, TypeOK, config
  <2>3. ASSUME evicted = 0 PROVE Cardinality(Seen) > maxsize
    <3>1. Requested = cached /\ Cardinality(cached) >= maxsize /\ pid \notin cached
      BY <1>3, <2>3 DEF PopItem, Early, InStep
    <3>2. cached \in SUBSET Prompts /\ pid \in Prompts
      BY DEF TypeOK
    <3>3. Cardinality(cached \cup {pid}) = Cardinality(cached) + 1
      BY <3>1, <3>2, OnePrompt
    <3> QED BY <2>1, <3>1, <3>2, <3>3, FinitePrompts, ExperimentFacts
  <2> QED BY <2>1, <2>2, <2>3 DEF Early
<1>4. CASE OnEvict
  <2>1. Requested' = Requested /\ Seen' = Seen
    BY <1>4 DEF OnEvict, per, Seen, Requested
  <2>2. evicted # 0
    <3>1. Cardinality({}) = 0 /\ CleanSize # 0
      BY FS_EmptySet, ExperimentFacts
    <3> QED BY <1>4, <3>1 DEF OnEvict, Early
  <2> QED BY <1>4, <2>1, <2>2 DEF OnEvict, Early, config
<1>5. CASE Store
  <2>1. Requested' = Requested \cup {pid}
    BY <1>5 DEF Store, Requested, InStep, TypeOK
  <2>2. Seen' = Seen /\ maxsize' = maxsize
    BY <1>5, <2>1 DEF Store, Seen, config
  <2> QED BY <1>5, <2>1, <2>2 DEF Store, Early
<1>6. CASE UNCHANGED vars
  BY <1>6 DEF vars, config, per, Early, Seen, Requested
<1> QED BY <1>1, <1>2, <1>3, <1>4, <1>5, <1>6 DEF Next, Done

LEMMA EarlyInvariant == Spec => []Early
<1>1. Init => Early
  BY DEF Init, Early, Requested
<1>2. BInv /\ BInv' /\ Early /\ [Next]_vars => Early'
  BY EarlyStep
<1> QED BY <1>1, <1>2, BInvariant, PTL DEF Spec

\* E5's claim for every policy: an index that holds the prompts of a workload
\* evicts none of them, and each misses once.
THEOREM EveryPromptFits == Spec => []NoEarlyEviction
<1>1. BInv /\ Early => NoEarlyEviction
  <2> SUFFICES ASSUME BInv, Early, pc = "idle", Cardinality(Requested) <= maxsize
               PROVE  evicted = 0 /\ n - hits = Cardinality(Requested)
    BY DEF NoEarlyEviction
  <2>1. Seen = Requested /\ Requested \in SUBSET Prompts
    BY DEF Seen, Requested
  <2>2. Cardinality(Requested) \in Nat /\ maxsize \in Nat
    BY <2>1, FinitePrompts, ExperimentFacts DEF BInv
  <2>3. evicted = 0
    BY <2>1, <2>2 DEF Early
  <2>4. Requested = cached
    BY <2>3 DEF Early
  <2> QED BY <2>2, <2>3, <2>4 DEF BInv, Counted, TypeOK
<1> QED BY <1>1, BInvariant, EarlyInvariant, PTL

-----------------------------------------------------------------------------
(* What the priorities say.                                                *)

\* A push of p, by a hit or by Store, concerns p only; p gets the latest time,
\* the inflation plus its new weight if the policy ages, and age 0.
LEMMA PushFacts ==
    ASSUME BInv, NEW p \in Prompts, NEW t \in Nat \ {0}, NEW now \in Nat,
           Push(p, t, now), UNCHANGED <<config, inflation>>
    PROVE  /\ \A q \in Prompts \ {p} :
                 /\ uses'[q] = uses[q] /\ prio'[q] = prio[q] /\ pushed'[q] = pushed[q]
                 /\ age'[q] = age[q] /\ Weight(q)' = Weight(q)
           /\ uses'[p] = t /\ pushed'[p] = now /\ age'[p] = 0
           /\ policy \in Aged => prio'[p] = inflation + Weight(p)'
           /\ policy = "COST_ONLY" => Weight(p)' = cost[p]
           /\ policy = "GDSF_NO_AGE" => prio'[p] = t * cost[p]
           /\ Weight(p)' \in Nat /\ LeastCost <= Weight(p)' /\ LeastCost' = LeastCost
<1> USE DEF BInv
<1>1. /\ uses'[p] = t /\ pushed'[p] = now /\ age'[p] = 0
      /\ prio'[p] = Priority(p, t)
      /\ \A q \in Prompts \ {p} :
            /\ uses'[q] = uses[q] /\ prio'[q] = prio[q] /\ pushed'[q] = pushed[q]
            /\ age'[q] = age[q]
  BY DEF Push, TypeOK
<1>2. policy' = policy /\ cost' = cost /\ inflation' = inflation
  BY DEF config
<1>3. LeastCost' = LeastCost
  BY <1>2 DEF LeastCost
<1>4. \A q \in Prompts \ {p} : Weight(q)' = Weight(q)
  BY <1>1, <1>2 DEF Weight
<1>5. Weight(p)' = IF policy = "GDSF" THEN t * cost[p] ELSE cost[p]
  BY <1>1, <1>2 DEF Weight
<1>6. /\ policy \in Aged => prio'[p] = inflation + Weight(p)'
      /\ policy = "GDSF_NO_AGE" => prio'[p] = t * cost[p]
  BY <1>1, <1>5 DEF Priority, Aged
<1>7. cost[p] \in Nat \ {0} /\ LeastCost \in Nat /\ LeastCost <= cost[p]
  BY WeightFacts, LeastCostFacts
<1>8. t * cost[p] \in Nat /\ cost[p] <= t * cost[p]
  BY <1>7, TimesFacts
<1>9. Weight(p)' \in Nat /\ LeastCost <= Weight(p)'
  BY <1>5, <1>7, <1>8
<1> QED BY <1>1, <1>3, <1>4, <1>5, <1>6, <1>9

Ranks == Pushed /\ Inflated /\ Recency /\ Frequency

\* A push of p adds it with the latest time, and the other entries had earlier
\* ones.
LEMMA RanksPush ==
    ASSUME BInv, Ranks, NEW p \in Prompts, NEW t \in Nat \ {0}, NEW now \in Nat,
           Push(p, t, now), UNCHANGED <<config, inflation>>,
           cached' = cached \cup {p}, n' = now, pc' = "idle",
           \A q \in cached \ {p} : pushed[q] < now
    PROVE  Ranks'
<1> USE DEF BInv, Ranks
<1>1. policy' = policy /\ cost' = cost /\ inflation' = inflation
  BY DEF config
<1>2. \A q \in cached \ {p} :
         /\ q \in Prompts \ {p}
         /\ uses[q] \in Nat /\ pushed[q] \in Nat /\ prio[q] \in Nat /\ Weight(q) \in Nat
  BY WeightFacts DEF TypeOK
<1>3. inflation \in Nat /\ cost[p] \in Nat
  BY WeightFacts DEF TypeOK
<1>4. Pushed'
  BY <1>2, PushFacts DEF Pushed
<1>5. Inflated'
  BY <1>1, <1>2, <1>3, PushFacts DEF Inflated
<1>6. Recency'
  <2> SUFFICES ASSUME EqualCosts, policy = "COST_ONLY"
               PROVE  /\ \A q \in cached' : prio'[q] <= inflation + cost[q]
                      /\ \A q, r \in cached' : pushed'[q] < pushed'[r] => prio'[q] <= prio'[r]
    BY <1>1 DEF Recency, EqualCosts
  <2>1. prio'[p] = inflation + cost[p] /\ pushed'[p] = now
    BY PushFacts DEF Aged
  <2>2. \A q \in cached \ {p} :
           /\ prio'[q] = prio[q] /\ pushed'[q] = pushed[q]
           /\ prio[q] <= inflation + cost[q] /\ cost[q] = cost[p]
    BY <1>2, PushFacts DEF Recency, EqualCosts
  <2>3. \A q \in cached' : prio'[q] <= inflation + cost[q]
    BY <2>1, <2>2, <1>3
  <2>4. ASSUME NEW q \in cached', NEW r \in cached', pushed'[q] < pushed'[r]
        PROVE  prio'[q] <= prio'[r]
    <3>1. CASE r = p
      BY <3>1, <2>1, <2>2, <1>3
    <3>2. CASE r # p /\ q # p
      BY <3>2, <2>2, <2>4 DEF Recency
    <3>3. CASE r # p /\ q = p
      BY <3>3, <2>1, <2>2, <2>4, <1>2
    <3> QED BY <3>1, <3>2, <3>3
  <2> QED BY <2>3, <2>4
<1>7. Frequency'
  BY <1>1, <1>2, PushFacts DEF Frequency
<1> QED BY <1>4, <1>5, <1>6, <1>7

\* Who a policy that ranks evicts.
LEMMA VictimRank ==
    ASSUME policy \in Ranked, NEW p \in cached, Victim(p)
    PROVE  \A q \in cached : prio[p] < prio[q]
                               \/ (prio[p] = prio[q] /\ counter[p] <= counter[q])
<1>1. CASE policy = "GDSF"
  BY <1>1 DEF Victim, Ranked, Aged
<1>2. CASE policy = "COST_ONLY"
  BY <1>2 DEF Victim, Ranked, Aged
<1>3. CASE policy = "GDSF_NO_AGE"
  BY <1>3 DEF Victim, Ranked, Aged
<1> QED BY <1>1, <1>2, <1>3 DEF Ranked, Aged

LEMMA RanksStep == BInv /\ Ranks /\ [Next]_vars => Ranks'
<1> SUFFICES ASSUME BInv, Ranks, [Next]_vars PROVE Ranks'
  OBVIOUS
<1> USE DEF BInv
<1>1. ASSUME NEW p \in Prompts, Hit(p) PROVE Ranks'
  <2>1. p \in cached /\ uses[p] + 1 \in Nat \ {0} /\ n + 1 \in Nat
    BY <1>1 DEF Hit, InStep, TypeOK
  <2>2. \A q \in cached \ {p} : pushed[q] < n + 1
    BY DEF Ranks, Pushed, TypeOK
  <2>3. /\ Push(p, uses[p] + 1, n + 1) /\ UNCHANGED <<config, inflation>>
        /\ cached' = cached \cup {p} /\ n' = n + 1 /\ pc' = "idle"
    BY <1>1, <2>1 DEF Hit
  <2> QED BY <2>1, <2>2, <2>3, RanksPush
<1>2. ASSUME NEW p \in Prompts, Miss(p) PROVE Ranks'
  <2>1. /\ policy' = policy /\ cost' = cost /\ inflation' = inflation /\ cached' = cached
        /\ uses' = uses /\ prio' = prio /\ pushed' = pushed /\ n' = n + 1
    BY <1>2 DEF Miss, config, per
  <2>2. Pushed'
    BY <2>1 DEF Ranks, Pushed, TypeOK
  <2>3. Inflated' /\ Recency' /\ Frequency'
    BY <2>1 DEF Ranks, Inflated, Recency, Frequency, Weight, EqualCosts
  <2> QED BY <2>2, <2>3 DEF Ranks
<1>3. ASSUME NEW p \in Prompts, PopItem(p) PROVE Ranks'
  <2>1. /\ policy' = policy /\ cost' = cost /\ cached' = cached \ {p}
        /\ uses' = uses /\ prio' = prio /\ pushed' = pushed /\ n' = n /\ pc' = pc
        /\ p \in cached /\ Victim(p)
        /\ inflation' = IF policy \in Aged THEN prio[p] ELSE 0
    BY <1>3 DEF PopItem, config
  <2>2. Pushed'
    BY <2>1 DEF Ranks, Pushed
  <2>3. policy \in Aged => \A q \in cached : prio[p] <= prio[q]
    <3>1. \A q \in cached : prio[q] \in Nat
      BY DEF TypeOK
    <3> QED BY <2>1, <3>1, VictimRank DEF Ranked
  <2>4. Inflated'
    BY <2>1, <2>3 DEF Ranks, Inflated, Weight
  <2>5. Recency'
    <3> SUFFICES ASSUME EqualCosts, policy = "COST_ONLY"
                 PROVE  /\ \A q \in cached' : prio[q] <= inflation' + cost[q]
                        /\ \A q, r \in cached' : pushed[q] < pushed[r] => prio[q] <= prio[r]
      BY <2>1 DEF Recency, EqualCosts
    <3>1. inflation' = prio[p] /\ inflation <= prio[p]
      BY <2>1 DEF Aged, Ranks, Inflated
    <3>2. \A q \in cached : prio[q] <= inflation + cost[q]
                             /\ prio[q] \in Nat /\ cost[q] \in Nat
      BY WeightFacts DEF Ranks, Recency, TypeOK
    <3> QED BY <2>1, <3>1, <3>2 DEF Ranks, Recency, TypeOK
  <2>6. Frequency'
    BY <2>1 DEF Ranks, Frequency
  <2> QED BY <2>2, <2>4, <2>5, <2>6 DEF Ranks
<1>4. CASE OnEvict
  <2>1. /\ policy' = policy /\ cost' = cost /\ inflation' = inflation /\ cached' = cached
        /\ uses' = uses /\ prio' = prio /\ pushed' = pushed /\ n' = n /\ pc' = pc
    BY <1>4 DEF OnEvict, config, per
  <2> QED BY <2>1 DEF Ranks, Pushed, Inflated, Recency, Frequency, Weight, EqualCosts
<1>5. CASE Store
  <2>1. pid \in Prompts /\ n \in Nat
    BY DEF TypeOK
  <2>2. \A q \in cached \ {pid} : pushed[q] < n
    BY <1>5 DEF Store, Ranks, Pushed
  <2>3. /\ Push(pid, 1, n) /\ UNCHANGED <<config, inflation>>
        /\ cached' = cached \cup {pid} /\ n' = n /\ pc' = "idle"
    BY <1>5 DEF Store
  <2> QED BY <2>1, <2>2, <2>3, RanksPush
<1>6. CASE UNCHANGED vars
  BY <1>6 DEF vars, config, per, Ranks, Pushed, Inflated, Recency, Frequency, Weight, EqualCosts
<1> QED BY <1>1, <1>2, <1>3, <1>4, <1>5, <1>6 DEF Next, Done

LEMMA RanksInvariant == Spec => []Ranks
<1>1. Init => Ranks
  BY DEF Init, Ranks, Pushed, Inflated, Recency, Frequency
<1>2. BInv /\ Ranks /\ [Next]_vars => Ranks'
  BY RanksStep
<1> QED BY <1>1, <1>2, BInvariant, PTL DEF Spec

\* The ablation study compares what it says, when all answers cost the same:
\* COST_ONLY never evicts an entry before one that was used longer ago, but for
\* the older of two entries that were last used at one inflation, and
\* GDSF_NO_AGE evicts one that LFU would: at every eviction of every workload.
THEOREM AblationCompares == Spec => AblationIsolates
<1> DEFINE Late(p, q) ==
        pushed[p] <= pushed[q] \/ (prio[p] = prio[q] /\ counter[p] <= counter[q])
<1> DEFINE Isolated ==
        EqualCosts =>
            \A p \in cached \ cached' : \A q \in cached :
                /\ policy = "COST_ONLY" => Late(p, q)
                /\ policy = "GDSF_NO_AGE" => uses[p] <= uses[q]
<1>1. BInv /\ Ranks /\ [Next]_vars => [Isolated]_vars
  <2> SUFFICES ASSUME BInv, Ranks, Next, EqualCosts,
                      NEW p \in cached, p \notin cached', NEW q \in cached
               PROVE  /\ policy = "COST_ONLY" => Late(p, q)
                      /\ policy = "GDSF_NO_AGE" => uses[p] <= uses[q]
    OBVIOUS
  <2> USE DEF BInv
  <2>1. Victim(p)
    BY DEF Next, Hit, Miss, PopItem, OnEvict, Store, Done, vars
  <2>2. /\ pushed[p] \in Nat /\ pushed[q] \in Nat /\ uses[p] \in Nat /\ uses[q] \in Nat
        /\ prio[p] \in Nat /\ prio[q] \in Nat
    BY DEF TypeOK
  <2>3. ASSUME policy = "COST_ONLY" PROVE Late(p, q)
    <3>1. pushed[q] < pushed[p] => prio[q] <= prio[p]
      BY <2>3 DEF Ranks, Recency
    <3>2. prio[p] < prio[q] \/ (prio[p] = prio[q] /\ counter[p] <= counter[q])
      BY <2>1, <2>3, VictimRank DEF Ranked, Aged
    <3> QED BY <2>2, <3>1, <3>2
  <2>4. ASSUME policy = "GDSF_NO_AGE" PROVE uses[p] <= uses[q]
    <3>1. prio[p] <= prio[q]
      BY <2>1, <2>2, <2>4, VictimRank DEF Ranked
    <3>2. prio[p] = uses[p] * cost[p] /\ prio[q] = uses[q] * cost[p]
      BY <2>4 DEF Ranks, Frequency, EqualCosts, TypeOK
    <3>3. cost[p] \in Nat \ {0}
      BY WeightFacts DEF TypeOK
    <3> QED BY <2>2, <3>1, <3>2, <3>3, TimesFacts
  <2> QED BY <2>2, <2>3, <2>4
<1>2. Spec => [][Isolated]_vars
  <2> HIDE DEF Isolated
  <2> QED BY <1>1, BInvariant, RanksInvariant, PTL DEF Spec
<1> QED BY <1>2 DEF AblationIsolates

-----------------------------------------------------------------------------
(* Aging.                                                                  *)

\* The priority an entry had without its weight, and its next step, are numbers.
LEMMA StepFacts ==
    ASSUME BInv, Ranks, policy \in Aged, NEW p \in cached, NEW k \in Nat
    PROVE  /\ prio[p] - Weight(p) \in Nat
           /\ k * LeastCost \in Nat
           /\ (k + 1) * LeastCost = k * LeastCost + LeastCost
           /\ (k + 1 + 1) * LeastCost = (k + 1) * LeastCost + LeastCost
           /\ (maxsize - 1) * (k + 1) \in Nat
           /\ (maxsize - 1) * (k + 1 + 1) = (maxsize - 1) * (k + 1) + (maxsize - 1)
<1> USE DEF BInv
<1>1. LeastCost \in Nat \ {0} /\ maxsize \in Nat \ {0}
  BY LeastCostFacts, ExperimentFacts
<1>2. prio[p] \in Nat /\ Weight(p) \in Nat /\ Weight(p) <= prio[p]
  BY WeightFacts DEF TypeOK, Ranks, Inflated
<1>3. prio[p] - Weight(p) \in Nat
  BY <1>2
<1>4. /\ k * LeastCost \in Nat
      /\ (k + 1) * LeastCost = k * LeastCost + LeastCost
      /\ (k + 1 + 1) * LeastCost = (k + 1) * LeastCost + LeastCost
  BY <1>1, TimesFacts
<1>5. /\ (maxsize - 1) * (k + 1) \in Nat
      /\ (maxsize - 1) * (k + 1 + 1) = (maxsize - 1) * (k + 1) + (maxsize - 1)
  BY <1>1
<1> QED BY <1>3, <1>4, <1>5

\* Of at most m prompts, at most m - 1 are others than p.
LEMMA OthersFacts ==
    ASSUME NEW C \in SUBSET Prompts, NEW m \in Nat \ {0}, Cardinality(C) <= m,
           NEW p \in C, NEW S \in SUBSET (C \ {p})
    PROVE  Cardinality(S) \in Nat /\ Cardinality(S) <= m - 1
<1>1. Cardinality(C \ {p}) = Cardinality(C) - 1
  BY OnePrompt
<1>2. Cardinality(S) <= Cardinality(C \ {p})
  BY MorePrompts
<1>3. /\ Cardinality(S) \in Nat /\ Cardinality(C) \in Nat
      /\ Cardinality(C \ {p}) \in Nat
  BY FinitePrompts
<1> QED BY <1>1, <1>2, <1>3

\* A push starts over for its prompt, and is above the next step of the others.
LEMMA AgingPush ==
    ASSUME BInv, BInv', Ranks, Ranks', Aging,
           NEW p \in Prompts, NEW t \in Nat \ {0}, NEW now \in Nat,
           Push(p, t, now), UNCHANGED <<config, inflation>>,
           cached' = cached \cup {p}
    PROVE  Aging'
<1> USE DEF BInv
<1>1. policy' = policy /\ maxsize' = maxsize /\ inflation' = inflation /\ inflation \in Nat
  BY DEF config, TypeOK
<1>2. LeastCost' = LeastCost /\ LeastCost \in Nat
  BY PushFacts, LeastCostFacts
<1>3. maxsize \in Nat \ {0}
  BY ExperimentFacts
<1> SUFFICES ASSUME policy \in Aged, NEW q \in cached' PROVE \E k \in Nat : Overtaken(q, k)'
  BY <1>1 DEF Aging
<1>4. CASE q = p
  <2>1. prio'[p] - Weight(p)' = inflation
    <3>1. prio'[p] = inflation + Weight(p)' /\ Weight(p)' \in Nat
      BY PushFacts
    <3> QED BY <1>1, <3>1
  <2>2. age'[p] = 0
    BY PushFacts
  <2> DEFINE B == Below(p, prio[p] - Weight(p) + (0 + 1) * LeastCost)
  <2>3. Cardinality(B') \in Nat /\ Cardinality(B') <= maxsize - 1
    <3>1. p \in cached' /\ cached' \in SUBSET Prompts /\ Cardinality(cached') <= maxsize
      BY <1>1 DEF TypeOK
    <3>2. B' \in SUBSET (cached' \ {p})
      BY DEF Below
    <3> HIDE DEF B
    <3> QED BY <1>3, <3>1, <3>2, OthersFacts
  <2>4. Overtaken(p, 0)'
    <3>1. inflation' >= (prio[p] - Weight(p))' + 0 * LeastCost'
      BY <1>1, <1>2, <2>1
    <3>2. age'[p] + Cardinality(B') <= (maxsize' - 1) * (0 + 1)
      BY <1>1, <1>3, <2>2, <2>3
    <3> QED BY <3>1, <3>2 DEF Overtaken
  <2> QED BY <1>4, <2>4
<1>5. CASE q # p
  <2>1. q \in cached /\ q \in Prompts \ {p}
    BY <1>5 DEF TypeOK
  <2>2. PICK k \in Nat : Overtaken(q, k)
    BY <2>1 DEF Aging
  <2>3. prio'[q] = prio[q] /\ Weight(q)' = Weight(q) /\ age'[q] = age[q]
    BY <2>1, PushFacts
  <2> DEFINE bar == prio[q] - Weight(q) + (k + 1) * LeastCost
  <2>4. bar' = bar
    BY <1>2, <2>3
  <2>5. prio'[p] >= bar
    <3>1. prio'[p] = inflation + Weight(p)' /\ Weight(p)' \in Nat /\ LeastCost <= Weight(p)'
      BY PushFacts
    <3>2. inflation >= prio[q] - Weight(q) + k * LeastCost
      BY <2>2 DEF Overtaken
    <3> QED BY <3>1, <3>2, <2>1, StepFacts, <1>1, <1>2
  <2>6. bar \in Nat
    BY <2>1, StepFacts, <1>2
  <2> DEFINE B == Below(q, bar)
  <2>7. B' \subseteq B
    <3>1. \A r \in cached \ {p} : prio'[r] = prio[r]
      BY PushFacts DEF TypeOK
    <3>2. prio'[p] \in Nat
      BY DEF TypeOK
    <3>3. p \notin B'
      <4>1. ~ (prio'[p] < bar)
        BY <2>5, <2>6, <3>2
      <4> HIDE DEF bar
      <4> QED BY <4>1, <2>4 DEF Below
    <3> HIDE DEF bar
    <3> QED BY <3>1, <3>3, <2>4 DEF Below
  <2>8. Cardinality(B') <= Cardinality(B) /\ Cardinality(B) \in Nat /\ Cardinality(B') \in Nat
    <3>1. B \in SUBSET Prompts
      BY DEF Below, TypeOK
    <3> HIDE DEF B
    <3> QED BY <2>7, <3>1, MorePrompts, FinitePrompts
  <2>9. age[q] + Cardinality(B) <= (maxsize - 1) * (k + 1)
    BY <2>2 DEF Overtaken
  <2>10. age[q] \in Nat /\ (maxsize - 1) * (k + 1) \in Nat
    BY <2>1, StepFacts DEF TypeOK
  <2>11. age'[q] + Cardinality(B') <= (maxsize' - 1) * (k + 1)
    <3> HIDE DEF B
    <3> QED BY <1>1, <2>3, <2>8, <2>9, <2>10
  <2>12. inflation' >= prio'[q] - Weight(q)' + k * LeastCost'
    BY <1>1, <1>2, <2>2, <2>3 DEF Overtaken
  <2>13. Overtaken(q, k)'
    BY <2>11, <2>12 DEF Overtaken
  <2> QED BY <2>13
<1> QED BY <1>4, <1>5

\* An eviction takes an entry below the next step of p, or there is none left
\* and the inflation reaches that step.
LEMMA AgingPop ==
    ASSUME BInv, Ranks, Aging, NEW v \in Prompts, PopItem(v)
    PROVE  Aging'
<1> USE DEF BInv
<1>1. /\ policy' = policy /\ maxsize' = maxsize /\ cost' = cost /\ uses' = uses /\ prio' = prio
      /\ v \in cached /\ cached' = cached \ {v} /\ Victim(v)
      /\ policy \in Aged => inflation' = prio[v]
      /\ \A q \in cached' : age'[q] = age[q] + 1
  BY DEF PopItem, config, TypeOK
<1>2. LeastCost' = LeastCost /\ LeastCost \in Nat /\ maxsize \in Nat \ {0}
  BY <1>1, LeastCostFacts, ExperimentFacts DEF LeastCost
<1> SUFFICES ASSUME policy \in Aged, NEW q \in cached' PROVE \E k \in Nat : Overtaken(q, k)'
  BY <1>1 DEF Aging
<1>3. q \in cached /\ q # v /\ Weight(q)' = Weight(q) /\ age[q] \in Nat
  BY <1>1 DEF Weight, TypeOK
<1>4. \A r \in cached : prio[r] \in Nat /\ prio[v] <= prio[r]
  <2>1. \A r \in cached : prio[r] \in Nat
    BY DEF TypeOK
  <2> QED BY <1>1, <2>1, VictimRank DEF Ranked
<1>5. inflation <= prio[v] /\ inflation \in Nat
  BY <1>1 DEF Ranks, Inflated, TypeOK
<1>6. PICK k \in Nat : Overtaken(q, k)
  BY <1>3 DEF Aging
<1> DEFINE base == prio[q] - Weight(q)
           bar == base + (k + 1) * LeastCost
           B == Below(q, bar)
           D == Below(q, base + (k + 1 + 1) * LeastCost)
<1>7. base' = base /\ bar' = bar
  BY <1>1, <1>2, <1>3
<1>8. /\ base \in Nat /\ bar \in Nat /\ k * LeastCost \in Nat
      /\ bar = base + k * LeastCost + LeastCost
      /\ (maxsize - 1) * (k + 1) \in Nat
      /\ (maxsize - 1) * (k + 1 + 1) = (maxsize - 1) * (k + 1) + (maxsize - 1)
  BY <1>2, <1>3, StepFacts
<1>9. inflation >= base + k * LeastCost /\ age[q] + Cardinality(B) <= (maxsize - 1) * (k + 1)
  BY <1>6 DEF Overtaken
<1>10. B \in SUBSET Prompts /\ Cardinality(B) \in Nat
  <2>1. B \in SUBSET Prompts
    BY DEF Below, TypeOK
  <2> HIDE DEF B
  <2> QED BY <2>1, FinitePrompts
<1>11. CASE prio[v] < bar
  <2>1. B' = B \ {v} /\ v \in B
    <3> HIDE DEF bar
    <3> QED BY <1>1, <1>3, <1>7, <1>11 DEF Below
  <2>2. Cardinality(B') = Cardinality(B) - 1
    <3> HIDE DEF B
    <3> QED BY <2>1, <1>10, OnePrompt
  <2>3. inflation' >= base' + k * LeastCost'
    <3> HIDE DEF base
    <3> QED BY <1>1, <1>2, <1>4, <1>5, <1>7, <1>8, <1>9
  <2>4. age'[q] + Cardinality(B') <= (maxsize' - 1) * (k + 1)
    <3> HIDE DEF B
    <3> QED BY <1>1, <1>3, <1>8, <1>9, <1>10, <2>2
  <2>5. Overtaken(q, k)'
    BY <2>3, <2>4 DEF Overtaken
  <2> QED BY <2>5
<1>12. CASE prio[v] >= bar
  <2>1. inflation' >= base' + (k + 1) * LeastCost'
    <3>1. bar' = base' + (k + 1) * LeastCost'
      OBVIOUS
    <3> HIDE DEF bar
    <3> QED BY <1>1, <1>7, <1>12, <3>1
  <2>2. age[q] <= (maxsize - 1) * (k + 1)
    <3> HIDE DEF B
    <3> QED BY <1>3, <1>8, <1>9, <1>10
  <2>3. Cardinality(D') \in Nat /\ Cardinality(D') <= maxsize - 1 - 1
    <3>1. /\ cached \in SUBSET Prompts /\ cached' \in SUBSET Prompts
          /\ Cardinality(cached) <= maxsize
      BY <1>1 DEF TypeOK
    <3>2. /\ Cardinality(cached') = Cardinality(cached) - 1
          /\ Cardinality(cached \ {q}) = Cardinality(cached) - 1
          /\ Cardinality(cached) \in Nat /\ Cardinality(cached') \in Nat
      BY <1>1, <1>3, <3>1, OnePrompt, FinitePrompts
    <3>3. Cardinality(cached' \ {q}) = Cardinality(cached') - 1
      BY <3>1, OnePrompt
    <3>4. D' \in SUBSET (cached' \ {q}) /\ cached' \ {q} \in SUBSET Prompts
      BY <3>1 DEF Below
    <3> HIDE DEF D
    <3>5. Cardinality(D') <= Cardinality(cached' \ {q}) /\ Cardinality(D') \in Nat
      BY <3>1, <3>4, MorePrompts, FinitePrompts
    <3> QED BY <1>2, <3>1, <3>2, <3>3, <3>5
  <2>4. age'[q] + Cardinality(D') <= (maxsize' - 1) * (k + 1 + 1)
    <3> HIDE DEF D
    <3> QED BY <1>1, <1>2, <1>3, <1>8, <2>2, <2>3
  <2>5. Overtaken(q, k + 1)'
    BY <2>1, <2>4 DEF Overtaken
  <2> QED BY <2>5
<1>13. prio[v] \in Nat
  BY <1>1, <1>4
<1> HIDE DEF bar
<1> QED BY <1>8, <1>11, <1>12, <1>13

LEMMA AgingStep == BInv /\ BInv' /\ Ranks /\ Ranks' /\ Aging /\ [Next]_vars => Aging'
<1> SUFFICES ASSUME BInv, BInv', Ranks, Ranks', Aging, [Next]_vars PROVE Aging'
  OBVIOUS
<1>1. ASSUME NEW p \in Prompts, Hit(p) PROVE Aging'
  <2>1. p \in cached /\ uses[p] + 1 \in Nat \ {0} /\ n + 1 \in Nat
    BY <1>1 DEF Hit, BInv, InStep, TypeOK
  <2>2. /\ Push(p, uses[p] + 1, n + 1) /\ UNCHANGED <<config, inflation>>
        /\ cached' = cached \cup {p}
    BY <1>1, <2>1 DEF Hit
  <2> QED BY <2>1, <2>2, AgingPush
<1>2. ASSUME NEW p \in Prompts, PopItem(p) PROVE Aging'
  BY <1>2, AgingPop
<1>3. CASE Store
  <2>1. pid \in Prompts /\ n \in Nat
    BY DEF BInv, TypeOK
  <2>2. /\ Push(pid, 1, n) /\ UNCHANGED <<config, inflation>>
        /\ cached' = cached \cup {pid}
    BY <1>3 DEF Store
  <2> QED BY <2>1, <2>2, AgingPush
<1>4. CASE (\E p \in Prompts : Miss(p)) \/ OnEvict \/ UNCHANGED vars
  <2>1. /\ policy' = policy /\ maxsize' = maxsize /\ cost' = cost /\ cached' = cached
        /\ inflation' = inflation /\ uses' = uses /\ prio' = prio /\ age' = age
    BY <1>4 DEF Miss, OnEvict, vars, config, per
  <2>2. LeastCost' = LeastCost
    BY <2>1 DEF LeastCost
  <2> QED BY <2>1, <2>2 DEF Aging, Overtaken, Below, Weight
<1> QED BY <1>1, <1>2, <1>3, <1>4 DEF Next, Done

LEMMA AgingInvariant == Spec => []Aging
<1>1. Init => Aging
  BY DEF Init, Aging
<1>2. BInv /\ BInv' /\ Ranks /\ Ranks' /\ Aging /\ [Next]_vars => Aging'
  BY AgingStep
<1> QED BY <1>1, <1>2, BInvariant, RanksInvariant, PTL DEF Spec

\* "Entries that were popular long ago but are not accessed anymore eventually
\* fall below newly inserted entries": GDSF and COST_ONLY evict an entry that
\* is not used any more after at most (maxsize - 1) * (weight / least cost + 1)
\* evictions of others, in every workload of any length.
THEOREM StaleEntriesLeave == Spec => []StaleEntriesAgeOut
<1>1. BInv /\ Ranks /\ Aging => StaleEntriesAgeOut
  <2> SUFFICES ASSUME BInv, Ranks, Aging, policy \in Aged, NEW p \in cached
               PROVE  age[p] <= (maxsize - 1) * ((Weight(p) \div LeastCost) + 1)
    BY DEF StaleEntriesAgeOut
  <2> USE DEF BInv
  <2>1. PICK k \in Nat : Overtaken(p, k)
    BY DEF Aging
  <2> DEFINE W == Weight(p)
             w == W \div LeastCost
             B == Below(p, prio[p] - W + (k + 1) * LeastCost)
  <2>2. /\ W \in Nat /\ LeastCost \in Nat \ {0} /\ maxsize \in Nat \ {0}
        /\ prio[p] \in Nat /\ inflation \in Nat /\ inflation <= prio[p] /\ age[p] \in Nat
    BY WeightFacts, LeastCostFacts, ExperimentFacts DEF TypeOK, Ranks, Inflated
  <2>3. k * LeastCost <= W
    <3>1. inflation >= prio[p] - W + k * LeastCost /\ k * LeastCost \in Nat
      BY <2>1, StepFacts DEF Overtaken
    <3> HIDE DEF W
    <3> QED BY <2>2, <3>1
  <2>4. w \in Nat /\ W < (w + 1) * LeastCost
    <3> HIDE DEF W
    <3>1. w \in Nat /\ W = LeastCost * w + (W % LeastCost) /\ W % LeastCost < LeastCost
          /\ W % LeastCost \in Nat
      BY <2>2
    <3> HIDE DEF w
    <3>2. (w + 1) * LeastCost = LeastCost * w + LeastCost /\ LeastCost * w \in Nat
      BY <2>2, <3>1
    <3> QED BY <2>2, <3>1, <3>2
  <2>5. k <= w
    <3> HIDE DEF W, w
    <3>1. ASSUME w + 1 <= k PROVE FALSE
      <4>1. (k - (w + 1)) * LeastCost \in Nat
        BY <2>2, <2>4, <3>1
      <4>2. (k - (w + 1)) * LeastCost = k * LeastCost - (w + 1) * LeastCost
        BY <2>2, <2>4
      <4>3. k * LeastCost \in Nat /\ (w + 1) * LeastCost \in Nat
        BY <2>2, <2>4
      <4> QED BY <2>2, <2>3, <2>4, <4>1, <4>2, <4>3
    <3> QED BY <2>4, <3>1
  <2>6. age[p] + Cardinality(B) <= (maxsize - 1) * (k + 1)
    BY <2>1 DEF Overtaken
  <2>7. Cardinality(B) \in Nat
    <3>1. B \in SUBSET Prompts
      BY DEF Below, TypeOK
    <3> HIDE DEF B
    <3> QED BY <3>1, FinitePrompts
  <2>8. (maxsize - 1) * (k + 1) <= (maxsize - 1) * (w + 1)
    <3> HIDE DEF w
    <3>1. maxsize - 1 \in Nat /\ k + 1 \in Nat /\ w + 1 \in Nat /\ k + 1 <= w + 1
      BY <2>2, <2>4, <2>5
    <3> QED BY <3>1, ProductGrows
  <2>9. (maxsize - 1) * (k + 1) \in Nat /\ (maxsize - 1) * (w + 1) \in Nat
    <3> HIDE DEF w
    <3> QED BY <2>2, <2>4
  <2> HIDE DEF w, B
  <2>10. age[p] <= (maxsize - 1) * (w + 1)
    BY <2>2, <2>6, <2>7, <2>8, <2>9
  <2> QED BY <2>10 DEF w
<1> QED BY <1>1, BInvariant, RanksInvariant, AgingInvariant, PTL
=============================================================================
