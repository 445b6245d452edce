----------------------------- MODULE Benchmarks -----------------------------
(***************************************************************************)
(* The benchmark harness (benchmarks/run_bench.py) that replays a workload *)
(* over the eviction index, with the policies of the experiments           *)
(* (run_experiments.py): cachetools' LRU, LFU, FIFO and RR, GDSF, and the  *)
(* two variants of the ablation study (ablation.py).                       *)
(*                                                                         *)
(* Every entry has size 1.  The index is taken as the set of its entries,  *)
(* which is what GDSFCache with its lazy heap implements (PriorityCache),  *)
(* with the tie-break of the heap: popitem takes any tuple of a key that   *)
(* has its priority, so a tie goes to the oldest such tuple, also when the *)
(* same priority was pushed again by a later hit.  Times and rates are     *)
(* left out, the counts they are made from are kept.                       *)
(***************************************************************************)
EXTENDS Integers, FiniteSets

CONSTANTS
    Prompts,        \* prompt ids
    Costs,          \* tokens of an answer
    MaxSizes,       \* values of maxsize in a size sweep
    FixedSize,      \* maxsize of the experiments that have only one
    Few,            \* n_unique of repetitive_short_workload
    CleanPercent,   \* clean_ratio, in percent
    MaxRequests     \* bound: requests in a workload

\* --policies, and the keys of ABLATION_POLICIES
BuiltIn == {"LRU", "LFU", "FIFO", "RR", "GDSF"}
Ablation == {"LRU", "LFU", "COST_ONLY", "GDSF_NO_AGE", "GDSF"}
Aged == {"GDSF", "COST_ONLY"}
Ranked == Aged \cup {"GDSF_NO_AGE"}

\* The experiments of main: size sweeps over synthetic and real costs (E1, E6),
\* the skew sweep (E2), the ablation (E3), the overhead without hits (E4), and
\* the sanity check (E5)
Experiments ==
    [policy : BuiltIn \cup Ablation, maxsize : MaxSizes, workload : {"zipf"}]
        \cup [policy : {"LRU", "LFU", "GDSF"}, maxsize : {FixedSize},
              workload : {"zipf", "novel_long"}]
        \cup [policy : BuiltIn, maxsize : {FixedSize}, workload : {"repetitive_short"}]

ASSUME PromptsAssumption == IsFiniteSet(Prompts)
ASSUME CostsAssumption == Costs \subseteq Nat \ {0}
ASSUME SizeAssumption ==
    MaxSizes \cup {FixedSize, Few} \subseteq Nat \ {0} /\ Few <= FixedSize
ASSUME LimitsAssumption == CleanPercent \in 0..100 /\ MaxRequests \in Nat

VARIABLES
    policy,         \* the policy under test
    maxsize,        \* the size of the index
    workload,       \* the generator of the requests
    cost,           \* prompt -> its cost, fixed in a workload
    cached,         \* prompts in the index
    uses,           \* prompt -> _freq, or LFU's counter
    prio,           \* prompt -> _prio
    pushed,         \* prompt -> when it was last used
    counter,        \* prompt -> when the oldest tuple with its _prio was pushed
    stored,         \* prompt -> when it was stored
    inflation,      \* _inflation
    pc,             \* where run_one is
    pid,            \* the prompt that is put
    popped,         \* keys of popitem_wrapper
    in_cache,       \* run_one's own set of cached ids
    n, hits,        \* requests and hits so far
    evicted,        \* auxiliary: evictions so far
    age             \* auxiliary: prompt -> evictions since it was last pushed

config == <<policy, maxsize, workload, cost>>
per == <<uses, prio, pushed, counter, stored, age>>
vars == <<config, cached, per, inflation, pc, pid, popped, in_cache, n, hits, evicted>>

\* max(1, int(maxsize * clean_ratio))
CleanSize == IF maxsize * CleanPercent < 100 THEN 1 ELSE (maxsize * CleanPercent) \div 100

\* Prompts that were requested
Requested == {p \in Prompts : stored[p] # 0}

\* What a workload may request next: new prompts only, or few, or in any order
\* (by Zipf's law, with or without drift)
MayRequest(p) ==
    /\ workload = "novel_long" => p \notin Requested
    /\ workload = "repetitive_short" => Cardinality(Requested \cup {p}) <= Few

\* Any costs, which the generators draw per prompt
Init ==
    /\ \E e \in Experiments :
          policy = e.policy /\ maxsize = e.maxsize /\ workload = e.workload
    /\ cost \in [Prompts -> Costs]
    /\ cached = {} /\ in_cache = {} /\ popped = {}
    /\ uses = [p \in Prompts |-> 0] /\ prio = [p \in Prompts |-> 0]
    /\ pushed = [p \in Prompts |-> 0] /\ stored = [p \in Prompts |-> 0]
    /\ counter = [p \in Prompts |-> 0] /\ age = [p \in Prompts |-> 0]
    /\ inflation = 0 /\ n = 0 /\ hits = 0 /\ evicted = 0
    /\ pc = "idle" /\ pid \in Prompts

-----------------------------------------------------------------------------
(* The policies.                                                           *)

\* Mutant: the inflation is missing everywhere
PriorityWithoutL(p, times) == IF policy = "COST_ONLY" THEN cost[p] ELSE times * cost[p]

\* Mutant: the frequency is left in
PriorityWithFrequency(p, times) ==
    CASE policy \in Aged          -> inflation + times * cost[p]
      [] policy = "GDSF_NO_AGE"   -> times * cost[p]
      [] OTHER                    -> 0

\* The priority _push gives, in GDSFCache, CostOnlyCache and NoAgingGDSFCache
Priority(p, times) ==
    CASE policy = "GDSF"          -> inflation + times * cost[p]
      [] policy = "COST_ONLY"     -> inflation + cost[p]
      [] policy = "GDSF_NO_AGE"   -> times * cost[p]
      [] OTHER                    -> 0

\* The tuple of an earlier push of a cached prompt still counts when its
\* priority is pushed again.  (A priority from before an eviction is not: GDSF
\* and COST_ONLY store at a higher inflation, and without aging a prompt has
\* one tuple of each priority, which popitem took.)
Push(p, times, now) ==
    /\ uses' = [uses EXCEPT ![p] = times]
    /\ prio' = [prio EXCEPT ![p] = Priority(p, times)]
    /\ pushed' = [pushed EXCEPT ![p] = now]
    /\ counter' = [counter EXCEPT ![p] =
                      IF p \in cached /\ Priority(p, times) = prio[p] THEN @ ELSE now]
    /\ age' = [age EXCEPT ![p] = 0]

\* popitem of the policy may choose p
Victim(p) ==
    CASE policy = "LRU"    -> \A q \in cached : pushed[p] <= pushed[q]
      [] policy = "LFU"    -> \A q \in cached : uses[p] <= uses[q]
      [] policy = "FIFO"   -> \A q \in cached : stored[p] <= stored[q]
      [] policy = "RR"     -> TRUE
      [] policy \in Ranked ->
            \A q \in cached : prio[p] < prio[q]
                                \/ (prio[p] = prio[q] /\ counter[p] <= counter[q])

-----------------------------------------------------------------------------
(* run_one.                                                                *)

\* pid in in_cache: cache.get(pid)
Hit(p) ==
    /\ pc = "idle" /\ n < MaxRequests
    /\ p \in in_cache /\ MayRequest(p)
    /\ n' = n + 1 /\ hits' = hits + 1
    /\ IF p \in cached THEN Push(p, uses[p] + 1, n + 1) /\ UNCHANGED stored
       ELSE UNCHANGED per
    /\ UNCHANGED <<config, cached, inflation, pc, pid, popped, in_cache, evicted>>

\* A miss: cache.put([pid])
Miss(p) ==
    /\ pc = "idle" /\ n < MaxRequests
    /\ p \notin in_cache /\ MayRequest(p)
    /\ n' = n + 1
    /\ pid' = p
    /\ pc' = "loop"
    /\ UNCHANGED <<config, cached, per, inflation, popped, in_cache, hits, evicted>>

\* Mutant: a place is kept free
PopItemEarly(p) ==
    /\ pc = "loop" /\ Cardinality(popped) < CleanSize
    /\ popped # {} \/ Cardinality(cached) >= maxsize - 1
    /\ p \in cached /\ Victim(p)
    /\ cached' = cached \ {p}
    /\ popped' = popped \cup {p}
    /\ inflation' = IF policy \in Aged THEN prio[p] ELSE 0
    /\ evicted' = evicted + 1
    /\ age' = [q \in Prompts |-> IF q \in cached' THEN age[q] + 1 ELSE 0]
    /\ UNCHANGED <<config, uses, prio, pushed, counter, stored, pc, pid, in_cache, n, hits>>

\* popitem_wrapper: clean_size times popitem, which sets the inflation;
\* NoAgingGDSFCache resets it
PopItem(p) ==
    /\ pc = "loop" /\ Cardinality(popped) < CleanSize
    /\ popped # {} \/ Cardinality(cached) >= maxsize
    /\ p \in cached /\ Victim(p)
    /\ cached' = cached \ {p}
    /\ popped' = popped \cup {p}
    /\ inflation' = IF policy \in Aged THEN prio[p] ELSE 0
    /\ evicted' = evicted + 1
    /\ age' = [q \in Prompts |-> IF q \in cached' THEN age[q] + 1 ELSE 0]
    /\ UNCHANGED <<config, uses, prio, pushed, counter, stored, pc, pid, in_cache, n, hits>>

\* Mutant: one key of the batch is not handed over
OnEvictDropsOne ==
    /\ pc = "loop" /\ Cardinality(popped) = CleanSize
    /\ in_cache' = in_cache \ (popped \ {CHOOSE p \in popped : TRUE})
    /\ popped' = {}
    /\ UNCHANGED <<config, cached, per, inflation, pc, pid, n, hits, evicted>>

\* on_evict
OnEvict ==
    /\ pc = "loop" /\ Cardinality(popped) = CleanSize
    /\ in_cache' = in_cache \ popped
    /\ popped' = {}
    /\ UNCHANGED <<config, cached, per, inflation, pc, pid, n, hits, evicted>>

\* The entry is stored, put returns, in_cache.add(pid)
Store ==
    /\ pc = "loop" /\ popped = {} /\ Cardinality(cached) < maxsize
    /\ cached' = cached \cup {pid}
    /\ in_cache' = in_cache \cup {pid}
    /\ Push(pid, 1, n)
    /\ stored' = [stored EXCEPT ![pid] = n]
    /\ pc' = "idle"
    /\ UNCHANGED <<config, inflation, pid, popped, n, hits, evicted>>

\* The workload is replayed
Done ==
    /\ pc = "idle"
    /\ n = MaxRequests \/ ~\E p \in Prompts : MayRequest(p)
    /\ UNCHANGED vars

Next ==
    \/ \E p \in Prompts : Hit(p) \/ Miss(p) \/ PopItem(p)
    \/ OnEvict \/ Store
    \/ Done

Spec == Init /\ [][Next]_vars

-----------------------------------------------------------------------------
(* Properties.                                                             *)

\* Types; the index never exceeds maxsize.
TypeOK ==
    /\ [policy |-> policy, maxsize |-> maxsize, workload |-> workload] \in Experiments
    /\ cost \in [Prompts -> Costs]
    /\ cached \subseteq Prompts /\ Cardinality(cached) <= maxsize
    /\ uses \in [Prompts -> Nat] /\ prio \in [Prompts -> Nat]
    /\ pushed \in [Prompts -> Nat] /\ stored \in [Prompts -> Nat]
    /\ counter \in [Prompts -> Nat]
    /\ inflation \in Nat /\ pc \in {"idle", "loop"} /\ pid \in Prompts
    /\ popped \subseteq Prompts /\ in_cache \subseteq Prompts
    /\ n \in Nat /\ hits \in Nat /\ evicted \in Nat /\ age \in [Prompts -> Nat]

\* The harness decides on a hit by a set of its own, which only on_evict
\* keeps in step with the index, and derives the number of evictions it
\* reports from it: both agree with the index whenever run_one counts.
\* (Types first.)
HarnessInStep ==
    /\ TypeOK
    /\ pc = "idle" =>
          /\ in_cache = cached
          /\ n - hits - Cardinality(in_cache) = evicted

\* As long as no more prompts were requested than the index holds, each misses
\* once and nothing is evicted, whatever the policy: E5, in which "every policy
\* must be ~100% hits".
NoEarlyEviction ==
    pc = "idle" /\ Cardinality(Requested) <= maxsize =>
        evicted = 0 /\ n - hits = Cardinality(Requested)

EqualCosts == \A p, q \in Prompts : cost[p] = cost[q]

\* What is left of GDSF in the ablated policies, when all costs are equal.
\* Without frequency it is recency, but only as fine as the inflation: COST_ONLY
\* evicts an entry that was used later than another only if both have one
\* priority, that is, were last used at one inflation, and then the one that
\* came to it first (LRU would keep it: a hit at the same inflation changes
\* nothing).  Without aging it is frequency: GDSF_NO_AGE evicts what LFU would.
AblationIsolates ==
    [][EqualCosts =>
          \A p \in cached \ cached' : \A q \in cached :
              /\ policy = "COST_ONLY" =>
                    pushed[p] <= pushed[q] \/ (prio[p] = prio[q] /\ counter[p] <= counter[q])
              /\ policy = "GDSF_NO_AGE" => uses[p] <= uses[q]]_vars

LeastCost == CHOOSE c \in {cost[p] : p \in Prompts} : \A p \in Prompts : c <= cost[p]
Weight(p) == IF policy = "GDSF" THEN uses[p] * cost[p] ELSE cost[p]

\* An entry that is not accessed any more is overtaken ("entries that were
\* popular long ago but are not accessed anymore eventually fall below newly
\* inserted entries"): the inflation grows by the least cost with every
\* maxsize - 1 evictions of other entries, so the entry survives a number of
\* evictions that its last priority bounds.  So does COST_ONLY, and
\* GDSF_NO_AGE does not.
StaleEntriesAgeOut ==
    policy \in Aged =>
        \A p \in cached : age[p] <= (maxsize - 1) * ((Weight(p) \div LeastCost) + 1)
=============================================================================
