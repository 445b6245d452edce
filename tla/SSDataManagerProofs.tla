------------------------- MODULE SSDataManagerProofs -------------------------
(***************************************************************************)
(* The eviction index and the question table agree, a row stays live while *)
(* its id is put, and the marked rows stay within the limits, for any      *)
(* number of threads, saves, crashes and store calls that raise, and for   *)
(* any clean_size.  With one thread at a time, a vector never leads to     *)
(* another question's row, and what flush wrote stays findable.            *)
(*                                                                         *)
(* The argument for the index: every live row has at most one owner, the   *)
(* eviction index or a running call that will put its id or mark it.  Ids  *)
(* move from one owner to another, a call only marks rows it owns, and a   *)
(* new id is one the table does not have.  The arguments for the vectors   *)
(* and for the limits are at the head of their parts.                      *)
(***************************************************************************)
EXTENDS SSDataManager, FiniteSetTheorems, SequenceTheorems, NaturalsInduction, TLAPS

-----------------------------------------------------------------------------
(* The inductive invariant.                                                *)

\* No id occurs twice in the list.
Distinct(s) == \A j, k \in DOMAIN s : s[j][1] = s[k][1] => j = k

\* Each save adds at most one to the largest id.
IdsBounded == DOMAIN rows \subseteq 1..saves

\* Where a call has keys: victims, or the ids of marked rows.
Holding == {"pop", "mark", "clear", "vdelete"}

\* Live rows have one owner, and none only after an exception.
RowsOwned ==
    /\ tracked \subseteq Live
    /\ \A t \in Threads : InFlight(t) \subseteq Live \ tracked
    /\ \A t, u \in Threads : t # u => InFlight(t) \cap InFlight(u) = {}
    /\ \A t \in Threads : Distinct(items[t])
    /\ \A t \in Threads : pc[t] \in {"pop", "mark"} => keys[t] \cap IdsOf(items[t]) = {}
    /\ \A t \in Threads : pc[t] \notin Holding => keys[t] = {}
    /\ Live \subseteq tracked \cup leaked \cup UNION {InFlight(t) : t \in Threads}

\* No restart begins or fails while a call of this process flushes or runs.
BootFirst ==
    /\ booting => \A t \in Threads : pc[t] # "flush"
    /\ Broken => \A t \in Threads : pc[t] = "idle"

DMInv == TypeOK /\ IdsBounded /\ RowsOwned /\ BootFirst

-----------------------------------------------------------------------------
(* Sequences and numbers.                                                  *)

\* What is left of a list of distinct ids when its head is taken.
LEMMA HeadTailIds ==
    ASSUME NEW s \in Seq(Pair), s # <<>>, Distinct(s)
    PROVE  /\ Head(s) \in Pair /\ Head(s)[1] \in Nat
           /\ Tail(s) \in Seq(Pair)
           /\ Head(s)[1] \in IdsOf(s)
           /\ IdsOf(Tail(s)) = IdsOf(s) \ {Head(s)[1]}
           /\ Distinct(Tail(s))
<1>1. /\ Len(s) \in Nat \ {0} /\ DOMAIN s = 1..Len(s)
      /\ \A j \in 1..Len(s) : s[j] \in Pair
  BY LenProperties, EmptySeq, ElementOfSeq
<1>2. /\ Tail(s) \in Seq(Pair)
      /\ Len(Tail(s)) = Len(s) - 1
      /\ \A j \in 1..Len(Tail(s)) : Tail(s)[j] = s[j + 1]
  BY HeadTailProperties
<1>3. Head(s) = s[1]
  OBVIOUS
<1>4. DOMAIN Tail(s) = 1..(Len(s) - 1)
  BY <1>2, LenProperties
<1>5. Head(s)[1] \in IdsOf(s)
  BY <1>1, <1>3 DEF IdsOf, Range
<1>6. IdsOf(Tail(s)) = IdsOf(s) \ {Head(s)[1]}
  <2>1. ASSUME NEW i \in IdsOf(Tail(s)) PROVE i \in IdsOf(s) \ {Head(s)[1]}
    <3>1. PICK j \in 1..(Len(s) - 1) : i = s[j + 1][1]
      BY <2>1, <1>2, <1>4 DEF IdsOf, Range
    <3>2. j + 1 \in DOMAIN s /\ 1 \in DOMAIN s /\ j + 1 # 1
      BY <1>1, <3>1
    <3> QED BY <3>1, <3>2, <1>3 DEF IdsOf, Range, Distinct
  <2>2. ASSUME NEW i \in IdsOf(s), i # Head(s)[1] PROVE i \in IdsOf(Tail(s))
    <3>1. PICK j \in 1..Len(s) : i = s[j][1]
      BY <1>1 DEF IdsOf, Range
    <3>2. j # 1
      BY <3>1, <2>2, <1>3
    <3>3. j - 1 \in 1..(Len(s) - 1) /\ Tail(s)[j - 1] = s[j]
      BY <1>1, <1>2, <3>1, <3>2
    <3> QED BY <3>1, <3>3, <1>4 DEF IdsOf, Range
  <2> QED BY <2>1, <2>2
<1>7. Distinct(Tail(s))
  <2> SUFFICES ASSUME NEW j \in 1..(Len(s) - 1), NEW k \in 1..(Len(s) - 1),
                      Tail(s)[j][1] = Tail(s)[k][1]
               PROVE  j = k
    BY <1>4 DEF Distinct
  <2>1. s[j + 1][1] = s[k + 1][1] /\ j + 1 \in DOMAIN s /\ k + 1 \in DOMAIN s
    BY <1>1, <1>2
  <2>2. j + 1 = k + 1
    BY <2>1 DEF Distinct
  <2> QED BY <2>2
<1>8. Head(s) \in Pair /\ Head(s)[1] \in Nat
  BY <1>1, <1>3 DEF Pair
<1> QED BY <1>2, <1>5, <1>6, <1>7, <1>8

\* The order of the natural numbers, as a relation.
Less == OpToRel(<, Nat)

LEMMA LessFacts ==
    /\ IsWellFoundedOn(Less, Nat)
    /\ \A x, y \in Nat : <<y, x>> \in Less <=> y < x
<1>1. IsWellFoundedOn(Less, Nat)
  BY NatLessThanWellFounded DEF Less
<1>2. \A x, y \in Nat : <<y, x>> \in Less <=> y < x
  BY DEF Less, OpToRel
<1> QED BY <1>1, <1>2

\* A set of natural numbers that is not empty has a least one.
LEMMA LeastNumber ==
    ASSUME NEW T \in SUBSET Nat, T # {}
    PROVE  \E x \in T : \A y \in T : x <= y
<1>1. PICK x \in T : \A y \in T : <<y, x>> \notin Less
  BY LessFacts, WFMin
<1>2. \A y \in T : x <= y
  <2> TAKE y \in T
  <2>1. x \in Nat /\ y \in Nat
    OBVIOUS
  <2>2. ~ (y < x)
    BY <2>1, <1>1, LessFacts
  <2> QED BY <2>1, <2>2
<1> QED BY <1>2

\* A set of numbers up to n that is not empty has a largest one, which Max
\* returns: the mirror image of the set has a least element.
LEMMA MaxFacts ==
    ASSUME NEW n \in Nat, NEW S \in SUBSET (1..n), S # {}
    PROVE  Max(S) \in S /\ \A y \in S : y <= Max(S)
<1> DEFINE T == {x \in Nat : n - x \in S}
<1>1. T \in SUBSET Nat
  OBVIOUS
<1>2. T # {}
  <2>1. PICK x0 \in S : TRUE
    OBVIOUS
  <2>2. n - x0 \in Nat /\ n - (n - x0) = x0
    OBVIOUS
  <2> QED BY <2>2
<1>3. PICK x \in T : \A y \in T : x <= y
  <2> HIDE DEF T
  <2> QED BY <1>1, <1>2, LeastNumber
<1>6. n - x \in S
  OBVIOUS
<1>7. \A y \in S : y <= n - x
  <2> TAKE y \in S
  <2>1. n - y \in Nat /\ n - (n - y) = y
    OBVIOUS
  <2>2. n - y \in T
    BY <2>1
  <2>3. x <= n - y
    BY <1>3, <2>2
  <2> QED BY <2>1, <2>3
<1>8. \E m \in S : \A y \in S : m >= y
  BY <1>6, <1>7
<1> QED BY <1>8 DEF Max

-----------------------------------------------------------------------------
(* What the steps do to the live rows.                                     *)

\* Live rows, one by one.
LEMMA LiveFacts ==
    /\ Live \subseteq DOMAIN rows
    /\ \A i \in DOMAIN rows : i \in Live <=> ~ rows[i].deleted
BY DEF Live, Marked

\* clear_deleted_data leaves the live rows, as they are.
LEMMA ClearFacts ==
    ASSUME TypeOK, rows' = Restrict(rows, Live)
    PROVE  /\ DOMAIN rows' = Live /\ Live' = Live
           /\ \A i \in DOMAIN rows' : rows'[i] = rows[i]
<1>1. DOMAIN rows' = Live /\ \A i \in Live : rows'[i] = rows[i]
  BY DEF Restrict
<1>2. \A i \in Live : i \in DOMAIN rows /\ ~ rows[i].deleted
  BY LiveFacts
<1>3. Marked' = {}
  BY <1>1, <1>2 DEF Marked
<1> QED BY <1>1, <1>3 DEF Live

\* soft_evict takes the ids it is given out of the live rows.
LEMMA MarkFacts ==
    ASSUME TypeOK, NEW t \in Threads, MarkDeleted(t)
    PROVE  /\ DOMAIN rows' = DOMAIN rows
           /\ \A i \in DOMAIN rows : rows'[i] \in [content : Nat, deleted : BOOLEAN]
           /\ Live' = Live \ keys[t]
<1>1. /\ DOMAIN rows' = DOMAIN rows
      /\ \A i \in DOMAIN rows :
            /\ rows[i] \in [content : Nat, deleted : BOOLEAN]
            /\ i \in keys[t] => rows'[i] = [rows[i] EXCEPT !.deleted = TRUE]
            /\ i \notin keys[t] => rows'[i] = rows[i]
  BY DEF MarkDeleted, TypeOK
<1>2. \A i \in DOMAIN rows : /\ rows'[i] \in [content : Nat, deleted : BOOLEAN]
                            /\ i \in keys[t] => rows'[i].deleted = TRUE
  BY <1>1
<1>3. \A i \in DOMAIN rows : rows'[i].deleted <=> i \in keys[t] \/ rows[i].deleted
  BY <1>1, <1>2
<1>4. Live' = Live \ keys[t]
  BY <1>1, <1>3 DEF Live, Marked
<1> QED BY <1>1, <1>2, <1>4

\* The next id is one the table does not have, and no larger than the number
\* of saves allows.
LEMMA NextIdFacts ==
    ASSUME TypeOK, IdsBounded
    PROVE  /\ NextId \in Nat \ {0} /\ NextId <= saves + 1
           /\ \A i \in DOMAIN rows : i < NextId
<1>1. saves \in Nat
  BY DEF TypeOK
<1>2. CASE DOMAIN rows = {}
  BY <1>1, <1>2 DEF NextId
<1>3. CASE DOMAIN rows # {}
  <2>1. DOMAIN rows \in SUBSET (1..saves)
    BY DEF IdsBounded
  <2>2. Max(DOMAIN rows) \in DOMAIN rows /\ \A i \in DOMAIN rows : i <= Max(DOMAIN rows)
    BY <1>1, <1>3, <2>1, MaxFacts
  <2>3. NextId = Max(DOMAIN rows) + 1
    BY <1>3 DEF NextId
  <2> QED BY <1>1, <2>1, <2>2, <2>3
<1> QED BY <1>2, <1>3

\* batch_insert makes new live rows, and import_data holds their ids.
LEMMA InsertFacts ==
    ASSUME TypeOK, IdsBounded, NEW t \in Threads, NEW n \in 1..MaxBatch, BatchInsert(t, n)
    PROVE  /\ items'[t] \in Seq(Pair) /\ items'[t] # <<>> /\ Distinct(items'[t])
           /\ items' = [items EXCEPT ![t] = items'[t]]
           /\ IdsOf(items'[t]) \cap DOMAIN rows = {}
           /\ IdsOf(items'[t]) \subseteq 1..(saves + n)
           /\ DOMAIN rows' = DOMAIN rows \cup IdsOf(items'[t])
           /\ \A i \in DOMAIN rows' : rows'[i] \in [content : Nat, deleted : BOOLEAN]
           /\ Live' = Live \cup IdsOf(items'[t])
<1> DEFINE new == [j \in 1..n |-> <<NextId + j - 1, saves + j>>]
<1>1. n \in Nat \ {0} /\ saves \in Nat
  BY BoundsAssumption DEF TypeOK
<1>2. /\ items' = [items EXCEPT ![t] = new] /\ items'[t] = new
      /\ rows' = [i \in DOMAIN rows \cup IdsOf(new) |->
              IF i \in DOMAIN rows THEN rows[i]
              ELSE [content |-> new[i - NextId + 1][2], deleted |-> FALSE]]
  BY DEF BatchInsert, TypeOK
<1>3. \A j \in 1..n : new[j] \in Pair /\ new[j][1] = NextId + j - 1 /\ new[j][2] = saves + j
  BY <1>1, NextIdFacts DEF Pair
<1>4. new \in Seq(Pair) /\ Len(new) = n /\ DOMAIN new = 1..n
  BY <1>1, <1>3
<1>5. new # <<>>
  BY <1>1, <1>4
<1> HIDE DEF new
<1>0. NextId \in Nat
  BY NextIdFacts
<1>6. Distinct(new)
  <2> SUFFICES ASSUME NEW j \in 1..n, NEW k \in 1..n, new[j][1] = new[k][1] PROVE j = k
    BY <1>4 DEF Distinct
  <2>1. NextId + j - 1 = NextId + k - 1
    BY <1>3
  <2> QED BY <2>1, <1>1, <1>0
<1>7. IdsOf(new) = {NextId + j - 1 : j \in 1..n}
  <2>1. IdsOf(new) = {p[1] : p \in {new[j] : j \in 1..n}}
    BY <1>4 DEF IdsOf, Range
  <2>2. {p[1] : p \in {new[j] : j \in 1..n}} = {new[j][1] : j \in 1..n}
    OBVIOUS
  <2> QED BY <2>1, <2>2, <1>3
<1>8. IdsOf(new) \cap DOMAIN rows = {} /\ IdsOf(new) \subseteq 1..(saves + n)
  BY <1>1, <1>7, NextIdFacts
<1>9. DOMAIN rows' = DOMAIN rows \cup IdsOf(new)
  BY <1>2
<1>10. \A i \in DOMAIN rows : rows'[i] = rows[i]
  BY <1>2
<1>11. \A i \in IdsOf(new) : /\ rows'[i] \in [content : Nat, deleted : BOOLEAN]
                             /\ rows'[i].deleted = FALSE
  <2> TAKE i \in IdsOf(new)
  <2>1. PICK j \in 1..n : i = NextId + j - 1
    BY <1>7
  <2>2. i - NextId + 1 = j
    BY <1>1, <2>1, NextIdFacts
  <2>3. new[i - NextId + 1][2] \in Nat
    BY <1>1, <1>3, <2>2
  <2>4. rows'[i] = [content |-> new[i - NextId + 1][2], deleted |-> FALSE]
    BY <1>2, <1>8
  <2> QED BY <2>3, <2>4
<1>12. \A i \in DOMAIN rows' : rows'[i] \in [content : Nat, deleted : BOOLEAN]
  BY <1>9, <1>10, <1>11 DEF TypeOK
<1>13. Live' = Live \cup IdsOf(new)
  BY <1>8, <1>9, <1>10, <1>11 DEF Live, Marked
<1> QED BY <1>2, <1>4, <1>5, <1>6, <1>8, <1>9, <1>12, <1>13

-----------------------------------------------------------------------------
(* Types.                                                                  *)

\* The ids of a list are numbers.
LEMMA IdsOfType ==
    ASSUME NEW s \in Seq(Pair)
    PROVE  Range(s) \subseteq Pair /\ IdsOf(s) \subseteq Nat
<1>1. \A j \in DOMAIN s : s[j] \in Pair
  BY LenProperties, ElementOfSeq
<1>2. Range(s) \subseteq Pair
  BY <1>1 DEF Range
<1> QED BY <1>2 DEF IdsOf, Pair

\* A list of numbers in increasing order.
Ascending(s, n) == \A i, j \in 1..n : i < j => s[i] < s[j]

\* A finite set of numbers can be listed in increasing order: the smallest set
\* that could not would be the smaller one without its largest member.
LEMMA AscendingList ==
    ASSUME NEW m \in Nat, NEW S \in SUBSET (1..m)
    PROVE  \E s \in [1..Cardinality(S) -> S] : Ascending(s, Cardinality(S))
<1> DEFINE Has(T) == \E s \in [1..Cardinality(T) -> T] : Ascending(s, Cardinality(T))
           Bad == {n \in Nat : \E T \in SUBSET (1..m) : Cardinality(T) = n /\ ~ Has(T)}
<1>0. \A T \in SUBSET (1..m) : IsFiniteSet(T) /\ Cardinality(T) \in Nat
  <2>1. IsFiniteSet(1..m)
    BY FS_Interval
  <2> QED BY <2>1, FS_Subset, FS_CardinalityType
<1> SUFFICES ASSUME ~ Has(S) PROVE FALSE
  OBVIOUS
<1>1. Bad \in SUBSET Nat /\ Bad # {}
  BY <1>0
<1>2. PICK n \in Bad : \A k \in Bad : n <= k
  <2> HIDE DEF Bad
  <2> QED BY <1>1, LeastNumber
<1>3. PICK T \in SUBSET (1..m) : Cardinality(T) = n /\ ~ Has(T)
  OBVIOUS
<1>4. IsFiniteSet(T) /\ n \in Nat
  BY <1>0
<1>5. T # {}
  <2> SUFFICES ASSUME T = {} PROVE FALSE
    OBVIOUS
  <2>1. Cardinality(T) = 0
    BY FS_EmptySet
  <2>2. [j \in 1..0 |-> 0] \in [1..0 -> T] /\ Ascending([j \in 1..0 |-> 0], 0)
    BY DEF Ascending
  <2> QED BY <1>3, <2>1, <2>2
<1> DEFINE top == Max(T)
           U == T \ {top}
<1>6. top \in T /\ \A y \in T : y <= top
  BY <1>5, MaxFacts
<1>7. U \in SUBSET (1..m) /\ Cardinality(U) = n - 1 /\ n - 1 \in Nat
  <2>1. Cardinality(U) = Cardinality(T) - 1
    BY <1>4, <1>6, FS_RemoveElement
  <2>2. U \in SUBSET (1..m)
    OBVIOUS
  <2> HIDE DEF U
  <2>3. Cardinality(U) \in Nat
    BY <1>0, <2>2
  <2> QED BY <1>3, <2>1, <2>2, <2>3
<1>8. Has(U)
  <2> HIDE DEF U, Has
  <2> SUFFICES ASSUME ~ Has(U) PROVE FALSE
    OBVIOUS
  <2>1. n - 1 \in Bad
    BY <1>7
  <2>2. n <= n - 1
    BY <1>2, <2>1
  <2> QED BY <1>4, <2>2
<1>9. PICK s \in [1..(n - 1) -> U] : Ascending(s, n - 1)
  BY <1>7, <1>8
<1> HIDE DEF top
<1> DEFINE w == [j \in 1..n |-> IF j = n THEN top ELSE s[j]]
<1>10. \A j \in 1..(n - 1) : w[j] = s[j] /\ s[j] \in T /\ s[j] < top /\ s[j] \in Nat
  <2> TAKE j \in 1..(n - 1)
  <2>0. s[j] \in U
    BY <1>9
  <2>1. s[j] \in T /\ s[j] # top /\ j \in 1..n /\ j # n
    BY <1>4, <2>0
  <2>2. s[j] <= top
    BY <2>1, <1>6
  <2>3. s[j] \in Nat /\ top \in Nat
    <3>1. \A x \in T : x \in 1..m
      BY <1>3
    <3>2. \A x \in 1..m : x \in Nat
      OBVIOUS
    <3> QED BY <2>1, <1>6, <3>1, <3>2
  <2>4. s[j] < top
    <3>1. \A x, y \in Nat : x <= y /\ x # y => x < y
      OBVIOUS
    <3> QED BY <2>1, <2>2, <2>3, <3>1
  <2>5. w[j] = s[j]
    BY <2>1
  <2> QED BY <2>1, <2>3, <2>4, <2>5
<1>11. w[n] = top
  BY <1>4, <1>7
<1>12. w \in [1..n -> T]
  BY <1>6, <1>10
<1> HIDE DEF w
<1>13. Ascending(w, n)
  <2> SUFFICES ASSUME NEW i \in 1..n, NEW j \in 1..n, i < j PROVE w[i] < w[j]
    BY DEF Ascending
  <2>1. i \in 1..(n - 1)
    BY <1>4
  <2>2. CASE j = n
    BY <2>1, <2>2, <1>10, <1>11
  <2>3. CASE j # n
    <3>1. j \in 1..(n - 1)
      BY <1>4, <2>3
    <3>2. s[i] < s[j]
      BY <1>9, <2>1, <3>1 DEF Ascending
    <3> QED BY <1>10, <2>1, <3>1, <3>2
  <2> QED BY <2>2, <2>3
<1> QED BY <1>3, <1>12, <1>13

\* What __init__ puts after a crash: each live id once, the largest last.
LEMMA ListedFacts ==
    ASSUME TypeOK, IdsBounded
    PROVE  /\ Cardinality(Live) \in Nat
           /\ Cardinality(Live) = 0 <=> Live = {}
           /\ Listed(Live) \in [1..Cardinality(Live) -> Live]
           /\ IsInjective(Listed(Live))
           /\ \A i \in Live : \E j \in 1..Cardinality(Live) : Listed(Live)[j] = i
           /\ Ascending(Listed(Live), Cardinality(Live))
<1> DEFINE n == Cardinality(Live)
<1>0. saves \in Nat /\ Live \in SUBSET (1..saves)
  BY LiveFacts DEF TypeOK, IdsBounded
<1>1. IsFiniteSet(Live)
  <2>2. IsFiniteSet(1..saves)
    BY <1>0, FS_Interval
  <2> QED BY <1>0, <2>2, FS_Subset
<1>2. n \in Nat /\ (n = 0 <=> Live = {})
  BY <1>1, FS_CardinalityType, FS_EmptySet
<1>3. \E s \in [1..n -> Live] : Ascending(s, n)
  BY <1>0, AscendingList
<1>4. Listed(Live) \in [1..n -> Live] /\ Ascending(Listed(Live), n)
  BY <1>3 DEF Listed, Ascending
<1>5. IsInjective(Listed(Live))
  <2>0. DOMAIN Listed(Live) = 1..n
    BY <1>4
  <2> SUFFICES ASSUME NEW j \in 1..n, NEW k \in 1..n, Listed(Live)[j] = Listed(Live)[k]
               PROVE  j = k
    BY <2>0 DEF IsInjective
  <2>1. Listed(Live)[j] \in Nat /\ j \in Nat /\ k \in Nat
    <3>1. Listed(Live)[j] \in Live
      BY <1>4
    <3>2. j \in Nat /\ k \in Nat
      BY <1>2
    <3>3. \A x \in Live : x \in 1..saves
      BY <1>0
    <3>4. \A x \in 1..saves : x \in Nat
      BY <1>0
    <3> QED BY <3>1, <3>2, <3>3, <3>4
  <2>2. ~ (Listed(Live)[j] < Listed(Live)[k]) /\ ~ (Listed(Live)[k] < Listed(Live)[j])
    BY <2>1
  <2>3. ~ (j < k) /\ ~ (k < j)
    BY <1>4, <2>2 DEF Ascending
  <2>4. \A x, y \in Nat : x < y \/ y < x \/ x = y
    OBVIOUS
  <2> QED BY <2>1, <2>3, <2>4
<1>6. Listed(Live) \in Surjection(1..n, Live)
  <2>1. Listed(Live) \in Injection(1..n, Live)
    BY <1>4, <1>5 DEF Injection
  <2>2. Cardinality(1..n) = n
    BY <1>2, FS_Interval
  <2> QED BY <2>1, <2>2, <1>1, FS_Injection
<1>7. \A i \in Live : \E j \in 1..n : Listed(Live)[j] = i
  BY <1>6 DEF Surjection
<1> QED BY <1>2, <1>4, <1>5, <1>7

LEMMA BootFacts ==
    ASSUME TypeOK, IdsBounded, Crash
    PROVE  LET boot == items'[BootThread]
           IN  /\ boot \in Seq(Pair) /\ Distinct(boot) /\ IdsOf(boot) = Live
               /\ boot = <<>> <=> Live = {}
               /\ items' = [t \in Threads |-> IF t = BootThread THEN boot ELSE <<>>]
<1> DEFINE n == Cardinality(Live)
           boot == [j \in 1..n |-> <<Listed(Live)[j], rows[Listed(Live)[j]].content>>]
<1>1. items' = [t \in Threads |-> IF t = BootThread THEN boot ELSE <<>>]
  BY DEF Crash
<1>2. items'[BootThread] = boot
  BY <1>1, ThreadsAssumption
<1>3. n \in Nat /\ (n = 0 <=> Live = {})
  BY ListedFacts
<1>4. \A i \in Live : i \in Nat /\ rows[i].content \in Nat
  BY LiveFacts DEF TypeOK
<1>5. \A j \in 1..n : /\ boot[j] \in Pair /\ boot[j][1] = Listed(Live)[j]
                      /\ Listed(Live)[j] \in Live
  BY ListedFacts, <1>4 DEF Pair
<1>6. boot \in Seq(Pair) /\ Len(boot) = n /\ DOMAIN boot = 1..n
  BY <1>3, <1>5
<1> HIDE DEF boot
<1>7. boot = <<>> <=> Live = {}
  BY <1>3, <1>6, EmptySeq
<1>8. Distinct(boot)
  BY <1>5, <1>6, ListedFacts DEF Distinct, IsInjective
<1>9. IdsOf(boot) = Live
  <2>1. IdsOf(boot) = {p[1] : p \in {boot[j] : j \in 1..n}}
    BY <1>6 DEF IdsOf, Range
  <2>2. {p[1] : p \in {boot[j] : j \in 1..n}} = {boot[j][1] : j \in 1..n}
    OBVIOUS
  <2> QED BY <2>1, <2>2, <1>5, ListedFacts
<1> QED BY <1>1, <1>2, <1>6, <1>7, <1>8, <1>9

\* Every step keeps the types.
LEMMA TypeStep == DMInv /\ [Next]_vars => TypeOK'
<1> SUFFICES ASSUME TypeOK, IdsBounded, \A t \in Threads : Distinct(items[t]), [Next]_vars
             PROVE  TypeOK'
  BY DEF DMInv, RowsOwned
<1>1. ASSUME NEW t \in Threads, NEW n \in 1..MaxBatch, BatchInsert(t, n) PROVE TypeOK'
  <2>0. items'[t] \in Seq(Pair) /\ DOMAIN rows' = DOMAIN rows \cup IdsOf(items'[t])
    BY <1>1, InsertFacts
  <2>1. DOMAIN rows' \subseteq Nat
    BY <2>0, IdsOfType DEF TypeOK
  <2>2. saves' \in Nat
    BY <1>1, BoundsAssumption DEF BatchInsert, TypeOK
  <2> QED BY <1>1, <2>1, <2>2, InsertFacts DEF TypeOK, InPut, Goto, BatchInsert, aux
<1>2. ASSUME NEW t \in Threads, MulAdd(t) PROVE TypeOK'
  <2>1. vecs' \subseteq Pair
    BY <1>2, IdsOfType DEF TypeOK, MulAdd
  <2> QED BY <1>2, <2>1 DEF TypeOK, InPut, Goto, MulAdd, local, budget, aux
<1>3. ASSUME NEW t \in Threads, PutInsert(t) PROVE TypeOK'
  <2>1. items[t] \in Seq(Pair) /\ items[t] # <<>>
    BY <1>3 DEF TypeOK, PutInsert, InPut
  <2>2. Tail(items[t]) \in Seq(Pair) /\ Head(items[t])[1] \in Nat
    BY <1>3, <2>1, HeadTailIds
  <2>3. booting' \in BOOLEAN
    BY <1>3 DEF PutInsert
  <2> QED BY <1>3, <2>2, <2>3 DEF TypeOK, InPut, Goto, PutInsert, budget, aux
<1>4. ASSUME NEW t \in Threads, PutTest(t) \/ PopItem(t) \/ PopError(t) PROVE TypeOK'
  <2>1. CASE PutTest(t)
    BY <2>1 DEF TypeOK, InPut, Goto, PutTest, stores, local, budget, aux
  <2>2. CASE PopItem(t)
    BY <2>2 DEF TypeOK, InPut, Goto, PopItem, budget, aux
  <2>3. CASE PopError(t)
    BY <2>3 DEF TypeOK, InPut, Goto, PopError, stores, budget
  <2> QED BY <1>4, <2>1, <2>2, <2>3
<1>5. ASSUME NEW t \in Threads, MarkDeleted(t) PROVE TypeOK'
  BY <1>5, MarkFacts DEF TypeOK, InPut, Goto, MarkDeleted, budget, aux
<1>6. ASSUME NEW t \in Threads, CountMarked(t) PROVE TypeOK'
  <2>1. saves \in Nat /\ Marked \subseteq 1..saves
    BY DEF TypeOK, IdsBounded, Marked
  <2>3. IsFiniteSet(1..saves)
    BY <2>1, FS_Interval
  <2>2. Cardinality(Marked) \in Nat
    BY <2>1, <2>3, FS_Subset, FS_CardinalityType
  <2> QED BY <1>6, <2>2 DEF TypeOK, InPut, Goto, CountMarked, stores, budget, aux
<1>7. ASSUME NEW t \in Threads, CheckEvict(t) PROVE TypeOK'
  BY <1>7 DEF TypeOK, InPut, Goto, CheckEvict, stores, local, budget, aux
<1>8. ASSUME NEW t \in Threads, GetMarkedIds(t) PROVE TypeOK'
  BY <1>8 DEF TypeOK, InPut, Goto, GetMarkedIds, Marked, stores, budget, aux
<1>9. ASSUME NEW t \in Threads, ClearDeletedData(t) \/ RebuildClear(t) PROVE TypeOK'
  <2>1. rows' = Restrict(rows, Live)
    BY <1>9 DEF ClearDeletedData, RebuildClear
  <2>2. /\ DOMAIN rows' \subseteq Nat
        /\ \A i \in DOMAIN rows' : rows'[i] \in [content : Nat, deleted : BOOLEAN]
    BY <2>1, ClearFacts, LiveFacts DEF TypeOK
  <2> QED BY <1>9, <2>2 DEF TypeOK, InPut, Goto, ClearDeletedData, RebuildClear, local, budget, aux
<1>10. ASSUME NEW t \in Threads, VectorDelete(t) PROVE TypeOK'
  BY <1>10 DEF TypeOK, InPut, Goto, VectorDelete, budget, aux
<1>11. ASSUME NEW t \in Threads, RebuildDone(t) PROVE TypeOK'
  BY <1>11 DEF TypeOK, InPut, Goto, RebuildDone, local, budget, aux
<1>12. ASSUME NEW t \in Threads, Search(t) \/ GetScalarData(t) PROVE TypeOK'
  <2>1. NoVector \in Pair
    BY DEF NoVector, Pair
  <2>2. CASE Search(t)
    <3>1. found' \in [Threads -> Pair]
      BY <2>2 DEF TypeOK, Search
    <3> QED BY <2>2, <3>1 DEF TypeOK, InPut, Goto, Search, stores, budget, aux
  <2>3. CASE GetScalarData(t)
    BY <2>1, <2>3 DEF TypeOK, InPut, Goto, GetScalarData, stores, budget, aux
  <2> QED BY <1>12, <2>2, <2>3
<1>13. ASSUME NEW t \in Threads, FlushBegin(t) \/ FlushEnd(t) PROVE TypeOK'
  <2>1. CASE FlushBegin(t)
    BY <2>1 DEF TypeOK, InPut, Goto, FlushBegin, local, budget, aux
  <2>2. CASE FlushEnd(t)
    <3>1. flushed' \subseteq Nat /\ torn' \in BOOLEAN
      BY <2>2, LiveFacts DEF FlushEnd, TypeOK
    <3> QED BY <2>2, <3>1 DEF TypeOK, InPut, Goto, FlushEnd, local, budget
  <2> QED BY <1>13, <2>1, <2>2
<1>14. ASSUME NEW t \in Threads, Raise(t) PROVE TypeOK'
  <2>1. leaked' \subseteq Nat
    <3>1. items[t] \in Seq(Pair) /\ keys[t] \subseteq Nat /\ leaked \subseteq Nat
      BY DEF TypeOK
    <3>2. IdsOf(items[t]) \subseteq Nat
      BY <3>1, IdsOfType
    <3> QED BY <1>14, <3>1, <3>2 DEF Raise
  <2>2. <<>> \in Seq(Pair)
    OBVIOUS
  <2>3. items' \in [Threads -> Seq(Pair)] /\ items' = [items EXCEPT ![t] = <<>>]
    BY <1>14, <2>2 DEF Raise, TypeOK
  <2>4. \A u \in Threads : pc'[u] \in InPut \cup {"add"} <=> items'[u] # <<>>
    BY <1>14, <2>3 DEF TypeOK, InPut, Goto, Raise
  <2> QED BY <1>14, <2>1, <2>3, <2>4 DEF TypeOK, InPut, Goto, Raise, stores
<1>15. ASSUME Crash PROVE TypeOK'
  <2>1. NoVector \in Pair
    BY DEF NoVector, Pair
  <2> DEFINE boot == items'[BootThread]
  <2>4. /\ boot \in Seq(Pair) /\ (boot = <<>> <=> Live = {})
        /\ items' = [t \in Threads |-> IF t = BootThread THEN boot ELSE <<>>]
    BY <1>15, BootFacts
  <2>5. <<>> \in Seq(Pair)
    OBVIOUS
  <2> HIDE DEF boot
  <2>2. items' \in [Threads -> Seq(Pair)]
    BY <2>4, <2>5
  <2>3. \A t \in Threads : pc'[t] \in InPut \cup {"add"} <=> items'[t] # <<>>
    BY <1>15, <2>4 DEF Crash, InPut
  <2>6. pc' \in [Threads -> {"idle", "add", "lookup", "flush"} \cup InPut]
    BY <1>15 DEF Crash, InPut
  <2>7. /\ rows' = rows /\ vecs' = disk /\ disk' = disk /\ tracked' = {} /\ leaked' = {}
        /\ torn' = torn
        /\ delete_count' = 0 /\ booting' \in BOOLEAN
        /\ saves' = saves /\ crashes' = crashes + 1 /\ failures' = failures
        /\ flushed' = flushed /\ mark_count' = [t \in Threads |-> 0]
        /\ keys' = [t \in Threads |-> {}] /\ found' = [t \in Threads |-> NoVector]
    BY <1>15 DEF Crash, Forgotten
  <2> QED BY <2>1, <2>2, <2>3, <2>6, <2>7 DEF TypeOK
<1>17. ASSUME CrashTorn PROVE TypeOK'
  <2>1. NoVector \in Pair /\ <<>> \in Seq(Pair)
    BY DEF NoVector, Pair
  <2>2. /\ items' = [t \in Threads |-> <<>>] /\ pc' = [t \in Threads |-> "idle"]
        /\ rows' = rows /\ vecs' = {} /\ disk' = disk /\ tracked' = {} /\ leaked' = Live
        /\ torn' = torn /\ delete_count' = 0 /\ booting' = TRUE
        /\ saves' = saves /\ crashes' = crashes + 1 /\ failures' = failures
        /\ flushed' = flushed /\ mark_count' = [t \in Threads |-> 0]
        /\ keys' = [t \in Threads |-> {}] /\ found' = [t \in Threads |-> NoVector]
    BY <1>17 DEF CrashTorn, Forgotten
  <2>3. Live \subseteq Nat
    BY LiveFacts DEF TypeOK
  <2> QED BY <2>1, <2>2, <2>3 DEF TypeOK, InPut
<1>16. CASE UNCHANGED vars
  BY <1>16 DEF TypeOK, vars, stores, local, budget, aux
<1> QED BY <1>1, <1>2, <1>3, <1>4, <1>5, <1>6, <1>7, <1>8, <1>9, <1>10, <1>11, <1>12,
           <1>13, <1>14, <1>15, <1>16, <1>17 DEF Next, Continue, AtRest

-----------------------------------------------------------------------------
(* Every step.                                                             *)

\* Every step keeps the ids within the number of saves.
LEMMA BoundedStep == DMInv /\ [Next]_vars => IdsBounded'
<1> SUFFICES ASSUME TypeOK, IdsBounded, [Next]_vars PROVE IdsBounded'
  BY DEF DMInv
<1>1. saves \in Nat /\ Live \subseteq DOMAIN rows
  BY LiveFacts DEF TypeOK
<1>2. ASSUME NEW t \in Threads, NEW n \in 1..MaxBatch, BatchInsert(t, n) PROVE IdsBounded'
  <2>1. saves' = saves + n /\ n \in Nat
    BY <1>2, BoundsAssumption DEF BatchInsert
  <2>2. DOMAIN rows' \subseteq DOMAIN rows \cup 1..(saves + n)
    BY <1>2, InsertFacts
  <2> QED BY <1>1, <2>1, <2>2 DEF IdsBounded
<1>3. ASSUME NEW t \in Threads, MarkDeleted(t) PROVE IdsBounded'
  <2>1. DOMAIN rows' = DOMAIN rows
    BY <1>3, MarkFacts
  <2> QED BY <1>3, <2>1 DEF IdsBounded, MarkDeleted, budget
<1>4. ASSUME NEW t \in Threads, ClearDeletedData(t) \/ RebuildClear(t) PROVE IdsBounded'
  <2>1. DOMAIN rows' = Live
    BY <1>4, ClearFacts DEF ClearDeletedData, RebuildClear
  <2> QED BY <1>1, <1>4, <2>1 DEF IdsBounded, ClearDeletedData, RebuildClear, budget
<1>5. CASE UNCHANGED <<rows, saves>>
  BY <1>5 DEF IdsBounded
<1>6. ASSUME NEW t \in Threads, Continue(t) PROVE IdsBounded'
  BY <1>3, <1>4, <1>5, <1>6 DEF Continue, MulAdd, PutTest, PutInsert, PopItem, PopError,
     CountMarked, CheckEvict, GetMarkedIds, VectorDelete, RebuildDone, GetScalarData, FlushEnd,
     stores, budget
<1>7. ASSUME NEW t \in Threads, Search(t) \/ FlushBegin(t) \/ Raise(t) PROVE IdsBounded'
  BY <1>5, <1>7 DEF Search, FlushBegin, Raise, stores, budget
<1>8. ASSUME Crash \/ CrashTorn \/ AtRest \/ UNCHANGED vars PROVE IdsBounded'
  BY <1>5, <1>8 DEF Crash, CrashTorn, Forgotten, AtRest, vars, stores, budget
<1> QED BY <1>2, <1>6, <1>7, <1>8 DEF Next

\* A step of one thread keeps the owners apart if it does so for that thread.
LEMMA OwnersOfOthers ==
    ASSUME RowsOwned, NEW t \in Threads,
           \A u \in Threads \ {t} : /\ items'[u] = items[u] /\ keys'[u] = keys[u]
                                    /\ pc'[u] = pc[u]
                                    /\ InFlight(u) \subseteq Live' \ tracked'
                                    /\ InFlight(t)' \cap InFlight(u) = {},
           tracked' \subseteq Live',
           InFlight(t)' \subseteq Live' \ tracked',
           Distinct(items'[t]),
           pc'[t] \in {"pop", "mark"} => keys'[t] \cap IdsOf(items'[t]) = {},
           pc'[t] \notin Holding => keys'[t] = {},
           Live' \subseteq tracked' \cup leaked' \cup InFlight(t)'
                           \cup UNION {InFlight(u) : u \in Threads \ {t}}
    PROVE  RowsOwned'
<1>1. \A u \in Threads \ {t} : InFlight(u)' = InFlight(u)
  BY DEF InFlight
<1>2. \A u \in Threads : InFlight(u)' \subseteq Live' \ tracked'
  BY <1>1
<1>3. \A u, v \in Threads : u # v => InFlight(u)' \cap InFlight(v)' = {}
  BY <1>1 DEF RowsOwned
<1>4. \A u \in Threads : Distinct(items'[u])
  BY DEF RowsOwned
<1>5. \A u \in Threads : /\ pc'[u] \in {"pop", "mark"} => keys'[u] \cap IdsOf(items'[u]) = {}
                         /\ pc'[u] \notin Holding => keys'[u] = {}
  BY DEF RowsOwned
<1>6. ASSUME NEW i \in Live', i \notin tracked', i \notin leaked'
      PROVE  \E u \in Threads : i \in InFlight(u)'
  BY <1>1, <1>6
<1>7. Live' \subseteq tracked' \cup leaked' \cup UNION {InFlight(u)' : u \in Threads}
  BY <1>6
<1>8. \A u \in Threads : Distinct(items[u])'
  BY <1>4 DEF Distinct
<1>9. \A u \in Threads : (/\ pc[u] \in {"pop", "mark"} => keys[u] \cap IdsOf(items[u]) = {}
                          /\ pc[u] \notin Holding => keys[u] = {})'
  BY <1>5 DEF IdsOf, Holding
<1> QED BY <1>2, <1>3, <1>7, <1>8, <1>9 DEF RowsOwned

\* A step that moves no id keeps the owners.
LEMMA OwnersKept ==
    ASSUME RowsOwned, Live' = Live, tracked' = tracked, leaked' = leaked, items' = items,
           \A t \in Threads :
              \/ pc'[t] = pc[t] /\ keys'[t] = keys[t]
              \/ keys'[t] = {} /\ keys[t] = {}
              \/ /\ pc[t] \notin {"pop", "mark"} /\ pc'[t] \notin {"pop", "mark"}
                 /\ pc'[t] \in Holding \/ keys'[t] = {}
    PROVE  RowsOwned'
<1>1. \A t \in Threads : InFlight(t)' = InFlight(t)
  <2> SUFFICES ASSUME NEW t \in Threads PROVE InFlight(t)' = InFlight(t)
    OBVIOUS
  <2>1. IdsOf(items[t])' = IdsOf(items[t])
    BY DEF IdsOf
  <2>2. CASE pc'[t] = pc[t] /\ keys'[t] = keys[t]
    BY <2>1, <2>2 DEF InFlight
  <2>3. CASE keys'[t] = {} /\ keys[t] = {}
    BY <2>1, <2>3 DEF InFlight
  <2>4. CASE pc[t] \notin {"pop", "mark"} /\ pc'[t] \notin {"pop", "mark"}
    BY <2>1, <2>4 DEF InFlight
  <2> QED BY <2>2, <2>3, <2>4
<1>2. \A t \in Threads : (/\ pc[t] \in {"pop", "mark"} => keys[t] \cap IdsOf(items[t]) = {}
                          /\ pc[t] \notin Holding => keys[t] = {})'
  BY DEF RowsOwned, IdsOf, Holding
<1>3. \A t \in Threads : Distinct(items[t])'
  BY DEF RowsOwned, Distinct
<1>4. UNION {InFlight(t)' : t \in Threads} = UNION {InFlight(t) : t \in Threads}
  BY <1>1
<1> QED BY <1>1, <1>2, <1>3, <1>4 DEF RowsOwned

\* What the invariant says of the thread that takes a step.
LEMMA OwnFacts ==
    ASSUME DMInv, NEW t \in Threads
    PROVE  /\ InFlight(t) \subseteq Live \ tracked /\ tracked \subseteq Live
           /\ \A u \in Threads \ {t} : /\ InFlight(u) \subseteq Live \ tracked
                                       /\ InFlight(t) \cap InFlight(u) = {}
           /\ Live \subseteq tracked \cup leaked \cup InFlight(t)
                             \cup UNION {InFlight(u) : u \in Threads \ {t}}
           /\ items[t] \in Seq(Pair) /\ Distinct(items[t])
           /\ pc[t] \in InPut => items[t] # <<>>
           /\ IdsOf(items[t]) \subseteq InFlight(t)
           /\ pc[t] \notin {"pop", "mark"} => InFlight(t) = IdsOf(items[t])
           /\ pc[t] \in {"pop", "mark"} => /\ InFlight(t) = IdsOf(items[t]) \cup keys[t]
                                          /\ keys[t] \cap IdsOf(items[t]) = {}
           /\ pc[t] \notin Holding => keys[t] = {}
<1>1. /\ items[t] \in Seq(Pair) /\ Distinct(items[t])
      /\ pc[t] \in InPut => items[t] # <<>>
  BY DEF DMInv, RowsOwned, TypeOK
<1>2. Live \subseteq tracked \cup leaked \cup InFlight(t)
                   \cup UNION {InFlight(u) : u \in Threads \ {t}}
  BY DEF DMInv, RowsOwned
<1>3. /\ IdsOf(items[t]) \subseteq InFlight(t)
      /\ pc[t] \notin {"pop", "mark"} => InFlight(t) = IdsOf(items[t])
      /\ pc[t] \in {"pop", "mark"} => InFlight(t) = IdsOf(items[t]) \cup keys[t]
  BY DEF InFlight
<1>4. /\ InFlight(t) \subseteq Live \ tracked /\ tracked \subseteq Live
      /\ \A u \in Threads \ {t} : /\ InFlight(u) \subseteq Live \ tracked
                                  /\ InFlight(t) \cap InFlight(u) = {}
  BY DEF DMInv, RowsOwned
<1>5. /\ pc[t] \in {"pop", "mark"} => keys[t] \cap IdsOf(items[t]) = {}
      /\ pc[t] \notin Holding => keys[t] = {}
  BY DEF DMInv, RowsOwned
<1> QED BY <1>1, <1>2, <1>3, <1>4, <1>5

\* An empty list has no ids.
LEMMA NoIds == IdsOf(<<>>) = {} /\ Distinct(<<>>)
BY DEF IdsOf, Range, Distinct

\* Every step keeps the owners.
LEMMA OwnerStep ==
    ASSUME DMInv, [Next]_vars
    PROVE  RowsOwned'
<1>0. RowsOwned /\ TypeOK /\ IdsBounded
  BY DEF DMInv
<1>1. ASSUME NEW t \in Threads, NEW n \in 1..MaxBatch, BatchInsert(t, n) PROVE RowsOwned'
  <2> DEFINE F == IdsOf(items'[t])
  <2>1. /\ items' = [items EXCEPT ![t] = items'[t]] /\ Distinct(items'[t])
        /\ F \cap DOMAIN rows = {} /\ Live' = Live \cup F
    BY <1>0, <1>1, InsertFacts
  <2>2. /\ pc[t] = "idle" /\ pc' = [pc EXCEPT ![t] = "add"]
        /\ tracked' = tracked /\ keys' = keys /\ leaked' = leaked
    BY <1>1 DEF BatchInsert, Goto, aux
  <2>3. pc \in [Threads -> {"idle", "add", "lookup", "flush"} \cup InPut] /\ items \in [Threads -> Seq(Pair)]
    BY <1>0 DEF TypeOK
  <2>4. InFlight(t)' = F /\ pc'[t] = "add"
    BY <2>2, <2>3 DEF InFlight, IdsOf
  <2>5. items[t] = <<>>
    BY <1>0, <2>2 DEF TypeOK, InPut
  <2>6. InFlight(t) = {}
    BY <2>2, <2>5, NoIds DEF InFlight
  <2>7. Live \subseteq DOMAIN rows
    BY LiveFacts
  <2> HIDE DEF F
  <2>8. \A u \in Threads \ {t} : items'[u] = items[u] /\ keys'[u] = keys[u] /\ pc'[u] = pc[u]
    BY <2>1, <2>2, <2>3
  <2>9. \A u \in Threads \ {t} : /\ InFlight(u) \subseteq Live' \ tracked'
                                 /\ InFlight(t)' \cap InFlight(u) = {}
    BY <2>1, <2>2, <2>4, <2>7, OwnFacts
  <2>10. /\ tracked' \subseteq Live' /\ InFlight(t)' \subseteq Live' \ tracked'
         /\ Live' \subseteq tracked' \cup leaked' \cup InFlight(t)'
                           \cup UNION {InFlight(u) : u \in Threads \ {t}}
    BY <2>1, <2>2, <2>4, <2>6, <2>7, OwnFacts
  <2>11. keys'[t] = {}
    BY <2>2, OwnFacts DEF Holding
  <2> QED BY <1>0, <2>1, <2>4, <2>8, <2>9, <2>10, <2>11, OwnersOfOthers
<1>2. ASSUME NEW t \in Threads, PutInsert(t) PROVE RowsOwned'
  <2> DEFINE x == Head(items[t])[1]
  <2>1. /\ pc[t] = "insert" /\ tracked' = tracked \cup {x} /\ keys' = keys
        /\ items' = [items EXCEPT ![t] = Tail(items[t])]
        /\ pc' = [pc EXCEPT ![t] = IF Tail(items[t]) = <<>> THEN "idle" ELSE "put"]
        /\ rows' = rows /\ leaked' = leaked
    BY <1>2 DEF PutInsert, Goto, aux
  <2>2. pc \in [Threads -> {"idle", "add", "lookup", "flush"} \cup InPut] /\ items \in [Threads -> Seq(Pair)]
    BY <1>0 DEF TypeOK
  <2>3. items[t] \in Seq(Pair) /\ items[t] # <<>> /\ Distinct(items[t])
    BY <2>1, OwnFacts DEF InPut
  <2>4. /\ x \in IdsOf(items[t]) /\ Distinct(Tail(items[t]))
        /\ IdsOf(Tail(items[t])) = IdsOf(items[t]) \ {x}
    BY <2>3, HeadTailIds
  <2>5. Live' = Live
    BY <2>1 DEF Live, Marked
  <2>6. items'[t] = Tail(items[t]) /\ pc'[t] \notin {"pop", "mark"}
    BY <2>1, <2>2
  <2>7. InFlight(t)' = IdsOf(Tail(items[t]))
    BY <2>6 DEF InFlight, IdsOf
  <2>8. InFlight(t) = IdsOf(items[t])
    BY <2>1, OwnFacts
  <2> HIDE DEF x
  <2>9. \A u \in Threads \ {t} : items'[u] = items[u] /\ keys'[u] = keys[u] /\ pc'[u] = pc[u]
    BY <2>1, <2>2
  <2>10. \A u \in Threads \ {t} : /\ InFlight(u) \subseteq Live' \ tracked'
                                  /\ InFlight(t)' \cap InFlight(u) = {}
    BY <2>1, <2>4, <2>5, <2>7, <2>8, OwnFacts
  <2>11. /\ tracked' \subseteq Live' /\ InFlight(t)' \subseteq Live' \ tracked'
         /\ Live' \subseteq tracked' \cup leaked' \cup InFlight(t)'
                           \cup UNION {InFlight(u) : u \in Threads \ {t}}
    BY <2>1, <2>4, <2>5, <2>7, <2>8, OwnFacts
  <2>12. keys'[t] = {}
    BY <2>1, OwnFacts DEF Holding
  <2> QED BY <1>0, <2>4, <2>6, <2>9, <2>10, <2>11, <2>12, OwnersOfOthers
<1>3. ASSUME NEW t \in Threads, PopItem(t) PROVE RowsOwned'
  <2>1. PICK v \in tracked :
           /\ tracked' = tracked \ {v}
           /\ keys' = [keys EXCEPT ![t] = keys[t] \cup {v}]
           /\ pc' = [pc EXCEPT ![t] = IF Cardinality(keys[t] \cup {v}) >= CleanSize
                                      THEN "mark" ELSE "pop"]
    BY <1>3 DEF PopItem, Goto
  <2>2. pc[t] = "pop" /\ items' = items /\ rows' = rows /\ leaked' = leaked
    BY <1>3 DEF PopItem, aux
  <2>3. /\ pc \in [Threads -> {"idle", "add", "lookup", "flush"} \cup InPut]
        /\ keys \in [Threads -> SUBSET Nat]
    BY <1>0 DEF TypeOK
  <2>4. pc'[t] \in {"pop", "mark"} /\ keys'[t] = keys[t] \cup {v} /\ items'[t] = items[t]
    BY <2>1, <2>2, <2>3
  <2>5. Live' = Live
    BY <2>2 DEF Live, Marked
  <2>6. InFlight(t)' = InFlight(t) \cup {v} /\ InFlight(t) = IdsOf(items[t]) \cup keys[t]
    BY <2>2, <2>4, OwnFacts DEF InFlight, IdsOf
  <2>7. \A u \in Threads \ {t} : items'[u] = items[u] /\ keys'[u] = keys[u] /\ pc'[u] = pc[u]
    BY <2>1, <2>2, <2>3
  <2>8. \A u \in Threads \ {t} : /\ InFlight(u) \subseteq Live' \ tracked'
                                 /\ InFlight(t)' \cap InFlight(u) = {}
    BY <2>1, <2>5, <2>6, OwnFacts
  <2>9. /\ tracked' \subseteq Live' /\ InFlight(t)' \subseteq Live' \ tracked'
        /\ Live' \subseteq tracked' \cup leaked' \cup InFlight(t)'
                          \cup UNION {InFlight(u) : u \in Threads \ {t}}
    BY <2>1, <2>2, <2>5, <2>6, OwnFacts
  <2>10. Distinct(items'[t]) /\ keys'[t] \cap IdsOf(items'[t]) = {} /\ pc'[t] \in Holding
    BY <2>2, <2>4, <2>6, OwnFacts DEF Holding
  <2> QED BY <1>0, <2>7, <2>8, <2>9, <2>10, OwnersOfOthers
<1>10. ASSUME NEW t \in Threads, PopError(t) PROVE RowsOwned'
  <2>1. /\ pc[t] = "pop" /\ pc' = [pc EXCEPT ![t] = "mark"]
        /\ keys' = [keys EXCEPT ![t] = {}] /\ leaked' = leaked \cup keys[t]
        /\ items' = items /\ tracked' = tracked /\ rows' = rows
    BY <1>10 DEF PopError, Goto, stores
  <2>2. /\ pc \in [Threads -> {"idle", "add", "lookup", "flush"} \cup InPut]
        /\ keys \in [Threads -> SUBSET Nat]
    BY <1>0 DEF TypeOK
  <2>3. pc'[t] = "mark" /\ keys'[t] = {} /\ items'[t] = items[t]
    BY <2>1, <2>2
  <2>4. Live' = Live
    BY <2>1 DEF Live, Marked
  <2>5. InFlight(t)' = IdsOf(items[t]) /\ InFlight(t) = IdsOf(items[t]) \cup keys[t]
    BY <2>1, <2>3, OwnFacts DEF InFlight, IdsOf
  <2>6. \A u \in Threads \ {t} : items'[u] = items[u] /\ keys'[u] = keys[u] /\ pc'[u] = pc[u]
    BY <2>1, <2>2
  <2>7. \A u \in Threads \ {t} : /\ InFlight(u) \subseteq Live' \ tracked'
                                 /\ InFlight(t)' \cap InFlight(u) = {}
    BY <2>1, <2>4, <2>5, OwnFacts
  <2>8. /\ tracked' \subseteq Live' /\ InFlight(t)' \subseteq Live' \ tracked'
        /\ Live' \subseteq tracked' \cup leaked' \cup InFlight(t)'
                          \cup UNION {InFlight(u) : u \in Threads \ {t}}
    BY <2>1, <2>4, <2>5, OwnFacts
  <2>9. Distinct(items'[t]) /\ keys'[t] \cap IdsOf(items'[t]) = {}
    BY <2>3, OwnFacts
  <2> QED BY <1>0, <2>3, <2>6, <2>7, <2>8, <2>9, OwnersOfOthers
<1>4. ASSUME NEW t \in Threads, MarkDeleted(t) PROVE RowsOwned'
  <2>1. /\ pc[t] = "mark" /\ pc' = [pc EXCEPT ![t] = "count"]
        /\ keys' = [keys EXCEPT ![t] = {}]
        /\ items' = items /\ tracked' = tracked /\ leaked' = leaked
    BY <1>4 DEF MarkDeleted, Goto, aux
  <2>2. pc \in [Threads -> {"idle", "add", "lookup", "flush"} \cup InPut] /\ keys \in [Threads -> SUBSET Nat]
    BY <1>0 DEF TypeOK
  <2>3. pc'[t] = "count" /\ items'[t] = items[t] /\ keys'[t] = {}
    BY <2>1, <2>2
  <2>4. Live' = Live \ keys[t]
    BY <1>0, <1>4, MarkFacts
  <2>5. InFlight(t)' = IdsOf(items[t]) /\ InFlight(t) = IdsOf(items[t]) \cup keys[t]
    BY <2>1, <2>3, OwnFacts DEF InFlight, IdsOf
  <2>6. keys[t] \cap IdsOf(items[t]) = {}
    BY <1>0, <2>1 DEF RowsOwned
  <2>7. \A u \in Threads \ {t} : items'[u] = items[u] /\ keys'[u] = keys[u] /\ pc'[u] = pc[u]
    BY <2>1, <2>2
  <2>8. \A u \in Threads \ {t} : /\ InFlight(u) \subseteq Live' \ tracked'
                                 /\ InFlight(t)' \cap InFlight(u) = {}
    BY <2>1, <2>4, <2>5, OwnFacts
  <2>9. /\ tracked' \subseteq Live' /\ InFlight(t)' \subseteq Live' \ tracked'
        /\ Live' \subseteq tracked' \cup leaked' \cup InFlight(t)'
                          \cup UNION {InFlight(u) : u \in Threads \ {t}}
    BY <2>1, <2>4, <2>5, <2>6, OwnFacts
  <2> QED BY <1>0, <2>3, <2>7, <2>8, <2>9, OwnFacts, OwnersOfOthers
<1>5. ASSUME NEW t \in Threads, Raise(t) PROVE RowsOwned'
  <2>1. /\ pc' = [pc EXCEPT ![t] = "idle"] /\ items' = [items EXCEPT ![t] = <<>>]
        /\ keys' = [keys EXCEPT ![t] = {}] /\ tracked' = tracked /\ rows' = rows
        /\ leaked' = leaked \cup InFlight(t)
    BY <1>5 DEF Raise, Goto, stores, InFlight
  <2>2. /\ pc \in [Threads -> {"idle", "add", "lookup", "flush"} \cup InPut]
        /\ items \in [Threads -> Seq(Pair)] /\ keys \in [Threads -> SUBSET Nat]
    BY <1>0 DEF TypeOK
  <2>3. pc'[t] = "idle" /\ items'[t] = <<>> /\ keys'[t] = {}
    BY <2>1, <2>2
  <2>4. Live' = Live
    BY <2>1 DEF Live, Marked
  <2>5. InFlight(t)' = {}
    <3>1. InFlight(t)' = IdsOf(items'[t])
      BY <2>3 DEF InFlight, IdsOf
    <3> QED BY <3>1, <2>3, NoIds
  <2>6. \A u \in Threads \ {t} : items'[u] = items[u] /\ keys'[u] = keys[u] /\ pc'[u] = pc[u]
    BY <2>1, <2>2
  <2>7. \A u \in Threads \ {t} : /\ InFlight(u) \subseteq Live' \ tracked'
                                 /\ InFlight(t)' \cap InFlight(u) = {}
    BY <2>1, <2>4, <2>5, OwnFacts
  <2>8. /\ tracked' \subseteq Live' /\ InFlight(t)' \subseteq Live' \ tracked'
        /\ Live' \subseteq tracked' \cup leaked' \cup InFlight(t)'
                          \cup UNION {InFlight(u) : u \in Threads \ {t}}
    BY <2>1, <2>4, <2>5, OwnFacts
  <2>9. Distinct(items'[t])
    BY <2>3, NoIds
  <2> QED BY <1>0, <2>3, <2>6, <2>7, <2>8, <2>9, OwnersOfOthers
<1>6. ASSUME Crash PROVE RowsOwned'
  <2> DEFINE boot == items'[BootThread]
  <2>1. /\ Distinct(boot) /\ IdsOf(boot) = Live
        /\ items' = [t \in Threads |-> IF t = BootThread THEN boot ELSE <<>>]
    BY <1>0, <1>6, BootFacts
  <2>2. /\ rows' = rows /\ tracked' = {}
        /\ \A t \in Threads : pc'[t] \notin {"pop", "mark"} /\ keys'[t] = {}
    BY <1>6 DEF Crash, Forgotten
  <2>3. Live' = Live
    BY <2>2 DEF Live, Marked
  <2> HIDE DEF boot
  <2>4. \A t \in Threads : items'[t] = IF t = BootThread THEN boot ELSE <<>>
    BY <2>1
  <2>5. \A t \in Threads : InFlight(t)' = IF t = BootThread THEN Live ELSE {}
    <3> TAKE t \in Threads
    <3>1. InFlight(t)' = IdsOf(items'[t])
      BY <2>2 DEF InFlight, IdsOf
    <3> QED BY <3>1, <2>1, <2>4, NoIds
  <2>6. \A t \in Threads : Distinct(items[t])'
    <3> TAKE t \in Threads
    <3>1. Distinct(items'[t])
      BY <2>1, <2>4, NoIds
    <3> QED BY <3>1 DEF Distinct
  <2>7. Live' \subseteq UNION {InFlight(t)' : t \in Threads}
    BY <2>3, <2>5, ThreadsAssumption
  <2>8. \A t \in Threads : (pc[t] \in {"pop", "mark"} => keys[t] \cap IdsOf(items[t]) = {})'
    BY <2>2
  <2>9. \A t \in Threads : (pc[t] \notin Holding => keys[t] = {})'
    BY <2>2 DEF Holding
  <2>10. \A t \in Threads : InFlight(t)' \subseteq Live' \ tracked'
    BY <2>2, <2>3, <2>5
  <2>11. \A t, u \in Threads : t # u => InFlight(t)' \cap InFlight(u)' = {}
    BY <2>5
  <2> QED BY <2>2, <2>6, <2>7, <2>8, <2>9, <2>10, <2>11 DEF RowsOwned
<1>11. ASSUME CrashTorn PROVE RowsOwned'
  <2>1. /\ rows' = rows /\ tracked' = {} /\ leaked' = Live
        /\ \A t \in Threads : pc'[t] = "idle" /\ keys'[t] = {} /\ items'[t] = <<>>
    BY <1>11 DEF CrashTorn, Forgotten
  <2>2. Live' = Live
    BY <2>1 DEF Live, Marked
  <2>3. \A t \in Threads : IdsOf(items[t])' = {} /\ Distinct(items[t])'
    <3> TAKE t \in Threads
    <3>1. IdsOf(items'[t]) = {} /\ Distinct(items'[t])
      BY <2>1, NoIds
    <3> QED BY <3>1 DEF IdsOf, Distinct
  <2>4. \A t \in Threads : InFlight(t)' = {}
    BY <2>1, <2>3 DEF InFlight
  <2>5. \A t \in Threads : (/\ pc[t] \in {"pop", "mark"} => keys[t] \cap IdsOf(items[t]) = {}
                            /\ pc[t] \notin Holding => keys[t] = {})'
    BY <2>1 DEF Holding
  <2> QED BY <2>1, <2>2, <2>3, <2>4, <2>5 DEF RowsOwned
<1>7. ASSUME NEW t \in Threads, ClearDeletedData(t) \/ RebuildClear(t) PROVE RowsOwned'
  <2>1. Live' = Live
    BY <1>0, <1>7, ClearFacts DEF ClearDeletedData, RebuildClear
  <2>2. /\ tracked' = tracked /\ leaked' = leaked /\ items' = items /\ keys' = keys
        /\ \/ pc[t] = "clear" /\ pc' = [pc EXCEPT ![t] = "vdelete"]
           \/ pc[t] = "rebuild" /\ pc' = [pc EXCEPT ![t] = "rebuilt"]
    BY <1>7 DEF ClearDeletedData, RebuildClear, Goto, local, aux
  <2>3. \A u \in Threads \ {t} : pc'[u] = pc[u] /\ keys'[u] = keys[u]
    BY <1>0, <2>2 DEF TypeOK
  <2>5. pc[t] = "rebuild" => keys[t] = {}
    BY OwnFacts DEF Holding
  <2>4. \/ pc[t] = "clear" /\ pc'[t] = "vdelete"
        \/ pc[t] = "rebuild" /\ pc'[t] = "rebuilt" /\ keys'[t] = {}
    BY <1>0, <2>2, <2>5 DEF TypeOK
  <2> QED BY <1>0, <2>1, <2>2, <2>3, <2>4, OwnersKept DEF Holding
<1>8. ASSUME NEW t \in Threads,
             \/ MulAdd(t) \/ CountMarked(t) \/ CheckEvict(t) \/ PutTest(t)
             \/ RebuildDone(t) \/ GetScalarData(t) \/ Search(t)
             \/ FlushBegin(t) \/ FlushEnd(t)
      PROVE  RowsOwned'
  <2>1. /\ rows' = rows /\ tracked' = tracked /\ leaked' = leaked /\ items' = items
        /\ keys' = keys /\ pc[t] \notin Holding
        /\ \A u \in Threads \ {t} : pc'[u] = pc[u]
    BY <1>0, <1>8 DEF MulAdd, CountMarked, CheckEvict, PutTest, RebuildDone, GetScalarData,
       Search, FlushBegin, FlushEnd, Goto, Holding, TypeOK, stores, local, aux
  <2>2. keys[t] = {}
    BY <2>1, OwnFacts
  <2>3. Live' = Live
    BY <2>1 DEF Live, Marked
  <2> QED BY <1>0, <2>1, <2>2, <2>3, OwnersKept
<1>12. ASSUME NEW t \in Threads, GetMarkedIds(t) \/ VectorDelete(t) PROVE RowsOwned'
  <2>1. /\ rows' = rows /\ tracked' = tracked /\ leaked' = leaked /\ items' = items
        /\ pc[t] \notin {"pop", "mark"}
        /\ \A u \in Threads \ {t} : pc'[u] = pc[u] /\ keys'[u] = keys[u]
    BY <1>0, <1>12 DEF GetMarkedIds, VectorDelete, Goto, TypeOK, stores, aux
  <2>2. pc'[t] \notin {"pop", "mark"} /\ (pc'[t] \in Holding \/ keys'[t] = {})
    BY <1>0, <1>12 DEF GetMarkedIds, VectorDelete, Goto, TypeOK, Holding
  <2>3. Live' = Live
    BY <2>1 DEF Live, Marked
  <2> QED BY <1>0, <2>1, <2>2, <2>3, OwnersKept
<1>9. ASSUME UNCHANGED vars PROVE RowsOwned'
  <2>1. /\ rows' = rows /\ tracked' = tracked /\ leaked' = leaked /\ items' = items
        /\ pc' = pc /\ keys' = keys
    BY <1>9 DEF vars, stores, local, aux
  <2>2. Live' = Live
    BY <2>1 DEF Live, Marked
  <2> QED BY <1>0, <2>1, <2>2, OwnersKept
<1> QED BY <1>1, <1>2, <1>3, <1>4, <1>5, <1>6, <1>7, <1>8, <1>9, <1>10, <1>11, <1>12
        DEF Next, Continue, AtRest

\* Every step keeps a flush out of a restart, and a failed restart as it is.
LEMMA BootStep == DMInv /\ [Next]_vars => BootFirst'
<1> SUFFICES ASSUME DMInv, [Next]_vars PROVE BootFirst'
  OBVIOUS
<1>0. /\ BootFirst /\ pc \in [Threads -> {"idle", "add", "lookup", "flush"} \cup InPut]
  BY DEF DMInv, TypeOK
<1>1. CASE UNCHANGED <<torn, booting>> /\ \E t \in Threads : \E l \in {"add", "lookup"} \cup InPut :
              pc[t] = "idle" /\ ~ booting /\ pc' = [pc EXCEPT ![t] = l]
  BY <1>0, <1>1 DEF BootFirst, Broken, InPut
<1>2. ASSUME NEW t \in Threads, pc[t] \notin {"idle", "flush"}, torn' = torn,
             booting' => booting,
             \E l \in {"idle", "add", "lookup"} \cup InPut : pc' = [pc EXCEPT ![t] = l]
      PROVE  BootFirst'
  <2>1. ~ Broken
    BY <1>0, <1>2 DEF BootFirst
  <2>2. ~ Broken'
    BY <1>2, <2>1 DEF Broken
  <2>3. booting' => \A u \in Threads : pc'[u] # "flush"
    BY <1>0, <1>2 DEF BootFirst, InPut
  <2> QED BY <2>2, <2>3 DEF BootFirst
<1>3. ASSUME NEW t \in Threads, FlushBegin(t) \/ FlushEnd(t) PROVE BootFirst'
  <2>1. ~ booting'
    <3>1. CASE FlushBegin(t)
      BY <3>1 DEF FlushBegin
    <3>2. CASE FlushEnd(t)
      BY <1>0, <3>2 DEF FlushEnd, BootFirst
    <3> QED BY <1>3, <3>1, <3>2
  <2> QED BY <2>1 DEF BootFirst, Broken
<1>4. ASSUME NEW t \in Threads, Raise(t) PROVE BootFirst'
  <2>1. ~ booting'
    BY <1>4 DEF Raise
  <2> QED BY <2>1 DEF BootFirst, Broken
<1>5. CASE Crash
  <2>1. ~ torn' /\ \A t \in Threads : pc'[t] # "flush"
    BY <1>5 DEF Crash, Forgotten
  <2> QED BY <2>1 DEF BootFirst, Broken
<1>6. CASE CrashTorn
  <2>1. \A t \in Threads : pc'[t] = "idle"
    BY <1>6 DEF CrashTorn
  <2> QED BY <2>1 DEF BootFirst
<1>7. CASE UNCHANGED vars
  <2>1. pc' = pc /\ torn' = torn /\ booting' = booting
    BY <1>7 DEF vars, stores
  <2> QED BY <1>0, <2>1 DEF BootFirst, Broken
<1>8. ASSUME NEW t \in Threads, NEW n \in 1..MaxBatch, BatchInsert(t, n) PROVE BootFirst'
  BY <1>1, <1>8 DEF BatchInsert, Goto
<1>9. ASSUME NEW t \in Threads, Search(t) PROVE BootFirst'
  BY <1>1, <1>9 DEF Search, Goto, stores
<1>10. ASSUME NEW t \in Threads, Continue(t) PROVE BootFirst'
  <2>1. CASE FlushEnd(t)
    BY <1>3, <2>1
  <2>2. CASE PutInsert(t)
    BY <1>2, <2>2 DEF PutInsert, Goto, InPut
  <2>3. CASE ~ FlushEnd(t) /\ ~ PutInsert(t)
    <3>1. pc[t] \notin {"idle", "flush"} /\ torn' = torn /\ booting' = booting
      BY <1>10, <2>3 DEF Continue, MulAdd, PutTest, PopItem, PopError, MarkDeleted, CountMarked,
         CheckEvict, GetMarkedIds, ClearDeletedData, VectorDelete, RebuildClear, RebuildDone,
         GetScalarData, stores
    <3>2. \E l \in {"idle", "add", "lookup"} \cup InPut : pc' = [pc EXCEPT ![t] = l]
      BY <1>10, <2>3 DEF Continue, MulAdd, PutTest, PopItem, PopError, MarkDeleted, CountMarked,
         CheckEvict, GetMarkedIds, ClearDeletedData, VectorDelete, RebuildClear, RebuildDone,
         GetScalarData, Goto, InPut
    <3> QED BY <1>2, <3>1, <3>2
  <2> QED BY <2>1, <2>2, <2>3
<1> QED BY <1>3, <1>4, <1>5, <1>6, <1>7, <1>8, <1>9, <1>10 DEF Next, AtRest

-----------------------------------------------------------------------------
(* The theorems.                                                           *)

LEMMA InitInv == Init => DMInv
<1> SUFFICES ASSUME Init PROVE DMInv
  OBVIOUS
<1>1. DOMAIN rows = {} /\ Live = {}
  BY DEF Init, Live, Marked
<1>2. <<>> \in Seq(Pair) /\ NoVector \in Pair
  BY DEF NoVector, Pair
<1>3. TypeOK
  BY <1>1, <1>2 DEF TypeOK, Init, InPut
<1>4. IdsBounded
  BY <1>1 DEF IdsBounded
<1>5. \A t \in Threads : items[t] = <<>> /\ pc[t] = "idle"
  BY DEF Init
<1>6. \A t \in Threads : InFlight(t) = {} /\ Distinct(items[t])
  BY <1>5, NoIds DEF InFlight
<1>7. RowsOwned
  BY <1>1, <1>5, <1>6 DEF RowsOwned, Init
<1>8. BootFirst
  BY <1>5 DEF BootFirst, Broken, Init
<1> QED BY <1>3, <1>4, <1>7, <1>8 DEF DMInv

LEMMA DMInvStep == DMInv /\ [Next]_vars => DMInv'
BY TypeStep, BoundedStep, OwnerStep, BootStep DEF DMInv

LEMMA DMInvariant == Spec => []DMInv
BY InitInv, DMInvStep, PTL DEF Spec

\* What left ids out: a failure, a failed restart, or a batch that does not
\* fit; and one that fits, of the only thread, still finds its victims.
LeaksExplained ==
    /\ leaked # {} => failures > 0 \/ Broken \/ ~BatchesFit
    /\ \A t \in Threads : pc[t] = "pop" =>
          /\ Cardinality(keys[t]) < CleanSize
          /\ Threads = {BootThread} => Cardinality(tracked) + Cardinality(keys[t]) >= MaxSize

\* A step of a call that does not leave ids out nor comes to a batch.
LEMMA LeaksKept ==
    ASSUME DMInv, LeaksExplained, NEW t \in Threads,
           pc[t] # "idle" \/ ~ booting, pc'[t] # "pop",
           \A u \in Threads \ {t} : pc'[u] = pc[u] /\ keys'[u] = keys[u],
           (leaked' = leaked /\ failures' = failures) \/ failures' > 0
    PROVE  LeaksExplained'
<1>1. ~ Broken
  BY DEF DMInv, BootFirst, Broken
<1>2. leaked' # {} => failures' > 0 \/ Broken' \/ ~BatchesFit
  <2>1. CASE failures' > 0
    BY <2>1
  <2>2. CASE leaked' = leaked /\ failures' = failures
    BY <1>1, <2>2 DEF LeaksExplained
  <2> QED BY <2>1, <2>2
<1>3. ASSUME NEW u \in Threads, pc'[u] = "pop"
      PROVE  /\ Cardinality(keys'[u]) < CleanSize
             /\ Threads = {BootThread} => Cardinality(tracked') + Cardinality(keys'[u]) >= MaxSize
  <2>1. u # t /\ pc[u] = "pop" /\ keys'[u] = keys[u]
    BY <1>3
  <2>2. Threads # {BootThread}
    BY <2>1
  <2> QED BY <2>1, <2>2 DEF LeaksExplained
<1>4. \A u \in Threads : pc'[u] = "pop" =>
         /\ Cardinality(keys'[u]) < CleanSize
         /\ Threads = {BootThread} => Cardinality(tracked') + Cardinality(keys'[u]) >= MaxSize
  BY <1>3
<1>5. BatchesFit' <=> BatchesFit
  BY DEF BatchesFit
<1> QED BY <1>2, <1>4, <1>5 DEF LeaksExplained

\* The index and a batch are finite.
LEMMA BatchFinite ==
    ASSUME DMInv, NEW t \in Threads, pc[t] \in {"pop", "mark"}
    PROVE  /\ IsFiniteSet(tracked) /\ IsFiniteSet(keys[t])
           /\ Cardinality(tracked) \in Nat /\ Cardinality(keys[t]) \in Nat
           /\ keys[t] \cap tracked = {}
<1>1. saves \in Nat /\ Live \subseteq 1..saves
  BY LiveFacts DEF DMInv, TypeOK, IdsBounded
<1>2. tracked \subseteq Live /\ keys[t] \subseteq Live \ tracked
  BY OwnFacts
<1>3. IsFiniteSet(1..saves)
  BY <1>1, FS_Interval
<1>4. IsFiniteSet(tracked) /\ IsFiniteSet(keys[t])
  BY <1>1, <1>2, <1>3, FS_Subset
<1> QED BY <1>2, <1>4, FS_CardinalityType

\* Every step explains what it leaves out.
LEMMA LeaksStep ==
    ASSUME DMInv, LeaksExplained, [Next]_vars
    PROVE  LeaksExplained'
<1>0. /\ pc \in [Threads -> {"idle", "add", "lookup", "flush"} \cup InPut]
      /\ keys \in [Threads -> SUBSET Nat] /\ failures \in Nat
      /\ CleanSize \in Nat \ {0} /\ MaxSize \in Nat \ {0}
  BY SizesAssumption DEF DMInv, TypeOK
<1>1. ASSUME NEW t \in Threads, PutTest(t) PROVE LeaksExplained'
  <2>1. /\ keys' = keys /\ tracked' = tracked /\ leaked' = leaked /\ failures' = failures
        /\ pc[t] = "put"
        /\ pc' = [pc EXCEPT ![t] = IF Cardinality(tracked) < MaxSize THEN "insert" ELSE "pop"]
    BY <1>1 DEF PutTest, Goto, stores, local, budget, aux
  <2>2. CASE Cardinality(tracked) < MaxSize
    <3>1. pc'[t] = "insert" /\ \A u \in Threads \ {t} : pc'[u] = pc[u]
      BY <1>0, <2>1, <2>2
    <3> QED BY <1>0, <2>1, <3>1, LeaksKept
  <2>3. CASE ~ (Cardinality(tracked) < MaxSize)
    <3>1. /\ ~ Broken /\ torn' = torn /\ booting' = booting
      BY <1>1 DEF DMInv, BootFirst, PutTest, stores
    <3>2. leaked' # {} => failures' > 0 \/ ~BatchesFit
      BY <2>1, <3>1 DEF LeaksExplained
    <3>3. keys[t] = {}
      BY <2>1, OwnFacts DEF Holding
    <3>4. Cardinality(keys[t]) = 0
      BY <3>3, FS_EmptySet
    <3>5. Cardinality(tracked) \in Nat
      <4>1. saves \in Nat /\ tracked \subseteq 1..saves
        BY LiveFacts DEF DMInv, TypeOK, IdsBounded, RowsOwned
      <4>2. IsFiniteSet(1..saves)
        BY <4>1, FS_Interval
      <4> QED BY <4>1, <4>2, FS_Subset, FS_CardinalityType
    <3>6. Cardinality(keys[t]) < CleanSize /\ Cardinality(tracked) + Cardinality(keys[t]) >= MaxSize
      BY <1>0, <2>3, <3>4, <3>5
    <3>7. \A u \in Threads : u # t => pc'[u] = pc[u]
      BY <1>0, <2>1
    <3>8. \A u \in Threads : pc'[u] = "pop" =>
             /\ Cardinality(keys'[u]) < CleanSize
             /\ Threads = {BootThread} => Cardinality(tracked') + Cardinality(keys'[u]) >= MaxSize
      BY <2>1, <3>6, <3>7 DEF LeaksExplained
    <3> QED BY <3>2, <3>8 DEF LeaksExplained, BatchesFit
  <2> QED BY <2>2, <2>3
<1>2. ASSUME NEW t \in Threads, PopItem(t) PROVE LeaksExplained'
  <2>1. PICK v \in tracked :
           /\ tracked' = tracked \ {v}
           /\ keys' = [keys EXCEPT ![t] = keys[t] \cup {v}]
           /\ pc' = [pc EXCEPT ![t] = IF Cardinality(keys[t] \cup {v}) >= CleanSize
                                      THEN "mark" ELSE "pop"]
    BY <1>2 DEF PopItem, Goto
  <2>2. pc[t] = "pop" /\ leaked' = leaked /\ failures' = failures
    BY <1>2 DEF PopItem, aux, budget
  <2>3. ~ Broken
    BY <2>2 DEF DMInv, BootFirst
  <2>4. leaked' # {} => failures' > 0 \/ ~BatchesFit
    BY <2>2, <2>3 DEF LeaksExplained
  <2>5. /\ Cardinality(tracked \ {v}) = Cardinality(tracked) - 1
        /\ Cardinality(keys[t] \cup {v}) = Cardinality(keys[t]) + 1
        /\ Cardinality(tracked) \in Nat /\ Cardinality(keys[t]) \in Nat
    BY <2>2, BatchFinite, FS_AddElement, FS_RemoveElement
  <2>6. /\ keys'[t] = keys[t] \cup {v}
        /\ pc'[t] = "pop" => ~ (Cardinality(keys[t] \cup {v}) >= CleanSize)
        /\ \A u \in Threads : u # t => pc'[u] = pc[u] /\ keys'[u] = keys[u]
    BY <1>0, <2>1
  <2>7. pc'[t] = "pop" => /\ Cardinality(keys'[t]) < CleanSize
                          /\ Threads = {BootThread} =>
                                Cardinality(tracked') + Cardinality(keys'[t]) >= MaxSize
    <3>1. Threads = {BootThread} => Cardinality(tracked) + Cardinality(keys[t]) >= MaxSize
      BY <2>2 DEF LeaksExplained
    <3> QED BY <1>0, <2>1, <2>5, <2>6, <3>1
  <2>8. ASSUME NEW u \in Threads, u # t, pc'[u] = "pop"
        PROVE  Cardinality(keys'[u]) < CleanSize /\ Threads # {BootThread}
    BY <2>6, <2>8 DEF LeaksExplained
  <2>9. \A u \in Threads : pc'[u] = "pop" =>
           /\ Cardinality(keys'[u]) < CleanSize
           /\ Threads = {BootThread} => Cardinality(tracked') + Cardinality(keys'[u]) >= MaxSize
    BY <2>7, <2>8
  <2> QED BY <2>4, <2>9 DEF LeaksExplained, BatchesFit
<1>3. ASSUME NEW t \in Threads, PopError(t) PROVE LeaksExplained'
  <2>1. /\ pc[t] = "pop" /\ pc' = [pc EXCEPT ![t] = "mark"]
        /\ keys' = [keys EXCEPT ![t] = {}] /\ leaked' = leaked \cup keys[t]
        /\ failures' = failures
        /\ tracked = {} \/ \E u \in Threads \ {t} : pc[u] = "pop"
    BY <1>3 DEF PopError, Goto, budget
  <2>2. /\ pc'[t] # "pop"
        /\ \A u \in Threads \ {t} : pc'[u] = pc[u] /\ keys'[u] = keys[u]
    BY <1>0, <2>1
  <2>3. CASE keys[t] = {}
    BY <2>1, <2>2, <2>3, LeaksKept
  <2>4. CASE keys[t] # {}
    <3>1. Cardinality(keys[t]) \in Nat \ {0} /\ Cardinality(keys[t]) < CleanSize
      BY <2>1, <2>4, BatchFinite, FS_EmptySet DEF LeaksExplained
    <3>2. CleanSize # 1
      BY <1>0, <3>1
    <3>3. ASSUME Threads = {BootThread}, CleanSize <= MaxSize PROVE FALSE
      <4>1. tracked = {}
        BY <2>1, <3>3
      <4>2. Cardinality(tracked) = 0
        BY <4>1, FS_EmptySet
      <4>3. Cardinality(tracked) + Cardinality(keys[t]) >= MaxSize
        BY <2>1, <3>3 DEF LeaksExplained
      <4> QED BY <1>0, <3>1, <3>3, <4>2, <4>3
    <3>4. ~ BatchesFit
      BY <3>2, <3>3 DEF BatchesFit
    <3>5. ASSUME NEW u \in Threads, pc'[u] = "pop"
          PROVE  Cardinality(keys'[u]) < CleanSize /\ Threads # {BootThread}
      <4>1. u # t /\ pc[u] = "pop" /\ keys'[u] = keys[u]
        BY <2>2, <3>5
      <4> QED BY <4>1 DEF LeaksExplained
    <3>6. \A u \in Threads : pc'[u] = "pop" =>
             /\ Cardinality(keys'[u]) < CleanSize
             /\ Threads = {BootThread} => Cardinality(tracked') + Cardinality(keys'[u]) >= MaxSize
      BY <3>5
    <3> QED BY <3>4, <3>6 DEF LeaksExplained, BatchesFit
  <2> QED BY <2>3, <2>4
<1>4. ASSUME NEW t \in Threads, Raise(t) PROVE LeaksExplained'
  <2>1. /\ pc[t] # "idle" /\ pc' = [pc EXCEPT ![t] = "idle"]
        /\ keys' = [keys EXCEPT ![t] = {}] /\ failures' = failures + 1
    BY <1>4 DEF Raise, Goto
  <2>2. failures' > 0
    BY <1>0, <2>1
  <2>3. pc'[t] # "pop" /\ \A u \in Threads \ {t} : pc'[u] = pc[u] /\ keys'[u] = keys[u]
    BY <1>0, <2>1
  <2> QED BY <2>1, <2>2, <2>3, LeaksKept
<1>5. ASSUME Crash PROVE LeaksExplained'
  <2>1. leaked' = {} /\ \A t \in Threads : pc'[t] # "pop"
    BY <1>5 DEF Crash
  <2> QED BY <2>1 DEF LeaksExplained
<1>6. ASSUME CrashTorn PROVE LeaksExplained'
  <2>1. /\ \A t \in Threads : pc'[t] # "pop"
        /\ torn' = torn /\ torn /\ booting'
    BY <1>6 DEF CrashTorn, Forgotten
  <2> QED BY <2>1 DEF LeaksExplained, Broken
<1>7. ASSUME NEW t \in Threads,
             \/ MulAdd(t) \/ PutInsert(t) \/ MarkDeleted(t) \/ CountMarked(t)
             \/ CheckEvict(t) \/ GetMarkedIds(t) \/ ClearDeletedData(t) \/ VectorDelete(t)
             \/ RebuildClear(t) \/ RebuildDone(t) \/ GetScalarData(t)
             \/ Search(t) \/ FlushBegin(t) \/ FlushEnd(t)
             \/ \E n \in 1..MaxBatch : BatchInsert(t, n)
      PROVE  LeaksExplained'
  <2>1. pc[t] # "idle" \/ ~ booting
    BY <1>7 DEF MulAdd, PutInsert, MarkDeleted, CountMarked, CheckEvict, GetMarkedIds,
       ClearDeletedData, VectorDelete, RebuildClear, RebuildDone, GetScalarData, Search,
       FlushBegin, FlushEnd, BatchInsert
  <2>2. leaked' = leaked /\ failures' = failures
    BY <1>7 DEF MulAdd, PutInsert, MarkDeleted, CountMarked, CheckEvict, GetMarkedIds,
       ClearDeletedData, VectorDelete, RebuildClear, RebuildDone, GetScalarData, Search,
       FlushBegin, FlushEnd, BatchInsert, aux, budget
  <2>3. \E l \in {"idle", "add", "lookup", "flush"} \cup (InPut \ {"pop"}) :
           pc' = [pc EXCEPT ![t] = l]
    BY <1>7 DEF MulAdd, PutInsert, MarkDeleted, CountMarked, CheckEvict, GetMarkedIds,
       ClearDeletedData, VectorDelete, RebuildClear, RebuildDone, GetScalarData, Search,
       FlushBegin, FlushEnd, BatchInsert, Goto, InPut
  <2>4. keys' = keys \/ \E S : keys' = [keys EXCEPT ![t] = S]
    BY <1>7 DEF MulAdd, PutInsert, MarkDeleted, CountMarked, CheckEvict, GetMarkedIds,
       ClearDeletedData, VectorDelete, RebuildClear, RebuildDone, GetScalarData, Search,
       FlushBegin, FlushEnd, BatchInsert, local
  <2>5. pc'[t] # "pop" /\ \A u \in Threads \ {t} : pc'[u] = pc[u] /\ keys'[u] = keys[u]
    BY <1>0, <2>3, <2>4
  <2> QED BY <1>0, <2>1, <2>2, <2>5, LeaksKept
<1>8. CASE UNCHANGED vars
  <2>1. /\ pc' = pc /\ torn' = torn /\ booting' = booting /\ leaked' = leaked
        /\ failures' = failures /\ keys' = keys /\ tracked' = tracked
    BY <1>8 DEF vars, stores, local, budget, aux
  <2> QED BY <2>1 DEF LeaksExplained, Broken, BatchesFit
<1> QED BY <1>1, <1>2, <1>3, <1>4, <1>5, <1>6, <1>7, <1>8 DEF Next, Continue, AtRest

\* The eviction index that the put callback of import_data and __init__ fill,
\* and _clear empties through soft_evict, holds live rows of the question table
\* only; and every live row is in it, on its way through a running call, or
\* left out by an exception.  Only three leave any out: a store call that
\* raised, an index file cut off by a crash, and a KeyError in a batch of
\* several victims, which one thread meets if clean_size exceeds max_size and
\* two threads for any clean_size above 1.
THEOREM IndexCorrect == Spec => []IndexAgreesWithTable
<1>1. Init => LeaksExplained
  BY DEF Init, LeaksExplained
<1>2. DMInv /\ LeaksExplained /\ [Next]_vars => (DMInv /\ LeaksExplained)'
  BY DMInvStep, LeaksStep
<1>3. DMInv /\ LeaksExplained => IndexAgreesWithTable
  BY DEF DMInv, RowsOwned, LeaksExplained, IndexAgreesWithTable
<1> QED BY <1>1, <1>2, <1>3, InitInv, PTL DEF Spec

\* While eviction_base.put makes room for the id of a row, whatever other
\* threads evict, the row stays live, so the question table is not empty when
\* check_evict divides by its number of rows.
THEOREM RowBeingPutCorrect == Spec => []RowBeingPutIsLive
<1>1. DMInv => RowBeingPutIsLive
  <2> SUFFICES ASSUME DMInv, NEW t \in Threads, pc[t] \in InPut
               PROVE  Head(items[t])[1] \in Live
    BY DEF RowBeingPutIsLive
  <2>1. Head(items[t])[1] \in IdsOf(items[t])
    BY OwnFacts, HeadTailIds
  <2> QED BY <2>1, OwnFacts
<1> QED BY <1>1, DMInvariant, PTL

-----------------------------------------------------------------------------
(* One thread: what a vector or the index file says of an id stays true.   *)
(*                                                                         *)
(* The largest id of the table is always live: it is the last of the list  *)
(* that is being put, which no eviction touches, or nothing has been put   *)
(* since.  So no id is given out twice, and what a vector was made from is *)
(* what its row holds, however old the index file is.                      *)

\* The row that p is of has its content, and no row to come can have its id.
Known(p) ==
    /\ \E i \in DOMAIN rows : p[1] <= i
    /\ p[1] \in DOMAIN rows => rows[p[1]].content = p[2]

\* The largest id is live, and last in the list that is being put.
NewestLive ==
    /\ \A i \in DOMAIN rows : \E j \in Live : i <= j
    /\ items[BootThread] # <<>> =>
          \A i \in DOMAIN rows : i <= items[BootThread][Len(items[BootThread])][1]

\* Vectors, in memory, on disk or on the way, are of the rows they name.
VectorsKnown ==
    /\ \A p \in vecs \cup disk : Known(p)
    /\ pc[BootThread] = "lookup" => Known(found[BootThread])
    /\ \A p \in Range(items[BootThread]) : rows[p[1]].content = p[2]

\* The ids of the last flush are not given out again, their vectors are in the
\* index, unless it could not be read, and in its file, were it whole, while
\* they are live, and delete takes dead ids.
FlushedKept ==
    /\ \A i \in flushed : \E j \in DOMAIN rows : i <= j
    /\ \A i \in flushed \cap Live : /\ <<i, rows[i].content>> \in disk
                                   /\ (Broken \/ <<i, rows[i].content>> \in vecs)
    /\ pc[BootThread] \in {"clear", "vdelete"} => keys[BootThread] \cap Live = {}

SoloInv == NewestLive /\ VectorsKnown /\ FlushedKept

\* The last entry of a list, and of what is left when its head is taken.
LEMMA LastFacts ==
    ASSUME NEW s \in Seq(Pair), s # <<>>
    PROVE  /\ s[Len(s)][1] \in IdsOf(s)
           /\ Range(Tail(s)) \subseteq Range(s)
           /\ Tail(s) # <<>> => Tail(s)[Len(Tail(s))] = s[Len(s)]
<1>1. /\ Len(s) \in Nat \ {0} /\ DOMAIN s = 1..Len(s)
  BY LenProperties, EmptySeq
<1>2. /\ Tail(s) \in Seq(Pair)
      /\ Len(Tail(s)) = Len(s) - 1
      /\ \A j \in 1..Len(Tail(s)) : Tail(s)[j] = s[j + 1]
  BY HeadTailProperties
<1>3. DOMAIN Tail(s) = 1..(Len(s) - 1)
  BY <1>2, LenProperties
<1>4. s[Len(s)] \in Range(s)
  BY <1>1 DEF Range
<1>5. \A j \in DOMAIN Tail(s) : j + 1 \in DOMAIN s /\ Tail(s)[j] = s[j + 1]
  BY <1>1, <1>2, <1>3
<1>6. Range(Tail(s)) \subseteq Range(s)
  BY <1>5 DEF Range
<1>7. ASSUME Tail(s) # <<>> PROVE Tail(s)[Len(Tail(s))] = s[Len(s)]
  <2>1. Len(Tail(s)) # 0
    BY <1>2, <1>7, EmptySeq
  <2> QED BY <1>1, <1>2, <2>1
<1> QED BY <1>4, <1>6, <1>7 DEF IdsOf

\* batch_insert keeps the rows there are, gives its rows larger ids, the
\* largest last, and pairs each id with the content of its row.
LEMMA InsertOrder ==
    ASSUME TypeOK, IdsBounded, NEW t \in Threads, NEW n \in 1..MaxBatch, BatchInsert(t, n)
    PROVE  LET new == items'[t]
           IN  /\ \A i \in DOMAIN rows : rows'[i] = rows[i]
               /\ \A i \in IdsOf(new) : \A j \in DOMAIN rows : j < i
               /\ \A i \in DOMAIN rows' : i <= new[Len(new)][1]
               /\ new[Len(new)][1] \in IdsOf(new)
               /\ \A p \in Range(new) : rows'[p[1]].content = p[2]
<1> DEFINE new == [j \in 1..n |-> <<NextId + j - 1, saves + j>>]
<1>1. n \in Nat \ {0} /\ saves \in Nat /\ NextId \in Nat \ {0}
  BY BoundsAssumption, NextIdFacts DEF TypeOK
<1>2. /\ items'[t] = new
      /\ rows' = [i \in DOMAIN rows \cup IdsOf(new) |->
              IF i \in DOMAIN rows THEN rows[i]
              ELSE [content |-> new[i - NextId + 1][2], deleted |-> FALSE]]
  BY DEF BatchInsert, TypeOK
<1>3. \A j \in 1..n : new[j][1] = NextId + j - 1
  OBVIOUS
<1>4. Len(new) = n /\ DOMAIN new = 1..n
  BY <1>1
<1> HIDE DEF new
<1>5. IdsOf(new) = {new[j][1] : j \in 1..n} /\ Range(new) = {new[j] : j \in 1..n}
  <2>1. Range(new) = {new[j] : j \in 1..n}
    BY <1>4 DEF Range
  <2>2. {p[1] : p \in {new[j] : j \in 1..n}} = {new[j][1] : j \in 1..n}
    OBVIOUS
  <2> QED BY <2>1, <2>2 DEF IdsOf
<1>6. ASSUME NEW j \in 1..n PROVE /\ new[j][1] \in Nat /\ new[j][1] - NextId + 1 = j
                                 /\ NextId <= new[j][1] /\ new[j][1] <= new[n][1]
  <2>1. /\ new[j][1] = NextId + j - 1 /\ new[n][1] = NextId + n - 1
        /\ j \in Nat \ {0} /\ j <= n
    BY <1>1, <1>3
  <2> QED BY <1>1, <2>1
<1>7. n \in 1..n
  BY <1>1
<1>8. new[Len(new)][1] \in IdsOf(new)
  BY <1>4, <1>5, <1>7
<1>9. \A i \in DOMAIN rows : i < NextId /\ i \in Nat
  BY NextIdFacts DEF TypeOK
<1>10. \A i \in IdsOf(new) : \A j \in DOMAIN rows : j < i
  <2> SUFFICES ASSUME NEW i \in IdsOf(new), NEW j \in DOMAIN rows PROVE j < i
    OBVIOUS
  <2>1. i \in Nat /\ NextId <= i
    BY <1>5, <1>6
  <2> QED BY <1>1, <1>9, <2>1
<1>11. \A i \in DOMAIN rows' : i <= new[Len(new)][1]
  <2> SUFFICES ASSUME NEW i \in DOMAIN rows' PROVE i <= new[Len(new)][1]
    OBVIOUS
  <2>1. i \in DOMAIN rows \/ i \in IdsOf(new)
    BY <1>2
  <2>2. CASE i \in DOMAIN rows
    <3>1. i < new[n][1] /\ i \in Nat /\ new[n][1] \in Nat
      BY <1>4, <1>6, <1>7, <1>8, <1>9, <1>10, <2>2
    <3> QED BY <1>4, <3>1
  <2>3. CASE i \in IdsOf(new)
    BY <1>4, <1>5, <1>6, <2>3
  <2> QED BY <2>1, <2>2, <2>3
<1>12. \A i \in DOMAIN rows : rows'[i] = rows[i]
  BY <1>2
<1>13. \A p \in Range(new) : rows'[p[1]].content = p[2]
  <2> TAKE p \in Range(new)
  <2>1. PICK j \in 1..n : p = new[j]
    BY <1>5
  <2>2. p[1] \in IdsOf(new) /\ p[1] \notin DOMAIN rows
    <3>1. p[1] \in IdsOf(new) /\ p[1] \in Nat
      BY <1>5, <1>6, <2>1
    <3>2. p[1] \in DOMAIN rows => p[1] < p[1]
      BY <1>10, <3>1
    <3> QED BY <3>1, <3>2
  <2>3. rows'[p[1]] = [content |-> new[p[1] - NextId + 1][2], deleted |-> FALSE]
    BY <1>2, <2>2
  <2> QED BY <1>6, <2>1, <2>3
<1> QED BY <1>2, <1>8, <1>10, <1>11, <1>12, <1>13

\* What __init__ puts after a crash has the contents of the rows, and ends
\* with the largest live id.
LEMMA BootOrder ==
    ASSUME TypeOK, IdsBounded, Crash
    PROVE  LET boot == items'[BootThread]
           IN  /\ \A p \in Range(boot) : rows[p[1]].content = p[2]
               /\ boot # <<>> => \A i \in Live : i <= boot[Len(boot)][1]
<1> DEFINE n == Cardinality(Live)
           boot == [j \in 1..n |-> <<Listed(Live)[j], rows[Listed(Live)[j]].content>>]
<1>1. items'[BootThread] = boot
  BY ThreadsAssumption DEF Crash
<1>2. n \in Nat /\ (n = 0 <=> Live = {}) /\ Ascending(Listed(Live), n)
  BY ListedFacts
<1>3. \A i \in Live : \E j \in 1..n : Listed(Live)[j] = i
  BY ListedFacts
<1>4. \A j \in 1..n : Listed(Live)[j] \in Nat
  BY ListedFacts, LiveFacts DEF TypeOK
<1>5. Len(boot) = n /\ DOMAIN boot = 1..n
  BY <1>2
<1>6. \A j \in 1..n : boot[j] = <<Listed(Live)[j], rows[Listed(Live)[j]].content>>
  OBVIOUS
<1> HIDE DEF boot
<1>7. \A p \in Range(boot) : rows[p[1]].content = p[2]
  BY <1>5, <1>6 DEF Range
<1>8. ASSUME boot # <<>>, NEW i \in Live PROVE i <= boot[Len(boot)][1]
  <2>1. PICK j \in 1..n : Listed(Live)[j] = i
    BY <1>3
  <2>2. n \in 1..n /\ boot[Len(boot)][1] = Listed(Live)[n] /\ j \in Nat /\ j <= n
    BY <1>2, <1>5, <1>6
  <2>3. i \in Nat /\ Listed(Live)[n] \in Nat
    BY <1>4, <2>1, <2>2
  <2>4. CASE j = n
    BY <2>1, <2>2, <2>3, <2>4
  <2>5. CASE j # n
    <3>1. j < n
      BY <1>2, <2>2, <2>5
    <3>2. Listed(Live)[j] < Listed(Live)[n]
      BY <1>2, <2>2, <3>1 DEF Ascending
    <3> QED BY <2>1, <2>2, <2>3, <3>2
  <2> QED BY <2>4, <2>5
<1> QED BY <1>1, <1>7, <1>8

\* Every step keeps the largest id live, and last.
LEMMA NewestStep ==
    ASSUME Threads = {BootThread}, DMInv, NewestLive, [Next]_vars
    PROVE  NewestLive'
<1> DEFINE s == items[BootThread]
<1>0. /\ TypeOK /\ IdsBounded /\ RowsOwned /\ BootThread \in Threads
      /\ \A t \in Threads : t = BootThread
  BY ThreadsAssumption DEF DMInv
<1>1. s \in Seq(Pair) /\ Live \subseteq DOMAIN rows /\ DOMAIN rows \subseteq Nat
  BY <1>0, LiveFacts DEF TypeOK
<1>2. CASE rows' = rows /\ items' = items
  <2>1. Live' = Live
    BY <1>2 DEF Live, Marked
  <2> QED BY <1>2, <2>1 DEF NewestLive
<1>3. ASSUME NEW n \in 1..MaxBatch, BatchInsert(BootThread, n) PROVE NewestLive'
  <2> DEFINE new == items'[BootThread]
  <2>1. /\ \A i \in DOMAIN rows' : i <= new[Len(new)][1]
        /\ new[Len(new)][1] \in IdsOf(new)
    BY <1>0, <1>3, InsertOrder
  <2>2. Live' = Live \cup IdsOf(new)
    BY <1>0, <1>3, InsertFacts
  <2>3. \A i \in DOMAIN rows' : \E j \in Live' : i <= j
    BY <2>1, <2>2
  <2> QED BY <2>1, <2>3 DEF NewestLive
<1>4. CASE PutInsert(BootThread)
  <2>1. rows' = rows /\ items'[BootThread] = Tail(s) /\ s # <<>>
    BY <1>0, <1>4 DEF PutInsert, TypeOK, InPut
  <2>2. Live' = Live
    BY <2>1 DEF Live, Marked
  <2>3. Tail(s) # <<>> => Tail(s)[Len(Tail(s))] = s[Len(s)]
    BY <1>1, <2>1, LastFacts
  <2>4. \A i \in DOMAIN rows : i <= s[Len(s)][1]
    BY <2>1 DEF NewestLive
  <2> QED BY <2>1, <2>2, <2>3, <2>4 DEF NewestLive
<1>5. CASE MarkDeleted(BootThread)
  <2>1. /\ DOMAIN rows' = DOMAIN rows /\ Live' = Live \ keys[BootThread]
        /\ items' = items /\ pc[BootThread] = "mark"
    BY <1>0, <1>5, MarkFacts DEF MarkDeleted
  <2>2. s # <<>> /\ IdsOf(s) \subseteq Live /\ keys[BootThread] \cap IdsOf(s) = {}
    <3>1. IdsOf(s) \subseteq InFlight(BootThread) /\ InFlight(BootThread) \subseteq Live
      BY <1>0, OwnFacts
    <3>2. s # <<>>
      BY <1>0, <2>1 DEF TypeOK, InPut
    <3>3. keys[BootThread] \cap IdsOf(s) = {}
      BY <1>0, <2>1 DEF RowsOwned
    <3> QED BY <3>1, <3>2, <3>3
  <2>3. s[Len(s)][1] \in Live'
    BY <1>1, <2>1, <2>2, LastFacts
  <2>4. \A i \in DOMAIN rows : i <= s[Len(s)][1]
    BY <2>2 DEF NewestLive
  <2> QED BY <2>1, <2>3, <2>4 DEF NewestLive
<1>6. CASE ClearDeletedData(BootThread) \/ RebuildClear(BootThread)
  <2>1. rows' = Restrict(rows, Live) /\ items' = items
    BY <1>6 DEF ClearDeletedData, RebuildClear, local
  <2>2. DOMAIN rows' = Live /\ Live' = Live
    BY <1>0, <2>1, ClearFacts
  <2>3. \A i \in Live : i <= i
    BY <1>1
  <2> QED BY <1>1, <2>1, <2>2, <2>3 DEF NewestLive
<1>7. CASE Raise(BootThread)
  <2>1. rows' = rows /\ items'[BootThread] = <<>>
    BY <1>0, <1>7 DEF Raise, TypeOK, stores
  <2>2. Live' = Live
    BY <2>1 DEF Live, Marked
  <2> QED BY <2>1, <2>2 DEF NewestLive
<1>8. CASE Crash
  <2> DEFINE boot == items'[BootThread]
  <2>1. boot \in Seq(Pair) /\ IdsOf(boot) = Live
    BY <1>0, <1>8, BootFacts
  <2>2. boot # <<>> => \A i \in Live : i <= boot[Len(boot)][1]
    BY <1>0, <1>8, BootOrder
  <2>3. rows' = rows
    BY <1>8 DEF Crash, Forgotten
  <2>4. Live' = Live
    BY <2>3 DEF Live, Marked
  <2> HIDE DEF boot
  <2>5. ASSUME boot # <<>>, NEW i \in DOMAIN rows PROVE i <= boot[Len(boot)][1]
    <3>1. PICK j \in Live : i <= j
      BY DEF NewestLive
    <3>2. j <= boot[Len(boot)][1] /\ boot[Len(boot)][1] \in Live
      BY <2>1, <2>2, <2>5, LastFacts
    <3>3. i \in Nat /\ j \in Nat /\ boot[Len(boot)][1] \in Nat
      BY <1>1, <3>2
    <3> QED BY <3>1, <3>2, <3>3
  <2>6. \A i \in DOMAIN rows : \E j \in Live : i <= j
    BY DEF NewestLive
  <2> USE DEF boot
  <2> QED BY <2>3, <2>4, <2>5, <2>6 DEF NewestLive
<1>9. CASE \/ MulAdd(BootThread) \/ PutTest(BootThread) \/ PopItem(BootThread)
           \/ PopError(BootThread) \/ CountMarked(BootThread)
           \/ CheckEvict(BootThread) \/ GetMarkedIds(BootThread) \/ VectorDelete(BootThread)
           \/ RebuildDone(BootThread) \/ GetScalarData(BootThread) \/ FlushEnd(BootThread)
           \/ Search(BootThread) \/ FlushBegin(BootThread) \/ AtRest \/ UNCHANGED vars
  BY <1>2, <1>9 DEF MulAdd, PutTest, PopItem, PopError, CountMarked, CheckEvict, GetMarkedIds,
     VectorDelete, RebuildDone, GetScalarData, Search, FlushBegin, FlushEnd, AtRest, vars,
     stores, local
<1>11. CASE CrashTorn
  <2>1. rows' = rows /\ items'[BootThread] = <<>>
    BY <1>0, <1>11 DEF CrashTorn, Forgotten
  <2>2. Live' = Live
    BY <2>1 DEF Live, Marked
  <2> QED BY <2>1, <2>2 DEF NewestLive
<1>10. ASSUME NEW t \in Threads, Continue(t) PROVE NewestLive'
  BY <1>0, <1>4, <1>5, <1>6, <1>9, <1>10 DEF Continue
<1> QED BY <1>0, <1>3, <1>7, <1>8, <1>9, <1>10, <1>11 DEF Next

\* What a step leaves of the rows: contents, and ids below those to come.
RowsKept ==
    /\ \A i \in DOMAIN rows \cap DOMAIN rows' : rows'[i].content = rows[i].content
    /\ \A i \in DOMAIN rows : \E j \in DOMAIN rows' : i <= j
    /\ \A i \in DOMAIN rows' \ DOMAIN rows : \A j \in DOMAIN rows : j < i
    /\ Live' \cap DOMAIN rows \subseteq Live

LEMMA RowsStep ==
    ASSUME Threads = {BootThread}, DMInv, NewestLive, [Next]_vars
    PROVE  RowsKept
<1>0. /\ TypeOK /\ IdsBounded /\ BootThread \in Threads
      /\ \A t \in Threads : t = BootThread
  BY ThreadsAssumption DEF DMInv
<1>1. Live \subseteq DOMAIN rows /\ DOMAIN rows \subseteq Nat /\ \A i \in DOMAIN rows : i <= i
  BY <1>0, LiveFacts DEF TypeOK
<1>2. CASE rows' = rows
  <2>1. Live' = Live
    BY <1>2 DEF Live, Marked
  <2> QED BY <1>1, <1>2, <2>1 DEF RowsKept
<1>3. ASSUME NEW n \in 1..MaxBatch, BatchInsert(BootThread, n) PROVE RowsKept
  <2> DEFINE F == IdsOf(items'[BootThread])
  <2>1. /\ \A i \in DOMAIN rows : rows'[i] = rows[i]
        /\ \A i \in F : \A j \in DOMAIN rows : j < i
    BY <1>0, <1>3, InsertOrder
  <2>2. /\ F \cap DOMAIN rows = {} /\ DOMAIN rows' = DOMAIN rows \cup F
        /\ Live' = Live \cup F
    BY <1>0, <1>3, InsertFacts
  <2> HIDE DEF F
  <2> QED BY <1>1, <2>1, <2>2 DEF RowsKept
<1>4. CASE MarkDeleted(BootThread)
  <2>1. DOMAIN rows' = DOMAIN rows /\ Live' = Live \ keys[BootThread]
    BY <1>0, <1>4, MarkFacts
  <2>2. \A i \in DOMAIN rows :
           /\ rows[i] \in [content : Nat, deleted : BOOLEAN]
           /\ rows'[i] = rows[i] \/ rows'[i] = [rows[i] EXCEPT !.deleted = TRUE]
    BY <1>0, <1>4 DEF MarkDeleted, TypeOK
  <2>3. \A i \in DOMAIN rows : rows'[i].content = rows[i].content
    BY <2>2
  <2> QED BY <1>1, <2>1, <2>3 DEF RowsKept
<1>5. CASE ClearDeletedData(BootThread) \/ RebuildClear(BootThread)
  <2>1. rows' = Restrict(rows, Live)
    BY <1>5 DEF ClearDeletedData, RebuildClear
  <2>2. DOMAIN rows' = Live /\ Live' = Live /\ \A i \in DOMAIN rows' : rows'[i] = rows[i]
    BY <1>0, <2>1, ClearFacts
  <2> QED BY <1>1, <2>2 DEF RowsKept, NewestLive
<1>6. CASE \/ MulAdd(BootThread) \/ PutTest(BootThread) \/ PutInsert(BootThread)
           \/ PopItem(BootThread) \/ PopError(BootThread)
           \/ CountMarked(BootThread) \/ CheckEvict(BootThread) \/ GetMarkedIds(BootThread)
           \/ VectorDelete(BootThread) \/ RebuildDone(BootThread) \/ GetScalarData(BootThread)
           \/ Search(BootThread) \/ FlushBegin(BootThread) \/ FlushEnd(BootThread)
           \/ Raise(BootThread) \/ Crash \/ CrashTorn \/ AtRest \/ UNCHANGED vars
  BY <1>2, <1>6 DEF MulAdd, PutTest, PutInsert, PopItem, PopError, CountMarked, CheckEvict,
     GetMarkedIds, VectorDelete, RebuildDone, GetScalarData, Search, FlushBegin, FlushEnd,
     Raise, Crash, CrashTorn, Forgotten, AtRest, vars, stores
<1>7. ASSUME NEW t \in Threads, Continue(t) PROVE RowsKept
  BY <1>0, <1>4, <1>5, <1>6, <1>7 DEF Continue
<1> QED BY <1>0, <1>3, <1>6, <1>7 DEF Next

\* So a vector that was of the row it names is so afterwards.
LEMMA KnownKept ==
    ASSUME DMInv, DMInv', RowsKept, NEW p \in Pair, Known(p)
    PROVE  Known(p)'
<1>1. PICK i \in DOMAIN rows : p[1] <= i
  BY DEF Known
<1>2. PICK j \in DOMAIN rows' : i <= j
  BY DEF RowsKept
<1>3. p[1] \in Nat /\ i \in Nat /\ j \in Nat
  BY <1>1, <1>2 DEF DMInv, TypeOK, Pair
<1>4. p[1] <= j
  BY <1>1, <1>2, <1>3
<1>5. ASSUME p[1] \in DOMAIN rows' PROVE rows'[p[1]].content = p[2]
  <2>1. p[1] \in DOMAIN rows
    <3>1. p[1] \notin DOMAIN rows => i < p[1]
      BY <1>5 DEF RowsKept
    <3> QED BY <1>1, <1>3, <3>1
  <2> QED BY <1>5, <2>1 DEF RowsKept, Known
<1> QED BY <1>4, <1>5 DEF Known

\* Every step leaves vectors, in memory and in the file, of the rows they name.
LEMMA VectorsStep ==
    ASSUME Threads = {BootThread}, DMInv, DMInv', VectorsKnown, RowsKept, [Next]_vars
    PROVE  \A p \in vecs' \cup disk' : Known(p)'
<1>0. /\ TypeOK /\ IdsBounded /\ BootThread \in Threads
      /\ \A t \in Threads : t = BootThread
  BY ThreadsAssumption DEF DMInv
<1>1. \A p \in vecs \cup disk : Known(p)'
  <2> SUFFICES ASSUME NEW p \in vecs \cup disk PROVE Known(p)'
    OBVIOUS
  <2>1. p \in Pair /\ Known(p)
    BY <1>0 DEF TypeOK, VectorsKnown
  <2> QED BY <2>1, KnownKept
<1>2. ASSUME vecs' \cup disk' \subseteq vecs \cup disk
      PROVE  \A p \in vecs' \cup disk' : Known(p)'
  BY <1>1, <1>2
<1>3. ASSUME MulAdd(BootThread) PROVE \A p \in vecs' \cup disk' : Known(p)'
  <2>1. /\ vecs' \cup disk' = vecs \cup disk \cup Range(items[BootThread])
        /\ rows' = rows
    BY <1>3 DEF MulAdd
  <2>2. ASSUME NEW p \in Range(items[BootThread]) PROVE Known(p)'
    <3>1. p[1] \in IdsOf(items[BootThread])
      BY DEF IdsOf
    <3>2. p[1] \in Live
      BY <1>0, <3>1, OwnFacts
    <3>3. p[1] \in DOMAIN rows /\ p[1] <= p[1]
      BY <1>0, <3>2, LiveFacts DEF TypeOK
    <3>4. rows[p[1]].content = p[2]
      BY DEF VectorsKnown
    <3> QED BY <2>1, <3>3, <3>4 DEF Known
  <2> QED BY <1>1, <2>1, <2>2
<1>4. ASSUME \/ PutTest(BootThread) \/ PutInsert(BootThread) \/ PopItem(BootThread)
             \/ PopError(BootThread) \/ MarkDeleted(BootThread)
             \/ CountMarked(BootThread) \/ CheckEvict(BootThread) \/ GetMarkedIds(BootThread)
             \/ ClearDeletedData(BootThread) \/ VectorDelete(BootThread)
             \/ RebuildClear(BootThread) \/ RebuildDone(BootThread)
             \/ GetScalarData(BootThread) \/ Search(BootThread) \/ FlushBegin(BootThread)
             \/ FlushEnd(BootThread) \/ Raise(BootThread)
             \/ Crash \/ CrashTorn \/ AtRest \/ UNCHANGED vars
             \/ \E n \in 1..MaxBatch : BatchInsert(BootThread, n)
      PROVE  vecs' \cup disk' \subseteq vecs \cup disk
  BY <1>4 DEF PutTest, PutInsert, PopItem, PopError, MarkDeleted, CountMarked, CheckEvict,
     GetMarkedIds, ClearDeletedData, VectorDelete, RebuildClear, RebuildDone, GetScalarData,
     Search, FlushBegin, FlushEnd, Raise, Crash, CrashTorn, Forgotten, AtRest, BatchInsert,
     vars, stores
<1>5. ASSUME NEW t \in Threads, Continue(t) PROVE \A p \in vecs' \cup disk' : Known(p)'
  BY <1>0, <1>2, <1>3, <1>4, <1>5 DEF Continue
<1> QED BY <1>0, <1>2, <1>4, <1>5 DEF Next

\* Every step leaves the result of a search of the row it names.
LEMMA FoundStep ==
    ASSUME Threads = {BootThread}, DMInv, DMInv', VectorsKnown, RowsKept, [Next]_vars,
           pc'[BootThread] = "lookup"
    PROVE  Known(found[BootThread])'
<1>0. /\ TypeOK /\ BootThread \in Threads /\ \A t \in Threads : t = BootThread
      /\ pc \in [Threads -> {"idle", "add", "lookup", "flush"} \cup InPut]
  BY ThreadsAssumption DEF DMInv, TypeOK
<1>1. CASE Search(BootThread)
  <2>1. PICK p \in vecs : found' = [found EXCEPT ![BootThread] = p]
    BY <1>1 DEF Search
  <2>2. found'[BootThread] = p
    BY <1>0, <2>1 DEF TypeOK
  <2>3. Known(p)'
    BY <1>0, KnownKept DEF VectorsKnown, TypeOK
  <2> QED BY <2>2, <2>3 DEF Known
<1>2. CASE UNCHANGED vars
  <2>1. found' = found /\ rows' = rows /\ pc' = pc
    BY <1>2 DEF vars, local, stores
  <2> QED BY <2>1 DEF VectorsKnown, Known
<1>3. CASE \/ MulAdd(BootThread) \/ PutTest(BootThread) \/ PutInsert(BootThread)
           \/ PopItem(BootThread) \/ PopError(BootThread)
           \/ MarkDeleted(BootThread) \/ CountMarked(BootThread) \/ CheckEvict(BootThread)
           \/ GetMarkedIds(BootThread) \/ ClearDeletedData(BootThread)
           \/ VectorDelete(BootThread) \/ RebuildClear(BootThread)
           \/ RebuildDone(BootThread) \/ GetScalarData(BootThread)
           \/ FlushBegin(BootThread) \/ FlushEnd(BootThread)
           \/ Raise(BootThread) \/ \E n \in 1..MaxBatch : BatchInsert(BootThread, n)
  <2>1. \E l \in {"idle", "add", "flush"} \cup InPut : pc' = [pc EXCEPT ![BootThread] = l]
    BY <1>3 DEF MulAdd, PutTest, PutInsert, PopItem, PopError, MarkDeleted, CountMarked,
       CheckEvict, GetMarkedIds, ClearDeletedData, VectorDelete, RebuildClear, RebuildDone,
       GetScalarData, FlushBegin, FlushEnd, Raise, BatchInsert, Goto, InPut
  <2>2. pc'[BootThread] # "lookup"
    BY <1>0, <2>1 DEF InPut
  <2> QED BY <2>2
<1>4. CASE AtRest \/ Crash \/ CrashTorn
  <2>1. pc'[BootThread] # "lookup"
    BY <1>0, <1>4 DEF Crash, CrashTorn, AtRest, vars
  <2> QED BY <2>1
<1> QED BY <1>0, <1>1, <1>2, <1>3, <1>4 DEF Next, Continue

\* Every step leaves pairs to be added or put that have their rows' contents.
LEMMA ItemsStep ==
    ASSUME Threads = {BootThread}, DMInv, DMInv', VectorsKnown, RowsKept, [Next]_vars
    PROVE  \A p \in Range(items'[BootThread]) : rows'[p[1]].content = p[2]
<1>0. /\ TypeOK /\ IdsBounded /\ BootThread \in Threads
      /\ \A t \in Threads : t = BootThread
      /\ items[BootThread] \in Seq(Pair)
  BY ThreadsAssumption DEF DMInv, TypeOK
<1>1. IdsOf(items[BootThread]) \subseteq DOMAIN rows
  <2>1. IdsOf(items[BootThread]) \subseteq InFlight(BootThread)
    BY <1>0, OwnFacts
  <2>2. InFlight(BootThread) \subseteq Live /\ Live \subseteq DOMAIN rows
    BY <1>0, OwnFacts, LiveFacts
  <2> QED BY <2>1, <2>2
<1>2. \A p \in Range(items'[BootThread]) : p[1] \in DOMAIN rows'
  <2>1. \A t \in Threads : InFlight(t)' \subseteq Live'
    BY DEF DMInv, RowsOwned
  <2>2. \A p \in Range(items'[BootThread]) : p[1] \in InFlight(BootThread)'
    BY DEF InFlight, IdsOf
  <2>3. Live' \subseteq DOMAIN rows'
    BY DEF Live
  <2> QED BY <1>0, <2>1, <2>2, <2>3
<1>3. ASSUME Range(items'[BootThread]) \subseteq Range(items[BootThread])
      PROVE  \A p \in Range(items'[BootThread]) : rows'[p[1]].content = p[2]
  <2> SUFFICES ASSUME NEW p \in Range(items'[BootThread]) PROVE rows'[p[1]].content = p[2]
    OBVIOUS
  <2>1. p \in Range(items[BootThread]) /\ p[1] \in DOMAIN rows'
    BY <1>2, <1>3
  <2>2. p[1] \in DOMAIN rows /\ rows[p[1]].content = p[2]
    BY <1>1, <2>1 DEF IdsOf, VectorsKnown
  <2> QED BY <2>1, <2>2 DEF RowsKept
<1>4. ASSUME NEW n \in 1..MaxBatch, BatchInsert(BootThread, n)
      PROVE  \A p \in Range(items'[BootThread]) : rows'[p[1]].content = p[2]
  BY <1>0, <1>4, InsertOrder
<1>5. ASSUME Crash PROVE \A p \in Range(items'[BootThread]) : rows'[p[1]].content = p[2]
  <2>1. rows' = rows
    BY <1>5 DEF Crash, Forgotten
  <2> QED BY <1>0, <1>5, <2>1, BootOrder
<1>6. ASSUME PutInsert(BootThread)
      PROVE  Range(items'[BootThread]) \subseteq Range(items[BootThread])
  <2>1. items'[BootThread] = Tail(items[BootThread]) /\ items[BootThread] # <<>>
    BY <1>0, <1>6 DEF PutInsert, TypeOK, InPut
  <2> QED BY <1>0, <2>1, LastFacts
<1>7. ASSUME Raise(BootThread) \/ CrashTorn
      PROVE  Range(items'[BootThread]) \subseteq Range(items[BootThread])
  <2>1. items'[BootThread] = <<>>
    BY <1>0, <1>7 DEF Raise, CrashTorn, TypeOK
  <2> QED BY <2>1 DEF Range
<1>8. ASSUME \/ MulAdd(BootThread) \/ PutTest(BootThread) \/ PopItem(BootThread)
             \/ PopError(BootThread) \/ MarkDeleted(BootThread)
             \/ CountMarked(BootThread) \/ CheckEvict(BootThread) \/ GetMarkedIds(BootThread)
             \/ ClearDeletedData(BootThread) \/ VectorDelete(BootThread)
             \/ RebuildClear(BootThread) \/ RebuildDone(BootThread)
             \/ GetScalarData(BootThread) \/ Search(BootThread) \/ FlushBegin(BootThread)
             \/ FlushEnd(BootThread) \/ AtRest \/ UNCHANGED vars
      PROVE  Range(items'[BootThread]) \subseteq Range(items[BootThread])
  BY <1>8 DEF MulAdd, PutTest, PopItem, PopError, MarkDeleted, CountMarked, CheckEvict,
     GetMarkedIds, ClearDeletedData, VectorDelete, RebuildClear, RebuildDone, GetScalarData,
     Search, FlushBegin, FlushEnd, AtRest, vars, local
<1> QED BY <1>0, <1>3, <1>4, <1>5, <1>6, <1>7, <1>8 DEF Next, Continue

\* Every step keeps what flush wrote.
LEMMA FlushedStep ==
    ASSUME Threads = {BootThread}, DMInv, DMInv', FlushedKept, RowsKept, [Next]_vars
    PROVE  FlushedKept'
<1> DEFINE pairs == \A i \in flushed' \cap Live' : /\ <<i, rows'[i].content>> \in disk'
                                                 /\ (Broken' \/ <<i, rows'[i].content>> \in vecs')
<1>0. /\ TypeOK /\ BootThread \in Threads /\ \A t \in Threads : t = BootThread
      /\ Live \subseteq DOMAIN rows /\ DOMAIN rows \subseteq Nat
      /\ DOMAIN rows' \subseteq Nat /\ Live' \subseteq DOMAIN rows'
      /\ flushed \subseteq Nat
      /\ pc \in [Threads -> {"idle", "add", "lookup", "flush"} \cup InPut]
      /\ keys \in [Threads -> SUBSET Nat]
  <2>1. Live' \subseteq DOMAIN rows'
    BY DEF Live
  <2> QED BY <2>1, ThreadsAssumption, LiveFacts DEF DMInv, TypeOK
<1>1. ASSUME flushed' = flushed
      PROVE  \A i \in flushed' : \E j \in DOMAIN rows' : i <= j
  <2> SUFFICES ASSUME NEW i \in flushed PROVE \E j \in DOMAIN rows' : i <= j
    BY <1>1
  <2>1. PICK j \in DOMAIN rows : i <= j
    BY DEF FlushedKept
  <2>2. PICK k \in DOMAIN rows' : j <= k
    BY DEF RowsKept
  <2>3. i \in Nat /\ j \in Nat /\ k \in Nat
    BY <1>0
  <2> QED BY <2>1, <2>2, <2>3
<1>2. ASSUME NEW i \in flushed \cap Live'
      PROVE  /\ i \in Live /\ <<i, rows'[i].content>> \in disk
             /\ (Broken \/ <<i, rows'[i].content>> \in vecs)
  <2>1. PICK j \in DOMAIN rows : i <= j
    BY DEF FlushedKept
  <2>2. i \in DOMAIN rows
    <3>1. i \notin DOMAIN rows => j < i
      BY <1>0 DEF RowsKept
    <3>2. i \in Nat /\ j \in Nat
      BY <1>0
    <3> QED BY <2>1, <3>1, <3>2
  <2>3. i \in Live /\ rows'[i].content = rows[i].content
    BY <1>0, <2>2 DEF RowsKept
  <2> QED BY <2>3 DEF FlushedKept
<1>3. ASSUME flushed' = flushed, vecs \subseteq vecs', disk \subseteq disk', ~ Broken PROVE pairs
  BY <1>2, <1>3
<1>11. pc[BootThread] # "idle" \/ ~ booting => ~ Broken
  BY <1>0 DEF DMInv, BootFirst, Broken
<1>4. CASE FlushEnd(BootThread)
  <2>1. /\ rows' = rows /\ disk' = vecs /\ vecs' = vecs
        /\ flushed' = {i \in Live : <<i, rows[i].content>> \in vecs}
        /\ pc'[BootThread] = "idle"
    BY <1>0, <1>4 DEF FlushEnd, Goto
  <2>2. pairs /\ \A i \in flushed' : i \in DOMAIN rows' /\ i <= i
    BY <1>0, <2>1
  <2> QED BY <2>1, <2>2 DEF FlushedKept
<1>5. CASE VectorDelete(BootThread)
  <2>1. /\ flushed' = flushed /\ disk' = disk /\ rows' = rows
        /\ vecs' = {p \in vecs : p[1] \notin keys[BootThread]}
        /\ pc[BootThread] = "vdelete"
        /\ pc' = [pc EXCEPT ![BootThread] = IF delete_count + 1 >= RebuildCondition
                                            THEN "rebuild" ELSE "put"]
    BY <1>5 DEF VectorDelete, aux, Goto
  <2>2. keys[BootThread] \cap Live = {}
    BY <2>1 DEF FlushedKept
  <2>3. pc'[BootThread] \notin {"clear", "vdelete"}
    BY <1>0, <2>1
  <2>4. pairs
    BY <1>2, <1>11, <2>1, <2>2
  <2> QED BY <1>1, <2>1, <2>3, <2>4 DEF FlushedKept
<1>12. CASE CrashTorn
  <2>1. /\ flushed' = flushed /\ disk' = disk /\ torn' /\ booting'
        /\ pc'[BootThread] \notin {"clear", "vdelete"}
    BY <1>0, <1>12 DEF CrashTorn, Forgotten
  <2>2. pairs
    BY <1>2, <2>1 DEF Broken
  <2> QED BY <1>1, <2>1, <2>2 DEF FlushedKept
<1>6. CASE Crash
  <2>1. /\ flushed' = flushed /\ vecs' = disk /\ disk' = disk
        /\ pc'[BootThread] \notin {"clear", "vdelete"}
    BY <1>0, <1>6 DEF Crash, Forgotten
  <2>2. pairs
    BY <1>2, <2>1
  <2> QED BY <1>1, <2>1, <2>2 DEF FlushedKept
<1>7. CASE GetMarkedIds(BootThread)
  <2>1. /\ flushed' = flushed /\ vecs' = vecs /\ disk' = disk /\ rows' = rows
        /\ keys'[BootThread] = Marked /\ pc[BootThread] = "ids"
    BY <1>0, <1>7 DEF GetMarkedIds, aux, stores
  <2>2. keys'[BootThread] \cap Live' = {}
    BY <2>1 DEF Live, Marked
  <2>3. pairs
    BY <1>3, <1>11, <2>1
  <2> QED BY <1>1, <2>1, <2>2, <2>3 DEF FlushedKept
<1>8. CASE ClearDeletedData(BootThread)
  <2>1. /\ flushed' = flushed /\ vecs' = vecs /\ disk' = disk /\ keys' = keys
        /\ pc[BootThread] = "clear" /\ rows' = Restrict(rows, Live)
    BY <1>8 DEF ClearDeletedData, aux, local
  <2>2. Live' = Live
    BY <1>0, <2>1, ClearFacts
  <2>3. keys'[BootThread] \cap Live' = {}
    BY <2>1, <2>2 DEF FlushedKept
  <2>4. pairs
    BY <1>3, <1>11, <2>1
  <2> QED BY <1>1, <2>1, <2>3, <2>4 DEF FlushedKept
<1>9. CASE \/ MulAdd(BootThread) \/ PutTest(BootThread) \/ PutInsert(BootThread)
           \/ PopItem(BootThread) \/ PopError(BootThread)
           \/ MarkDeleted(BootThread) \/ CountMarked(BootThread) \/ CheckEvict(BootThread)
           \/ RebuildClear(BootThread) \/ RebuildDone(BootThread)
           \/ GetScalarData(BootThread) \/ Search(BootThread) \/ Raise(BootThread)
           \/ FlushBegin(BootThread)
           \/ \E n \in 1..MaxBatch : BatchInsert(BootThread, n)
  <2>1. /\ flushed' = flushed /\ vecs \subseteq vecs' /\ disk' = disk
        /\ pc[BootThread] # "idle" \/ ~ booting
    BY <1>9 DEF MulAdd, PutTest, PutInsert, PopItem, PopError, MarkDeleted, CountMarked,
       CheckEvict, RebuildClear, RebuildDone, GetScalarData, Search, Raise, FlushBegin,
       BatchInsert, aux, stores
  <2>2. \E l \in {"idle", "add", "lookup", "flush", "put", "insert", "pop", "mark", "count",
               "check", "ids", "rebuilt"} :
           pc' = [pc EXCEPT ![BootThread] = l]
    BY <1>9 DEF MulAdd, PutTest, PutInsert, PopItem, PopError, MarkDeleted, CountMarked,
       CheckEvict, RebuildClear, RebuildDone, GetScalarData, Search, Raise, FlushBegin,
       BatchInsert, Goto
  <2>3. pc'[BootThread] \notin {"clear", "vdelete"}
    BY <1>0, <2>2 DEF InPut
  <2>4. pairs
    BY <1>3, <1>11, <2>1
  <2> QED BY <1>1, <2>1, <2>3, <2>4 DEF FlushedKept
<1>10. CASE AtRest \/ UNCHANGED vars
  <2>1. UNCHANGED vars
    BY <1>10 DEF AtRest
  <2>2. /\ rows' = rows /\ vecs' = vecs /\ disk' = disk /\ flushed' = flushed
        /\ pc' = pc /\ keys' = keys /\ torn' = torn /\ booting' = booting
    BY <2>1 DEF vars, stores, local, aux
  <2>3. Live' = Live
    BY <2>2 DEF Live, Marked
  <2> QED BY <2>2, <2>3 DEF FlushedKept, Broken
<1> QED BY <1>0, <1>4, <1>5, <1>6, <1>7, <1>8, <1>9, <1>10, <1>12 DEF Next, Continue

LEMMA SoloInvariant ==
    ASSUME Threads = {BootThread}
    PROVE  Spec => [](DMInv /\ SoloInv)
<1>1. Init => DMInv /\ SoloInv
  <2> SUFFICES ASSUME Init PROVE SoloInv
    BY InitInv
  <2>1. /\ DOMAIN rows = {} /\ items[BootThread] = <<>> /\ pc[BootThread] = "idle"
        /\ vecs = {} /\ disk = {} /\ flushed = {}
    BY ThreadsAssumption DEF Init
  <2>2. Range(items[BootThread]) = {}
    BY <2>1 DEF Range
  <2> QED BY <2>1, <2>2 DEF SoloInv, NewestLive, VectorsKnown, FlushedKept
<1>2. Threads = {BootThread}
  OBVIOUS
<1>3. DMInv /\ SoloInv /\ [Next]_vars => (DMInv /\ SoloInv)'
  <2> SUFFICES ASSUME DMInv, SoloInv, [Next]_vars PROVE DMInv' /\ SoloInv'
    OBVIOUS
  <2>1. DMInv'
    BY DMInvStep
  <2>2. NewestLive' /\ RowsKept
    BY <1>2, NewestStep, RowsStep DEF SoloInv
  <2>3. VectorsKnown'
    <3>1. \A p \in vecs' \cup disk' : Known(p)'
      BY <1>2, <2>1, <2>2, VectorsStep DEF SoloInv
    <3>2. pc'[BootThread] = "lookup" => Known(found[BootThread])'
      BY <1>2, <2>1, <2>2, FoundStep DEF SoloInv
    <3>3. \A p \in Range(items'[BootThread]) : rows'[p[1]].content = p[2]
      BY <1>2, <2>1, <2>2, ItemsStep DEF SoloInv
    <3> QED BY <3>1, <3>2, <3>3 DEF VectorsKnown
  <2>4. FlushedKept'
    BY <1>2, <2>1, <2>2, FlushedStep DEF SoloInv
  <2> QED BY <2>1, <2>2, <2>3, <2>4 DEF SoloInv
<1> QED BY <1>1, <1>3, PTL DEF Spec

\* With one thread at a time, get_scalar_data never answers with the answer of
\* another question: the row that a search's vector leads to, if it is live,
\* holds the content the vector was made from, over every eviction, crash and
\* store call that raises.  (With two threads it is not so: dm_threads_answer.)
THEOREM AnswerCorrect ==
    ASSUME Threads = {BootThread}
    PROVE  Spec => []NoWrongAnswer
<1>1. Threads = {BootThread}
  OBVIOUS
<1>2. DMInv /\ SoloInv => NoWrongAnswer
  <2> SUFFICES ASSUME DMInv, SoloInv PROVE NoWrongAnswer
    OBVIOUS
  <2>1. Live \subseteq DOMAIN rows
    BY LiveFacts
  <2> QED BY <1>1, <2>1 DEF SoloInv, VectorsKnown, Known, NoWrongAnswer
<1> QED BY <1>2, SoloInvariant, PTL

\* With one thread at a time, a row that a search could find when flush wrote
\* the index can be found as long as it is live: later batches are given other
\* ids, EvictionManager.delete takes the vectors of dead rows only, and a
\* restart reads the file back, if the last flush came to its end.  If it did
\* not, the file is cut off and there is no restart.
THEOREM FlushedCorrect ==
    ASSUME Threads = {BootThread}
    PROVE  Spec => []FlushedStaysFindable
<1>1. DMInv /\ SoloInv => FlushedStaysFindable
  BY DEF SoloInv, FlushedKept, FlushedStaysFindable
<1> QED BY <1>1, SoloInvariant, PTL

-----------------------------------------------------------------------------
(* The limits of check_evict, for any number of threads.                   *)

\* The marked rows are within both limits.
WithinLimits ==
    /\ Cardinality(Marked) <= MaxMarkCount
    /\ Cardinality(Marked) * RateDen <= Cardinality(DOMAIN rows) * RateNum

\* The thread will clear the marked rows, or compare with a count that was
\* taken after the last row was marked.
Checking(t) ==
    \/ pc[t] \in {"count", "ids", "clear"}
    \/ pc[t] = "check" /\ Cardinality(Marked) <= mark_count[t]

LimitsWatched == Undisturbed => WithinLimits \/ \E t \in Threads : Checking(t)

\* Smaller and larger products.
LEMMA TimesMonotone ==
    ASSUME NEW a \in Nat, NEW b \in Nat, NEW c \in Nat, a <= b
    PROVE  a * c <= b * c
<1> DEFINE d == b - a
<1>1. d \in Nat /\ b = a + d
  OBVIOUS
<1>2. d * c \in Nat /\ a * c \in Nat
  BY <1>1
<1>3. (a + d) * c = a * c + d * c
  <2> HIDE DEF d
  <2> QED BY <1>1
<1> HIDE DEF d
<1> QED BY <1>1, <1>2, <1>3

\* The marked rows and the table are finite.
LEMMA Counts ==
    ASSUME TypeOK, IdsBounded
    PROVE  /\ Cardinality(Marked) \in Nat /\ Cardinality(DOMAIN rows) \in Nat
           /\ IsFiniteSet(Marked) /\ IsFiniteSet(DOMAIN rows)
<1>1. saves \in Nat /\ DOMAIN rows \subseteq 1..saves /\ Marked \subseteq 1..saves
  BY DEF TypeOK, IdsBounded, Marked
<1>2. IsFiniteSet(1..saves)
  BY <1>1, FS_Interval
<1> QED BY <1>1, <1>2, FS_Subset, FS_CardinalityType

\* Fewer marked rows in a table no smaller are within the limits still.
LEMMA LimitsKept ==
    ASSUME NEW m \in Nat, NEW r \in Nat, NEW m2 \in Nat, NEW r2 \in Nat,
           m2 <= m, r <= r2, m * RateDen <= r * RateNum
    PROVE  m2 * RateDen <= r2 * RateNum
<1>1. RateDen \in Nat /\ RateNum \in Nat
  BY MarksAssumption
<1>2. m2 * RateDen <= m * RateDen /\ r * RateNum <= r2 * RateNum
  BY <1>1, TimesMonotone
<1>3. \A x, y \in Nat : x * y \in Nat
  OBVIOUS
<1>4. /\ m2 * RateDen \in Nat /\ m * RateDen \in Nat
      /\ r * RateNum \in Nat /\ r2 * RateNum \in Nat
  BY <1>1, <1>3
<1>5. \A u, v, w, x \in Nat : u <= v /\ v <= w /\ w <= x => u <= x
  OBVIOUS
<1> QED BY <1>2, <1>4, <1>5

\* No row is marked right after clear_deleted_data.
LEMMA ClearedWithin ==
    ASSUME TypeOK, IdsBounded, Marked' = {}, DOMAIN rows' = Live
    PROVE  WithinLimits'
<1>1. Cardinality(Marked') = 0
  BY FS_EmptySet
<1>2. Cardinality(DOMAIN rows') \in Nat
  <2>1. IsFiniteSet(Live)
    BY Counts, LiveFacts, FS_Subset
  <2> QED BY <2>1, FS_CardinalityType
<1>3. RateDen \in Nat /\ RateNum \in Nat /\ MaxMarkCount \in Nat
  BY MarksAssumption
<1>4. 0 <= Cardinality(DOMAIN rows') * RateNum
  BY <1>2, <1>3
<1> QED BY <1>1, <1>3, <1>4 DEF WithinLimits

\* A step of one thread that marks no row leaves the others' checks valid, and
\* the limits if they were kept and the table did not shrink.
LEMMA OthersWatch ==
    ASSUME DMInv, DMInv', LimitsWatched, Undisturbed, NEW t \in Threads, ~ Checking(t),
           Marked' \subseteq Marked, DOMAIN rows \subseteq DOMAIN rows',
           \A u \in Threads \ {t} : pc'[u] = pc[u] /\ mark_count'[u] = mark_count[u]
    PROVE  WithinLimits' \/ \E u \in Threads : Checking(u)'
<1>1. /\ Cardinality(Marked) \in Nat /\ Cardinality(DOMAIN rows) \in Nat
      /\ IsFiniteSet(Marked)
  BY Counts DEF DMInv
<1>2. /\ IsFiniteSet(DOMAIN rows') /\ Cardinality(Marked') \in Nat
      /\ Cardinality(DOMAIN rows') \in Nat
  <2>1. saves' \in Nat /\ DOMAIN rows' \subseteq 1..saves' /\ Marked' \subseteq 1..saves'
    BY DEF DMInv, TypeOK, IdsBounded, Marked
  <2>2. IsFiniteSet(1..saves')
    BY <2>1, FS_Interval
  <2> QED BY <2>1, <2>2, FS_Subset, FS_CardinalityType
<1>3. Cardinality(Marked') <= Cardinality(Marked)
  BY <1>1, FS_Subset
<1>4. Cardinality(DOMAIN rows) <= Cardinality(DOMAIN rows')
  BY <1>2, FS_Subset
<1>5. CASE WithinLimits
  <2>1. Cardinality(Marked') * RateDen <= Cardinality(DOMAIN rows') * RateNum
    BY <1>1, <1>2, <1>3, <1>4, <1>5, LimitsKept DEF WithinLimits
  <2>2. Cardinality(Marked') <= MaxMarkCount
    BY <1>1, <1>2, <1>3, <1>5, MarksAssumption DEF WithinLimits
  <2> QED BY <2>1, <2>2 DEF WithinLimits
<1>6. CASE ~ WithinLimits
  <2>1. PICK u \in Threads : Checking(u)
    BY <1>6 DEF LimitsWatched
  <2>2. pc'[u] = pc[u] /\ mark_count'[u] = mark_count[u] /\ mark_count[u] \in Nat
    BY <2>1 DEF DMInv, TypeOK
  <2>3. Cardinality(Marked) <= mark_count[u] => Cardinality(Marked') <= mark_count'[u]
    BY <1>1, <1>2, <1>3, <2>2
  <2>4. Checking(u)'
    BY <2>1, <2>2, <2>3 DEF Checking
  <2> QED BY <2>4
<1> QED BY <1>5, <1>6

\* Every step keeps a thread watching, or the limits.
LEMMA WatchStep ==
    ASSUME DMInv, DMInv', LimitsWatched, [Next]_vars
    PROVE  LimitsWatched'
<1> SUFFICES ASSUME Undisturbed' PROVE WithinLimits' \/ \E u \in Threads : Checking(u)'
  BY DEF LimitsWatched
<1>0. /\ TypeOK /\ IdsBounded /\ crashes \in Nat /\ failures \in Nat
      /\ pc \in [Threads -> {"idle", "add", "lookup", "flush"} \cup InPut]
      /\ mark_count \in [Threads -> Nat]
  BY DEF DMInv, TypeOK
<1>1. /\ ~ Crash /\ ~ CrashTorn /\ \A t \in Threads : ~ Raise(t)
      /\ Undisturbed
  <2>1. ~ Crash /\ ~ CrashTorn
    BY <1>0 DEF Crash, CrashTorn, Forgotten, Undisturbed
  <2>2. \A t \in Threads : ~ Raise(t)
    BY <1>0 DEF Raise, Undisturbed
  <2>3. crashes' = crashes /\ failures' = failures
    BY <2>1, <2>2 DEF Next, Continue, BatchInsert, MulAdd, PutTest, PutInsert, PopItem,
       PopError, MarkDeleted, CountMarked, CheckEvict, GetMarkedIds, ClearDeletedData,
       VectorDelete, RebuildClear, RebuildDone, GetScalarData, Search, FlushBegin, FlushEnd,
       AtRest, vars, budget
  <2> QED BY <2>1, <2>2, <2>3 DEF Undisturbed
<1>2. ASSUME NEW t \in Threads, NEW n \in 1..MaxBatch, BatchInsert(t, n)
      PROVE  WithinLimits' \/ \E u \in Threads : Checking(u)'
  <2>1. /\ DOMAIN rows \subseteq DOMAIN rows'
        /\ Live' = Live \cup IdsOf(items'[t])
        /\ DOMAIN rows' = DOMAIN rows \cup IdsOf(items'[t])
    BY <1>0, <1>2, InsertFacts
  <2>2. Marked' \subseteq Marked
    <3>1. Marked' = DOMAIN rows' \ Live' /\ Marked = DOMAIN rows \ Live
      BY DEF Live, Marked
    <3> QED BY <2>1, <3>1
  <2>3. pc[t] = "idle" /\ pc' = [pc EXCEPT ![t] = "add"] /\ mark_count' = mark_count
    BY <1>2 DEF BatchInsert, Goto
  <2>4. ~ Checking(t) /\ \A u \in Threads \ {t} : pc'[u] = pc[u] /\ mark_count'[u] = mark_count[u]
    BY <1>0, <2>3 DEF Checking
  <2> QED BY <1>1, <2>1, <2>2, <2>4, OthersWatch
<1>3. ASSUME NEW t \in Threads,
             \/ MulAdd(t) \/ PutTest(t) \/ PutInsert(t) \/ PopItem(t) \/ PopError(t)
             \/ VectorDelete(t) \/ RebuildDone(t) \/ GetScalarData(t) \/ Search(t)
             \/ FlushBegin(t) \/ FlushEnd(t)
      PROVE  WithinLimits' \/ \E u \in Threads : Checking(u)'
  <2>1. /\ rows' = rows /\ mark_count' = mark_count
        /\ pc[t] \in {"idle", "add", "put", "insert", "pop", "vdelete", "rebuilt", "lookup",
                      "flush"}
        /\ \E l \in {"idle", "put", "insert", "pop", "mark", "rebuild", "lookup", "flush"} :
              pc' = [pc EXCEPT ![t] = l]
    BY <1>3 DEF MulAdd, PutTest, PutInsert, PopItem, PopError, VectorDelete, RebuildDone,
       GetScalarData, Search, FlushBegin, FlushEnd, Goto, local, stores
  <2>2. Marked' = Marked
    BY <2>1 DEF Marked
  <2>3. ~ Checking(t) /\ \A u \in Threads \ {t} : pc'[u] = pc[u] /\ mark_count'[u] = mark_count[u]
    BY <1>0, <2>1 DEF Checking
  <2> QED BY <1>1, <2>1, <2>2, <2>3, OthersWatch
<1>4. ASSUME NEW t \in Threads, MarkDeleted(t)
      PROVE  WithinLimits' \/ \E u \in Threads : Checking(u)'
  <2>1. pc'[t] = "count"
    BY <1>0, <1>4 DEF MarkDeleted, Goto
  <2>2. Checking(t)'
    BY <2>1 DEF Checking
  <2> QED BY <2>2
<1>5. ASSUME NEW t \in Threads, CountMarked(t)
      PROVE  WithinLimits' \/ \E u \in Threads : Checking(u)'
  <2>1. pc'[t] = "check" /\ mark_count'[t] = Cardinality(Marked) /\ rows' = rows
    BY <1>0, <1>5 DEF CountMarked, Goto, stores
  <2>2. Marked' = Marked /\ Cardinality(Marked) <= Cardinality(Marked)
    BY <1>0, <2>1, Counts DEF Marked
  <2>3. Checking(t)'
    BY <2>1, <2>2 DEF Checking
  <2> QED BY <2>3
<1>6. ASSUME NEW t \in Threads, CheckEvict(t)
      PROVE  WithinLimits' \/ \E u \in Threads : Checking(u)'
  <2> DEFINE over == \/ mark_count[t] > MaxMarkCount
                     \/ mark_count[t] * RateDen > Cardinality(DOMAIN rows) * RateNum
  <2>1. /\ rows' = rows /\ mark_count' = mark_count /\ pc[t] = "check"
        /\ pc' = [pc EXCEPT ![t] = IF over THEN "ids" ELSE "put"]
    BY <1>6 DEF CheckEvict, Goto, stores, local
  <2>2. Marked' = Marked
    BY <2>1 DEF Marked
  <2>3. CASE over
    <3>1. pc'[t] = "ids"
      BY <1>0, <2>1, <2>3
    <3>2. Checking(t)'
      BY <3>1 DEF Checking
    <3> QED BY <3>2
  <2>4. CASE ~ over /\ Checking(t)
    <3>1. /\ Cardinality(Marked) <= mark_count[t] /\ mark_count[t] \in Nat
          /\ Cardinality(Marked) \in Nat /\ Cardinality(DOMAIN rows) \in Nat
      BY <1>0, <2>1, <2>4, Counts DEF Checking
    <3>2. /\ mark_count[t] <= MaxMarkCount
          /\ mark_count[t] * RateDen <= Cardinality(DOMAIN rows) * RateNum
      <4>1. \A x, y \in Nat : x * y \in Nat
        OBVIOUS
      <4>2. \A x, y \in Nat : ~ (x > y) => x <= y
        OBVIOUS
      <4> QED BY <2>4, <3>1, <4>1, <4>2, MarksAssumption
    <3>3. Cardinality(DOMAIN rows) <= Cardinality(DOMAIN rows)
      BY <3>1
    <3>4. Cardinality(Marked) * RateDen <= Cardinality(DOMAIN rows) * RateNum
      BY <3>1, <3>2, <3>3, LimitsKept
    <3>5. Cardinality(Marked) <= MaxMarkCount
      BY <3>1, <3>2, MarksAssumption
    <3> QED BY <2>1, <2>2, <3>4, <3>5 DEF WithinLimits
  <2>5. CASE ~ Checking(t)
    <3>1. \A u \in Threads \ {t} : pc'[u] = pc[u] /\ mark_count'[u] = mark_count[u]
      BY <1>0, <2>1
    <3> QED BY <1>1, <2>1, <2>2, <2>5, <3>1, OthersWatch
  <2> QED BY <2>3, <2>4, <2>5
<1>7. ASSUME NEW t \in Threads, GetMarkedIds(t)
      PROVE  WithinLimits' \/ \E u \in Threads : Checking(u)'
  <2>1. pc'[t] = "clear"
    BY <1>0, <1>7 DEF GetMarkedIds, Goto
  <2>2. Checking(t)'
    BY <2>1 DEF Checking
  <2> QED BY <2>2
<1>8. ASSUME NEW t \in Threads, ClearDeletedData(t) \/ RebuildClear(t)
      PROVE  WithinLimits' \/ \E u \in Threads : Checking(u)'
  <2>1. DOMAIN rows' = Live /\ Live' = Live
    BY <1>0, <1>8, ClearFacts DEF ClearDeletedData, RebuildClear
  <2>2. Marked' = {}
    BY <2>1 DEF Live, Marked
  <2>3. WithinLimits'
    BY <1>0, <2>1, <2>2, ClearedWithin
  <2> QED BY <2>3
<1>9. ASSUME AtRest \/ UNCHANGED vars
      PROVE  WithinLimits' \/ \E u \in Threads : Checking(u)'
  <2>1. rows' = rows /\ pc' = pc /\ mark_count' = mark_count
    BY <1>9 DEF AtRest, vars, stores, local
  <2>2. Marked' = Marked
    BY <2>1 DEF Marked
  <2>3. CASE WithinLimits
    BY <2>1, <2>2, <2>3 DEF WithinLimits
  <2>4. CASE ~ WithinLimits
    <3>1. PICK u \in Threads : Checking(u)
      BY <1>1, <2>4 DEF LimitsWatched
    <3>2. Checking(u)'
      BY <2>1, <2>2, <3>1 DEF Checking
    <3> QED BY <3>2
  <2> QED BY <2>3, <2>4
<1>10. ASSUME NEW t \in Threads, Continue(t)
       PROVE  WithinLimits' \/ \E u \in Threads : Checking(u)'
  BY <1>3, <1>4, <1>5, <1>6, <1>7, <1>8, <1>10 DEF Continue
<1> QED BY <1>1, <1>2, <1>3, <1>9, <1>10 DEF Next

\* Between two calls, as long as no store call has raised and the process has
\* not died, the rows that soft_evict has marked are within both limits of
\* check_evict: the thread that marked last counts them after that, and the
\* comparison it makes with an older count can only be too strict.
THEOREM MarksCorrect == Spec => []MarksBounded
<1>2. Init => LimitsWatched
  <2> SUFFICES ASSUME Init PROVE WithinLimits
    BY DEF LimitsWatched
  <2>1. DOMAIN rows = {} /\ Marked = {}
    BY DEF Init, Marked
  <2>2. Cardinality(Marked) = 0 /\ Cardinality(DOMAIN rows) = 0
    BY <2>1, FS_EmptySet
  <2> QED BY <2>2, MarksAssumption DEF WithinLimits
<1>3. DMInv /\ LimitsWatched /\ [Next]_vars => (DMInv /\ LimitsWatched)'
  <2> SUFFICES ASSUME DMInv, LimitsWatched, [Next]_vars PROVE DMInv' /\ LimitsWatched'
    OBVIOUS
  <2>1. DMInv'
    BY DMInvStep
  <2> QED BY <2>1, WatchStep
<1>4. DMInv /\ LimitsWatched => MarksBounded
  <2> SUFFICES ASSUME LimitsWatched, Undisturbed, \A t \in Threads : pc[t] \notin InPut
               PROVE  WithinLimits
    BY DEF MarksBounded, WithinLimits
  <2>1. \A t \in Threads : ~ Checking(t)
    BY DEF Checking, InPut
  <2> QED BY <2>1 DEF LimitsWatched
<1> QED BY <1>2, <1>3, <1>4, InitInv, PTL DEF Spec
=============================================================================
