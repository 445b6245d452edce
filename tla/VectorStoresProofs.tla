-------------------------- MODULE VectorStoresProofs --------------------------
(***************************************************************************)
(* Over any of the vector stores, for any number of saves, lookups and     *)
(* restarts: a search can find every live row between saves, and finds no  *)
(* vector of a removed one, but for the ones that are accounted for; what  *)
(* a raising call leaves untracked is all that is; and how much room       *)
(* Hnswlib needs.                                                          *)
(*                                                                         *)
(* The argument for the room: the vectors of an index are those of the     *)
(* file it was loaded from, as many as there could be before, and its own. *)
(* Of its own, each deletion leaves no more than could be marked at once,  *)
(* and there are fewer than RebuildCondition deletions before a rebuild    *)
(* leaves the live ones only.                                              *)
(***************************************************************************)
EXTENDS VectorStores, FiniteSetTheorems, SequenceTheorems, TLAPS

-----------------------------------------------------------------------------
(* The inductive invariant.                                                *)

Live == RowsAs("live")
Gone == RowsAs("gone")
States == {"live", "marked", "gone"}
Phases == {"starting", "up", "down"}
Labels == {"idle", "add", "put", "delete", "vector delete", "rebuild"}
ReaderType == [at : {"idle", "fetch", "check", "heal"}, id : Nat]

\* Where the saving thread is says which ids it holds; an id it is about to add
\* has no vector, and no reader has seen it.
VectorTypes ==
    /\ store \in Stores
    /\ rows \in Seq(States)
    /\ vecs \cup pending \subseteq DOMAIN rows /\ dead \subseteq vecs
    /\ pending # {} => store = Qdrant
    /\ disk.vecs \subseteq DOMAIN rows /\ disk.dead \subseteq disk.vecs
    /\ dead \cup disk.dead # {} => store.deletes = "mark"
    /\ tracked \subseteq Live /\ Cardinality(tracked) <= MaxSize
    /\ todo \subseteq Live \ tracked
    /\ ids \subseteq Gone /\ (pc # "vector delete" => ids = {})
    /\ delete_count \in Nat /\ restarts \in Nat
    /\ process \in Phases /\ pc \in Labels /\ (pc = "idle" <=> todo = {})
    /\ pc = "add" => todo \cap (vecs \cup pending) = {}
    /\ reader \in [Readers -> ReaderType]
    /\ \A r \in Readers : reader[r].at # "idle" =>
          reader[r].id \in DOMAIN rows /\ (pc = "add" => reader[r].id \notin todo)

\* What a search can return, now or when Qdrant will have applied it.
Searchable == Visible \cup pending

\* Vectors and rows, the eviction index and the table agree, but for what is
\* accounted for.
Accounted ==
    /\ (IF pc = "add" THEN Live \ todo ELSE Live) \ lost \subseteq Searchable
    /\ Searchable \cap Gone \subseteq stray \cup ids
    /\ Live \subseteq tracked \cup leaked \cup todo
    /\ store.deletes = "any" => raised \cap {"add", "delete", "rebuild"} = {}

\* Hnswlib, and nothing raised so far.
Quiet == store = Hnswlib /\ raised \cap {"add", "delete", "rebuild"} = {}

\* Of the vectors, F are those of a file that a restart has loaded.  Of the
\* others, a deletion leaves at most what was marked, and RebuildCondition
\* deletions begin anew.
AtOnce == MostMarked + CleanSize
RoomFor(F) ==
    LET own == vecs \ F
    IN  /\ Cardinality(F) <= restarts * RoomBeforeRebuild
        /\ Cardinality(own \cap RowsAs("marked")) <= IF pc = "delete" THEN AtOnce ELSE MostMarked
        /\ pc \in {"idle", "add", "put", "delete", "vector delete"} =>
              delete_count <= RebuildCondition - 1
        /\ pc \in {"idle", "add", "put", "delete"} =>
              Cardinality(own \cap Gone) <= delete_count * AtOnce
        /\ pc = "vector delete" => Cardinality(own \cap Gone) <= (delete_count + 1) * AtOnce

Roomy ==
    /\ Quiet => /\ leaked = {} /\ Cardinality(Live) <= MaxSize + 1
                /\ Cardinality(disk.vecs) <= (restarts + 1) * RoomBeforeRebuild
                /\ \E F \in SUBSET vecs : RoomFor(F)
    /\ HnswRoom

VectorInv == VectorTypes /\ Accounted /\ Roomy

-----------------------------------------------------------------------------
(* Stores, sets and numbers.                                               *)

\* What the argument needs to know of the stores.
LEMMA StoreKinds ==
    ASSUME store \in Stores
    PROVE  /\ store.deletes = "mark" <=> store = Hnswlib
           /\ store.keeps \in {"file", "server", "memory"}
           /\ store.deletes \in {"any", "all", "mark", "no"}
           /\ store = Hnswlib => store.keeps = "file" /\ store.heals = "unsupported"
           /\ store.heals = "inserts" => store.deletes = "any"
           /\ store = Qdrant => /\ store.keeps = "server" /\ store.deletes = "any"
                                /\ store.heals = "unsupported"
<1>1. store \in Known
  BY StoresAssumption
<1>2. CASE store = Hnswlib
  BY <1>2 DEF Hnswlib, Qdrant
<1>3. CASE store # Hnswlib
  BY <1>1, <1>3 DEF Known, Faiss, USearch, DocArray, Chromadb, Milvus, Qdrant, RedisIndex,
                    PGVector, Weaviate, Hnswlib
<1> QED BY <1>2, <1>3

\* Sets of ids are finite.
LEMMA IdSets ==
    ASSUME rows \in Seq(States)
    PROVE  /\ Len(rows) \in Nat /\ DOMAIN rows = 1..Len(rows)
           /\ IsFiniteSet(DOMAIN rows)
           /\ \A S \in SUBSET DOMAIN rows : IsFiniteSet(S) /\ Cardinality(S) \in Nat
<1>1. Len(rows) \in Nat /\ DOMAIN rows = 1..Len(rows)
  OBVIOUS
<1>2. IsFiniteSet(1..Len(rows))
  BY <1>1, FS_Interval
<1>3. ASSUME NEW S \in SUBSET DOMAIN rows PROVE IsFiniteSet(S) /\ Cardinality(S) \in Nat
  <2>1. IsFiniteSet(S)
    BY <1>1, <1>2, FS_Subset
  <2> QED BY <2>1, FS_CardinalityType
<1> QED BY <1>1, <1>2, <1>3

LEMMA SmallerSet ==
    ASSUME NEW S, NEW T, IsFiniteSet(S), T \subseteq S
    PROVE  /\ IsFiniteSet(T) /\ Cardinality(T) \in Nat /\ Cardinality(S) \in Nat
           /\ Cardinality(T) <= Cardinality(S)
           /\ Cardinality(S \ T) = Cardinality(S) - Cardinality(T)
<1>1. IsFiniteSet(T) /\ Cardinality(T) <= Cardinality(S)
  BY FS_Subset
<1>2. Cardinality(S) \in Nat /\ Cardinality(T) \in Nat
  BY <1>1, FS_CardinalityType
<1>3. S \cap T = T
  OBVIOUS
<1>4. Cardinality(S \ T) = Cardinality(S) - Cardinality(T)
  BY <1>3, FS_Difference
<1> QED BY <1>1, <1>2, <1>4

LEMMA TwoSets ==
    ASSUME NEW S, NEW T, IsFiniteSet(S), IsFiniteSet(T)
    PROVE  /\ IsFiniteSet(S \cup T) /\ Cardinality(S \cup T) \in Nat
           /\ Cardinality(S) \in Nat /\ Cardinality(T) \in Nat
           /\ Cardinality(S \cup T) <= Cardinality(S) + Cardinality(T)
           /\ S \cap T = {} => Cardinality(S \cup T) = Cardinality(S) + Cardinality(T)
<1>1. /\ IsFiniteSet(S \cup T)
      /\ Cardinality(S \cup T) = Cardinality(S) + Cardinality(T) - Cardinality(S \cap T)
  BY FS_Union
<1>2. IsFiniteSet(S \cap T)
  BY FS_Intersection
<1>3. Cardinality(S \cap T) \in Nat /\ Cardinality(S) \in Nat /\ Cardinality(T) \in Nat
      /\ Cardinality(S \cup T) \in Nat
  BY <1>1, <1>2, FS_CardinalityType
<1>4. S \cap T = {} => Cardinality(S \cap T) = 0
  BY FS_EmptySet
<1> QED BY <1>1, <1>3, <1>4

\* n marked rows of n + l do not exceed the rate.
LEMMA MarkedAtRest ==
    ASSUME NEW n \in Nat, NEW l \in Nat, l <= MaxSize - CleanSize + 1,
           n * RateDen <= RateNum * (n + l)
    PROVE  n <= MostMarked
<1> DEFINE d == RateDen - RateNum
           t == RateNum * (MaxSize - CleanSize + 1)
<1>1. /\ RateNum \in Nat /\ RateDen \in Nat /\ d \in Nat \ {0} /\ MaxSize \in Nat
      /\ CleanSize \in 1..MaxSize
  BY SizesAssumption
<1>2. MaxSize - CleanSize + 1 \in Nat
  BY <1>1
<1>3. \A a, b, c \in Nat : b <= c => a * b <= a * c
  OBVIOUS
<1>4. RateNum * l <= t /\ t \in Nat
  BY <1>1, <1>2, <1>3
<1>5. n * d <= RateNum * l
  <2>1. n * d = n * RateDen - n * RateNum /\ RateNum * (n + l) = n * RateNum + RateNum * l
    BY <1>1
  <2> QED BY <1>1, <2>1
<1>6. n * d <= t
  BY <1>1, <1>4, <1>5
<1>7. \A a, b, q \in Nat : b # 0 /\ q * b <= a => q <= a \div b
  <2> SUFFICES ASSUME NEW a \in Nat, NEW b \in Nat, NEW q \in Nat, b # 0, q * b <= a,
                      q > a \div b
               PROVE  FALSE
    OBVIOUS
  <2>1. a \div b \in Nat /\ a < (a \div b + 1) * b
    OBVIOUS
  <2>2. (a \div b + 1) * b <= q * b
    BY <2>1
  <2> QED BY <2>1, <2>2
<1> HIDE DEF d, t
<1>8. n <= t \div d
  BY <1>1, <1>4, <1>6, <1>7
<1> QED BY <1>8 DEF MostMarked, t, d

\* The numbers of the room.
LEMMA RoomNumbers ==
    /\ MaxSize \in Nat /\ CleanSize \in 1..MaxSize /\ CleanSize \in Nat
    /\ RebuildCondition \in Nat \ {0} /\ RebuildCondition - 1 \in Nat /\ MaxElements \in Nat
    /\ MostMarked \in Nat /\ AtOnce \in Nat /\ AtOnce = MostMarked + CleanSize
    /\ RoomBeforeRebuild \in Nat
    /\ RoomBeforeRebuild = MaxSize + MostMarked + (RebuildCondition - 1) * AtOnce
<1>1. /\ RateNum \in Nat /\ RateDen - RateNum \in Nat \ {0} /\ MaxSize - CleanSize + 1 \in Nat
      /\ MaxSize \in Nat /\ CleanSize \in 1..MaxSize /\ CleanSize \in Nat
      /\ RebuildCondition \in Nat \ {0} /\ RebuildCondition - 1 \in Nat /\ MaxElements \in Nat
  BY SizesAssumption
<1>2. \A a, b \in Nat : a * b \in Nat
  OBVIOUS
<1>3. \A a \in Nat, b \in Nat \ {0} : a \div b \in Nat
  OBVIOUS
<1>4. MostMarked \in Nat
  BY <1>1, <1>2, <1>3 DEF MostMarked
<1>5. AtOnce \in Nat /\ AtOnce = MostMarked + CleanSize
  BY <1>1, <1>4 DEF AtOnce
<1>6. RoomBeforeRebuild = MaxSize + MostMarked + (RebuildCondition - 1) * AtOnce
  BY DEF RoomBeforeRebuild, AtOnce
<1>7. (RebuildCondition - 1) * AtOnce \in Nat
  BY <1>1, <1>2, <1>5
<1> QED BY <1>1, <1>4, <1>5, <1>6, <1>7

-----------------------------------------------------------------------------
(* The index between saves.                                                *)

\* Every vector of its own belongs to a live, a marked or a removed row.
LEMMA IndexFits ==
    ASSUME VectorInv, Quiet, pc \in {"idle", "add"}
    PROVE  /\ IsFiniteSet(vecs) /\ Cardinality(vecs) \in Nat
           /\ Cardinality(vecs) <= (restarts + 1) * RoomBeforeRebuild
<1>1. /\ rows \in Seq(States) /\ vecs \subseteq DOMAIN rows /\ restarts \in Nat
      /\ tracked \subseteq DOMAIN rows /\ Cardinality(tracked) <= MaxSize
      /\ delete_count \in Nat /\ (pc = "idle" => todo = {}) /\ (pc = "add" => todo \cap vecs = {})
      /\ Live \subseteq tracked \cup leaked \cup todo
  BY DEF VectorInv, VectorTypes, Accounted, Live, RowsAs
<1>2. leaked = {} /\ \E F \in SUBSET vecs : RoomFor(F)
  BY DEF VectorInv, Roomy
<1>3. PICK F \in SUBSET vecs : RoomFor(F)
  BY <1>2
<1> DEFINE own == vecs \ F
           l == own \cap Live
           m == own \cap RowsAs("marked")
           g == own \cap Gone
<1>4. \A S \in SUBSET DOMAIN rows : IsFiniteSet(S) /\ Cardinality(S) \in Nat
  BY <1>1, IdSets
<1>5. /\ IsFiniteSet(vecs) /\ IsFiniteSet(F) /\ IsFiniteSet(l) /\ IsFiniteSet(m)
      /\ IsFiniteSet(g) /\ IsFiniteSet(tracked)
      /\ Cardinality(vecs) \in Nat /\ Cardinality(F) \in Nat /\ Cardinality(l) \in Nat
      /\ Cardinality(m) \in Nat /\ Cardinality(g) \in Nat /\ Cardinality(tracked) \in Nat
  BY <1>1, <1>4
<1>6. vecs = F \cup (l \cup (m \cup g))
  <2>1. \A i \in vecs : rows[i] \in States
    BY <1>1
  <2>2. \A i \in own : i \in l \/ i \in m \/ i \in g
    BY <1>1, <2>1 DEF Live, Gone, RowsAs, States
  <2> QED BY <2>2
<1>7. l \subseteq tracked
  BY <1>1, <1>2
<1>8. Cardinality(l) <= MaxSize
  <2> HIDE DEF l
  <2>1. Cardinality(l) <= Cardinality(tracked)
    BY <1>5, <1>7, SmallerSet
  <2> QED BY <1>1, <1>5, <2>1, RoomNumbers
<1>9. /\ Cardinality(F) <= restarts * RoomBeforeRebuild
      /\ Cardinality(m) <= MostMarked
      /\ delete_count <= RebuildCondition - 1
      /\ Cardinality(g) <= delete_count * AtOnce
  BY <1>3 DEF RoomFor
<1> HIDE DEF l, m, g, own
<1>10. Cardinality(g) <= (RebuildCondition - 1) * AtOnce
  <2>1. \A a, b, c \in Nat : a <= b => a * c <= b * c
    OBVIOUS
  <2>2. delete_count * AtOnce <= (RebuildCondition - 1) * AtOnce
    BY <1>1, <1>9, <2>1, RoomNumbers
  <2>3. \A a, b, c \in Nat : a <= b /\ b <= c => a <= c
    OBVIOUS
  <2>4. \A a, b \in Nat : a * b \in Nat
    OBVIOUS
  <2>5. delete_count * AtOnce \in Nat /\ (RebuildCondition - 1) * AtOnce \in Nat
    BY <1>1, <2>4, RoomNumbers
  <2> QED BY <1>5, <1>9, <2>2, <2>3, <2>5
<1>11. Cardinality(vecs) <= Cardinality(F) + (Cardinality(l) + (Cardinality(m) + Cardinality(g)))
  <2>1. /\ IsFiniteSet(m \cup g) /\ Cardinality(m \cup g) \in Nat
        /\ Cardinality(m \cup g) <= Cardinality(m) + Cardinality(g)
    BY <1>5, TwoSets
  <2>2. /\ IsFiniteSet(l \cup (m \cup g)) /\ Cardinality(l \cup (m \cup g)) \in Nat
        /\ Cardinality(l \cup (m \cup g)) <= Cardinality(l) + Cardinality(m \cup g)
    BY <1>5, <2>1, TwoSets
  <2>3. Cardinality(vecs) <= Cardinality(F) + Cardinality(l \cup (m \cup g))
    BY <1>5, <1>6, <2>2, TwoSets
  <2> QED BY <1>5, <2>1, <2>2, <2>3
<1>12. (restarts + 1) * RoomBeforeRebuild = restarts * RoomBeforeRebuild + RoomBeforeRebuild
  BY <1>1, RoomNumbers
<1>13. restarts * RoomBeforeRebuild \in Nat /\ (RebuildCondition - 1) * AtOnce \in Nat
  <2>1. \A a, b \in Nat : a * b \in Nat
    OBVIOUS
  <2> QED BY <1>1, <2>1, RoomNumbers
<1>14. Cardinality(vecs) <= restarts * RoomBeforeRebuild + RoomBeforeRebuild
  <2> DEFINE x == (RebuildCondition - 1) * AtOnce
             y == restarts * RoomBeforeRebuild
  <2>1. RoomBeforeRebuild = MaxSize + MostMarked + x
    BY RoomNumbers
  <2>2. x \in Nat /\ y \in Nat /\ Cardinality(g) <= x /\ Cardinality(F) <= y
    BY <1>9, <1>10, <1>13
  <2> HIDE DEF x, y
  <2>3. Cardinality(vecs) <= y + (MaxSize + MostMarked + x)
    BY <1>5, <1>8, <1>9, <1>11, <2>2, RoomNumbers
  <2> QED BY <2>1, <2>3 DEF y
<1> QED BY <1>5, <1>12, <1>14

\* Only a refusal, a deletion or a rebuild that raises breaks the quiet.
LEMMA RoomKept ==
    ASSUME HnswRoom, raised \subseteq raised', "add" \in raised' => "add" \in raised,
           restarts' = restarts
    PROVE  HnswRoom'
BY DEF HnswRoom, RoomNeeded

-----------------------------------------------------------------------------
(* The steps of a lookup.                                                  *)

\* A lookup moves its reader; only Milvus's update_embeddings adds a vector,
\* which is accounted for.
LEMMA LookupKeeps ==
    ASSUME VectorInv,
           UNCHANGED <<store, rows, pending, dead, disk, manager, restarts, lost, leaked>>,
           raised' \cap {"add", "delete", "rebuild"} = raised \cap {"add", "delete", "rebuild"},
           vecs \subseteq vecs', vecs' \subseteq DOMAIN rows,
           store.heals # "inserts" => vecs' = vecs,
           stray' = stray \cup ((vecs' \ vecs) \cap Gone), pc = "add" => todo \cap vecs' = {},
           reader' \in [Readers -> ReaderType],
           \A r \in Readers : reader'[r].at # "idle" =>
               reader'[r].id \in DOMAIN rows /\ (pc = "add" => reader'[r].id \notin todo)
    PROVE  VectorInv'
<1>1. VectorTypes /\ Accounted /\ Roomy
  BY DEF VectorInv
<1>2. UNCHANGED <<Live, Gone>> /\ RowsAs("marked")' = RowsAs("marked")
  BY DEF Live, Gone, RowsAs
<1>3. UNCHANGED <<tracked, delete_count, process, pc, todo, ids>>
  BY DEF manager
<1>4. VectorTypes'
  BY <1>1, <1>2, <1>3 DEF VectorTypes
<1>5. Accounted'
  <2>1. Searchable \subseteq Searchable' /\ (Searchable' \ Searchable) \cap Gone \subseteq stray'
    BY <1>1 DEF VectorTypes, Visible, Searchable
  <2> QED BY <1>1, <1>2, <1>3, <2>1 DEF Accounted
<1>6. HnswRoom'
  BY <1>1 DEF Roomy, HnswRoom, RoomNeeded
<1>7. ASSUME Quiet'
      PROVE  /\ leaked' = {} /\ Cardinality(Live') <= MaxSize + 1
             /\ Cardinality(disk'.vecs) <= (restarts' + 1) * RoomBeforeRebuild
             /\ \E F \in SUBSET vecs' : RoomFor(F)'
  <2>1. Quiet /\ vecs' = vecs
    BY <1>1, <1>7, StoreKinds DEF Quiet, VectorTypes
  <2>2. /\ leaked = {} /\ Cardinality(Live) <= MaxSize + 1
        /\ Cardinality(disk.vecs) <= (restarts + 1) * RoomBeforeRebuild
        /\ \E F \in SUBSET vecs : RoomFor(F)
    BY <1>1, <2>1 DEF Roomy
  <2>3. PICK F \in SUBSET vecs : RoomFor(F)
    BY <2>2
  <2>4. RoomFor(F)'
    BY <1>2, <1>3, <2>1, <2>3 DEF RoomFor
  <2> QED BY <1>2, <2>1, <2>2, <2>4
<1> QED BY <1>4, <1>5, <1>6, <1>7 DEF VectorInv, Roomy

LEMMA ReaderSteps ==
    ASSUME VectorInv, NEW r \in Readers,
           \/ Search(r) \/ SearchRaises(r) \/ Fetch(r) \/ CheckUnsupported(r)
           \/ Check(r) \/ Heal(r) \/ HealRaises(r)
    PROVE  VectorInv'
<1>1. VectorTypes
  BY DEF VectorInv
<1> DEFINE Fine(f) == /\ f \in [Readers -> ReaderType]
                      /\ \A q \in Readers : f[q].at # "idle" =>
                            f[q].id \in DOMAIN rows /\ (pc = "add" => f[q].id \notin todo)
           Common == /\ UNCHANGED <<store, rows, pending, dead, disk, manager, restarts, lost, leaked>>
                     /\ raised' \cap {"add", "delete", "rebuild"}
                            = raised \cap {"add", "delete", "rebuild"}
<1>2. Fine(reader) /\ rows \in Seq(States) /\ vecs \subseteq DOMAIN rows
      /\ (pc = "add" => todo \cap vecs = {}) /\ DOMAIN rows \subseteq Nat
  <2>1. rows \in Seq(States)
    BY <1>1 DEF VectorTypes
  <2>2. DOMAIN rows \subseteq Nat
    BY <2>1, IdSets
  <2> QED BY <1>1, <2>1, <2>2 DEF VectorTypes
<1>3. ASSUME NEW at \in {"idle", "fetch", "check", "heal"}, NEW i \in Nat, Move(r, at, i),
             at # "idle" => i \in DOMAIN rows /\ (pc = "add" => i \notin todo)
      PROVE  Fine(reader')
  BY <1>2, <1>3 DEF Move, ReaderType
<1>4. 0 \in Nat /\ reader[r] \in ReaderType /\ reader[r].id \in Nat
  BY <1>2 DEF ReaderType
<1>5. ASSUME Common, vecs' = vecs, stray' = stray, Fine(reader')
      PROVE  VectorInv'
  <2>1. stray' = stray \cup ((vecs' \ vecs) \cap Gone)
    BY <1>5
  <2> QED BY <1>2, <1>5, <2>1, LookupKeeps
<1>6. CASE Search(r)
  <2>1. PICK i \in Visible : Move(r, "fetch", i)
    BY <1>6 DEF Search
  <2>2. i \in DOMAIN rows /\ (pc = "add" => i \notin todo) /\ i \in Nat
    BY <1>2, <2>1 DEF Visible
  <2>3. Fine(reader')
    BY <1>3, <2>1, <2>2
  <2>4. Common /\ vecs' = vecs /\ stray' = stray
    BY <1>6 DEF Search, aux, index
  <2> QED BY <1>5, <2>3, <2>4
<1>7. CASE SearchRaises(r) \/ CheckUnsupported(r) \/ HealRaises(r)
  <2>1. PICK call \in {"search", "check", "heal"} : LookupRaises(r, call)
    BY <1>7 DEF SearchRaises, CheckUnsupported, HealRaises
  <2>2. Fine(reader')
    BY <1>3, <1>4, <2>1 DEF LookupRaises
  <2>3. Common /\ vecs' = vecs /\ stray' = stray
    BY <1>7, <2>1 DEF SearchRaises, CheckUnsupported, HealRaises, LookupRaises, index
  <2> QED BY <1>5, <2>2, <2>3
<1>8. CASE Fetch(r) \/ Check(r)
  <2>1. PICK at \in {"idle", "check", "heal"}, i \in {0, reader[r].id} :
            Move(r, at, i) /\ (at # "idle" => i = reader[r].id)
    BY <1>8 DEF Fetch, Check
  <2>2. reader[r].at # "idle"
    BY <1>8 DEF Fetch, Check, Awake
  <2>3. Fine(reader')
    BY <1>2, <1>3, <1>4, <2>1, <2>2
  <2>4. Common /\ vecs' = vecs /\ stray' = stray
    BY <1>8 DEF Fetch, Check, aux, index
  <2> QED BY <1>5, <2>3, <2>4
<1>9. CASE Heal(r)
  <2>1. Fine(reader')
    BY <1>3, <1>4, <1>9 DEF Heal
  <2>2. /\ Common /\ vecs \subseteq vecs' /\ (store.heals # "inserts" => vecs' = vecs)
        /\ vecs' \subseteq vecs \cup {reader[r].id} /\ stray' = stray \cup ((vecs' \ vecs) \cap Gone)
    BY <1>9 DEF Heal, Gone
  <2>3. reader[r].id \in DOMAIN rows /\ (pc = "add" => reader[r].id \notin todo)
    BY <1>2, <1>9 DEF Heal, Awake
  <2>4. vecs' \subseteq DOMAIN rows /\ (pc = "add" => todo \cap vecs' = {})
    BY <1>2, <2>2, <2>3
  <2> QED BY <2>1, <2>2, <2>4, LookupKeeps
<1> QED BY <1>6, <1>7, <1>8, <1>9

-----------------------------------------------------------------------------
(* save: Insert, MulAdd, PutFits, PutEvicts.                               *)

\* What every step of the saving thread starts from.
LEMMA Parts ==
    ASSUME VectorInv
    PROVE  /\ VectorTypes /\ Accounted /\ Roomy /\ HnswRoom
           /\ Quiet => /\ leaked = {} /\ Cardinality(Live) <= MaxSize + 1
                       /\ Cardinality(disk.vecs) <= (restarts + 1) * RoomBeforeRebuild
                       /\ \E F \in SUBSET vecs : RoomFor(F)
BY DEF VectorInv, Roomy

LEMMA InsertKeeps == ASSUME VectorInv, Insert PROVE VectorInv'
<1> DEFINE n == Len(rows) + 1
<1>1. VectorTypes /\ Accounted
  BY Parts
<1>2. /\ pc = "idle" /\ rows' = Append(rows, "live") /\ todo' = {Len(rows')} /\ pc' = "add"
      /\ UNCHANGED <<store, vecs, pending, dead, disk, tracked, delete_count, process, ids,
                     reader, restarts, raised, lost, stray, leaked>>
  BY DEF Insert, index, lookup, aux
<1>3. rows \in Seq(States) /\ todo = {}
  BY <1>1, <1>2 DEF VectorTypes
<1>4. Len(rows) \in Nat /\ DOMAIN rows = 1..Len(rows)
  BY <1>3, IdSets
<1>5. /\ rows' \in Seq(States) /\ Len(rows') = n /\ DOMAIN rows' = 1..n /\ n \in DOMAIN rows'
      /\ DOMAIN rows \subseteq DOMAIN rows' /\ n \notin DOMAIN rows
      /\ rows'[n] = "live" /\ \A i \in DOMAIN rows : rows'[i] = rows[i]
  <2>1. "live" \in States
    BY DEF States
  <2>2. /\ rows' \in Seq(States) /\ Len(rows') = Len(rows) + 1
        /\ \A i \in 1..Len(rows) : rows'[i] = rows[i]
        /\ rows'[Len(rows) + 1] = "live"
    BY <1>2, <1>3, <2>1, AppendProperties
  <2>3. DOMAIN rows' = 1..n
    BY <2>2
  <2> QED BY <1>4, <2>2, <2>3
<1>6. DOMAIN rows' = DOMAIN rows \cup {n}
  BY <1>4, <1>5
<1>7. /\ Live' = Live \cup {n} /\ Gone' = Gone /\ RowsAs("marked")' = RowsAs("marked")
      /\ todo' = {n} /\ Live \subseteq DOMAIN rows
  <2> HIDE DEF n
  <2> QED BY <1>2, <1>5, <1>6 DEF Live, Gone, RowsAs
<1> HIDE DEF n
<1>8. VectorTypes'
  <2>1. tracked \subseteq Live /\ ids = {} /\ vecs \cup pending \subseteq DOMAIN rows
        /\ disk.vecs \subseteq DOMAIN rows
    BY <1>1, <1>2 DEF VectorTypes
  <2>2. /\ tracked' \subseteq Live' /\ todo' \subseteq Live' \ tracked'
        /\ todo' \cap (vecs' \cup pending') = {}
        /\ vecs' \cup pending' \subseteq DOMAIN rows' /\ disk'.vecs \subseteq DOMAIN rows'
        /\ ids' \subseteq Gone' /\ ids' = {} /\ pc' \in Labels /\ todo' # {}
    BY <1>2, <1>5, <1>7, <2>1 DEF Labels
  <2>3. \A r \in Readers : reader'[r].at # "idle" =>
           reader'[r].id \in DOMAIN rows' /\ (pc' = "add" => reader'[r].id \notin todo')
    BY <1>1, <1>2, <1>5, <1>7 DEF VectorTypes
  <2> QED BY <1>1, <1>2, <1>5, <2>2, <2>3 DEF VectorTypes
<1>9. Accounted'
  <2>1. Live' \ todo' = Live /\ Searchable' = Searchable
    BY <1>2, <1>5, <1>7 DEF Visible, Searchable
  <2>2. /\ Live \ lost \subseteq Searchable /\ Searchable \cap Gone \subseteq stray \cup ids
        /\ Live \subseteq tracked \cup leaked \cup todo
        /\ store.deletes = "any" => raised \cap {"add", "delete", "rebuild"} = {}
    BY <1>1, <1>2 DEF Accounted
  <2>3. /\ (Live' \ todo') \ lost' \subseteq Searchable'
        /\ Searchable' \cap Gone' \subseteq stray' \cup ids'
        /\ Live' \subseteq tracked' \cup leaked' \cup todo'
    BY <1>2, <1>3, <1>7, <2>1, <2>2
  <2>4. store'.deletes = "any" => raised' \cap {"add", "delete", "rebuild"} = {}
    BY <1>2, <2>2
  <2> QED BY <1>2, <2>3, <2>4 DEF Accounted
<1>10. HnswRoom'
  BY <1>2, Parts DEF HnswRoom, RoomNeeded
<1>11. ASSUME Quiet'
       PROVE  /\ leaked' = {} /\ Cardinality(Live') <= MaxSize + 1
              /\ Cardinality(disk'.vecs) <= (restarts' + 1) * RoomBeforeRebuild
              /\ \E F \in SUBSET vecs' : RoomFor(F)'
  <2>1. Quiet
    BY <1>2, <1>11 DEF Quiet
  <2>2. /\ leaked = {} /\ Cardinality(disk.vecs) <= (restarts + 1) * RoomBeforeRebuild
        /\ \E F \in SUBSET vecs : RoomFor(F)
    BY <2>1, Parts
  <2>3. PICK F \in SUBSET vecs : RoomFor(F)
    BY <2>2
  <2>4. RoomFor(F)'
    BY <1>2, <1>7, <2>3 DEF RoomFor
  <2>5. Cardinality(Live') <= MaxSize + 1
    <3>1. Live \subseteq tracked /\ tracked \subseteq DOMAIN rows
          /\ Cardinality(tracked) <= MaxSize
      BY <1>1, <1>3, <2>2 DEF VectorTypes, Accounted, Live, RowsAs
    <3>2. IsFiniteSet(Live) /\ IsFiniteSet(tracked)
          /\ Cardinality(Live) \in Nat /\ Cardinality(tracked) \in Nat
      BY <1>3, <1>7, <3>1, IdSets
    <3>3. Cardinality(Live) <= Cardinality(tracked)
      BY <3>1, <3>2, SmallerSet
    <3>4. n \notin Live
      BY <1>5, <1>7
    <3>5. Cardinality(Live \cup {n}) = Cardinality(Live) + 1
      BY <3>2, <3>4, FS_AddElement
    <3> QED BY <1>7, <3>1, <3>2, <3>3, <3>5, RoomNumbers
  <2> QED BY <1>2, <2>2, <2>4, <2>5
<1> QED BY <1>8, <1>9, <1>10, <1>11 DEF VectorInv, Roomy

LEMMA MulAddKeeps == ASSUME VectorInv, MulAdd PROVE VectorInv'
<1>1. VectorTypes /\ Accounted
  BY Parts
<1>2. /\ pc = "add" /\ pc' = "put"
      /\ IF store = Qdrant THEN pending' = pending \cup todo /\ vecs' = vecs
         ELSE vecs' = vecs \cup todo /\ pending' = pending
      /\ UNCHANGED <<store, rows, dead, disk, tracked, delete_count, process, todo, ids,
                     reader, restarts, raised, lost, stray, leaked>>
  BY DEF MulAdd, lookup, aux
<1>3. UNCHANGED <<Live, Gone>> /\ RowsAs("marked")' = RowsAs("marked")
  BY <1>2 DEF Live, Gone, RowsAs
<1>4. /\ todo \subseteq Live /\ todo \subseteq DOMAIN rows /\ todo \cap Gone = {}
      /\ todo \cap RowsAs("marked") = {} /\ todo \cap vecs = {}
      /\ vecs' \subseteq vecs \cup todo
  BY <1>1, <1>2 DEF VectorTypes, Live, Gone, RowsAs
<1>5. VectorTypes'
  BY <1>1, <1>2, <1>3, <1>4 DEF VectorTypes, Labels
<1>6. Accounted'
  <2>1. Searchable' = Searchable \cup todo
    BY <1>1, <1>2, <1>4 DEF VectorTypes, Visible, Searchable
  <2> QED BY <1>1, <1>2, <1>3, <1>4, <2>1 DEF Accounted
<1>7. HnswRoom'
  BY <1>2, Parts DEF HnswRoom, RoomNeeded
<1>8. ASSUME Quiet'
      PROVE  /\ leaked' = {} /\ Cardinality(Live') <= MaxSize + 1
             /\ Cardinality(disk'.vecs) <= (restarts' + 1) * RoomBeforeRebuild
             /\ \E F \in SUBSET vecs' : RoomFor(F)'
  <2>1. Quiet
    BY <1>2, <1>8 DEF Quiet
  <2>2. /\ leaked = {} /\ Cardinality(Live) <= MaxSize + 1
        /\ Cardinality(disk.vecs) <= (restarts + 1) * RoomBeforeRebuild
        /\ \E F \in SUBSET vecs : RoomFor(F)
    BY <2>1, Parts
  <2>3. PICK F \in SUBSET vecs : RoomFor(F)
    BY <2>2
  <2>4. /\ (vecs' \ F) \cap RowsAs("marked") = (vecs \ F) \cap RowsAs("marked")
        /\ (vecs' \ F) \cap Gone = (vecs \ F) \cap Gone
    BY <1>2, <1>4
  <2>5. RoomFor(F)'
    BY <1>2, <1>3, <2>3, <2>4 DEF RoomFor
  <2> QED BY <1>2, <1>3, <2>2, <2>3, <2>5
<1> QED BY <1>5, <1>6, <1>7, <1>8 DEF VectorInv, Roomy

\* What Qdrant applies it has accepted.
LEMMA AppliedKeeps == ASSUME VectorInv, Applied PROVE VectorInv'
<1>1. VectorTypes /\ Accounted
  BY Parts
<1>2. PICK i \in pending : vecs' = vecs \cup {i} /\ pending' = pending \ {i}
  BY DEF Applied
<1>3. UNCHANGED <<store, rows, dead, disk, tracked, delete_count, process, pc, todo, ids,
                  reader, restarts, raised, lost, stray, leaked>>
  BY DEF Applied, manager, lookup, aux
<1>4. UNCHANGED <<Live, Gone>>
  BY <1>3 DEF Live, Gone, RowsAs
<1>5. store = Qdrant /\ store # Hnswlib /\ dead = {}
  BY <1>1, <1>2, StoreKinds DEF VectorTypes
<1>6. VectorTypes'
  BY <1>1, <1>2, <1>3, <1>4, <1>5 DEF VectorTypes
<1>7. Accounted'
  <2>1. Searchable' = Searchable
    BY <1>2, <1>3, <1>5 DEF Searchable, Visible
  <2> QED BY <1>1, <1>3, <1>4, <2>1 DEF Accounted
<1>8. HnswRoom'
  BY <1>3, Parts DEF HnswRoom, RoomNeeded
<1>9. ~Quiet'
  BY <1>3, <1>5, StoreKinds DEF Quiet, VectorTypes
<1> QED BY <1>6, <1>7, <1>8, <1>9 DEF VectorInv, Roomy

LEMMA MulAddRefusedKeeps == ASSUME VectorInv, MulAddRefused PROVE VectorInv'
<1>1. VectorTypes /\ Accounted
  BY Parts
<1>2. /\ pc = "add" /\ Full /\ raised' = raised \cup {"add"} /\ leaked' = leaked \cup todo
      /\ todo' = {} /\ ids' = {} /\ pc' = "idle" /\ lost' = lost \cup todo
      /\ process' \in {process, "down"}
      /\ UNCHANGED <<store, rows, vecs, pending, dead, disk, tracked, delete_count, reader, restarts,
                     stray>>
  BY DEF MulAddRefused, Raise, index, lookup
<1>3. UNCHANGED <<Live, Gone>>
  BY <1>2 DEF Live, Gone, RowsAs
<1>4. VectorTypes'
  BY <1>1, <1>2, <1>3 DEF VectorTypes, Labels, Phases
<1>5. Accounted'
  <2>1. Searchable' = Searchable /\ ids = {}
    BY <1>1, <1>2 DEF VectorTypes, Visible, Searchable
  <2>2. store.deletes # "any"
    BY <1>1, <1>2, StoreKinds DEF VectorTypes, Full
  <2> QED BY <1>1, <1>2, <1>3, <2>1, <2>2 DEF Accounted
<1>6. HnswRoom'
  <2>1. CASE Quiet
    <3>1. Cardinality(vecs) \in Nat /\ Cardinality(vecs) <= (restarts + 1) * RoomBeforeRebuild
      BY <1>2, <2>1, IndexFits
    <3>2. MaxElements <= Cardinality(vecs) /\ MaxElements \in Nat
      BY <1>2, <3>1, RoomNumbers DEF Full
    <3>3. (restarts + 1) * RoomBeforeRebuild \in Nat
      <4>1. \A a, b \in Nat : a * b \in Nat
        OBVIOUS
      <4>2. restarts \in Nat
        BY <1>1 DEF VectorTypes
      <4>3. restarts + 1 \in Nat
        BY <4>2
      <4> QED BY <4>1, <4>3, RoomNumbers
    <3>4. MaxElements < RoomNeeded
      BY <3>1, <3>2, <3>3 DEF RoomNeeded
    <3> QED BY <1>2, <3>4 DEF HnswRoom, RoomNeeded
  <2>2. CASE ~Quiet
    <3>1. "add" \in raised \/ "delete" \in raised \/ "rebuild" \in raised
      BY <1>2, <2>2 DEF Quiet, Full
    <3> QED BY <1>2, <3>1, Parts DEF HnswRoom, RoomNeeded
  <2> QED BY <2>1, <2>2
<1>7. ~Quiet'
  BY <1>2 DEF Quiet
<1> QED BY <1>4, <1>5, <1>6, <1>7 DEF VectorInv, Roomy

LEMMA PutFitsKeeps == ASSUME VectorInv, PutFits PROVE VectorInv'
<1>1. VectorTypes /\ Accounted
  BY Parts
<1>2. PICK i \in todo : tracked' = tracked \cup {i} /\ todo' = todo \ {i}
  BY DEF PutFits
<1>3. /\ pc = "put" /\ Cardinality(tracked) < MaxSize
      /\ pc' = IF todo' = {} THEN "idle" ELSE "put"
      /\ process' \in {process, "up"}
      /\ UNCHANGED <<store, rows, vecs, pending, dead, disk, delete_count, ids, reader, restarts,
                     raised, lost, stray, leaked>>
  BY DEF PutFits, index, lookup, aux
<1>4. UNCHANGED <<Live, Gone>> /\ RowsAs("marked")' = RowsAs("marked")
  BY <1>3 DEF Live, Gone, RowsAs
<1>5. Cardinality(tracked') <= MaxSize
  <2>1. rows \in Seq(States) /\ tracked \subseteq DOMAIN rows /\ i \notin tracked
    BY <1>1, <1>2 DEF VectorTypes, Live, RowsAs
  <2>2. IsFiniteSet(tracked) /\ Cardinality(tracked) \in Nat
    BY <2>1, IdSets
  <2>3. Cardinality(tracked \cup {i}) = Cardinality(tracked) + 1
    BY <2>1, <2>2, FS_AddElement
  <2> QED BY <1>2, <1>3, <2>2, <2>3, RoomNumbers
<1>6. VectorTypes'
  <2>1. /\ tracked' \subseteq Live' /\ todo' \subseteq Live' \ tracked' /\ ids' = {}
    BY <1>1, <1>2, <1>3, <1>4 DEF VectorTypes
  <2>2. pc' \in Labels /\ (pc' = "idle" <=> todo' = {}) /\ pc' # "add" /\ pc' # "vector delete"
        /\ process' \in Phases
    BY <1>1, <1>3 DEF VectorTypes, Labels, Phases
  <2> QED BY <1>1, <1>3, <1>4, <1>5, <2>1, <2>2 DEF VectorTypes
<1>7. Accounted'
  <2>1. Searchable' = Searchable /\ pc' # "add" /\ pc # "add"
    BY <1>3 DEF Visible, Searchable
  <2>2. tracked' \cup leaked' \cup todo' = tracked \cup leaked \cup todo
    BY <1>2, <1>3
  <2> QED BY <1>1, <1>3, <1>4, <2>1, <2>2 DEF Accounted
<1>8. HnswRoom'
  BY <1>3, Parts DEF HnswRoom, RoomNeeded
<1>9. ASSUME Quiet'
      PROVE  /\ leaked' = {} /\ Cardinality(Live') <= MaxSize + 1
             /\ Cardinality(disk'.vecs) <= (restarts' + 1) * RoomBeforeRebuild
             /\ \E F \in SUBSET vecs' : RoomFor(F)'
  <2>1. Quiet
    BY <1>3, <1>9 DEF Quiet
  <2>2. /\ leaked = {} /\ Cardinality(Live) <= MaxSize + 1
        /\ Cardinality(disk.vecs) <= (restarts + 1) * RoomBeforeRebuild
        /\ \E F \in SUBSET vecs : RoomFor(F)
    BY <2>1, Parts
  <2>3. PICK F \in SUBSET vecs : RoomFor(F)
    BY <2>2
  <2>4. RoomFor(F)'
    BY <1>3, <1>4, <2>3 DEF RoomFor
  <2> QED BY <1>3, <1>4, <2>2, <2>3, <2>4
<1> QED BY <1>6, <1>7, <1>8, <1>9 DEF VectorInv, Roomy

\* A row's state is changed in place.
LEMMA RowsChanged ==
    ASSUME rows \in Seq(States), NEW f \in [DOMAIN rows -> States]
    PROVE  f \in Seq(States) /\ DOMAIN f = DOMAIN rows
<1>1. Len(rows) \in Nat /\ DOMAIN rows = 1..Len(rows)
  BY IdSets
<1> QED BY <1>1, SeqDef

LEMMA PutEvictsKeeps == ASSUME VectorInv, PutEvicts PROVE VectorInv'
<1>1. VectorTypes /\ Accounted
  BY Parts
<1>2. PICK victims \in {v \in SUBSET tracked : Cardinality(v) = CleanSize} :
          LET marked == victims \cup RowsAs("marked")
          IN  /\ tracked' = tracked \ victims
              /\ rows' = [i \in DOMAIN rows |-> IF i \in marked THEN "marked" ELSE rows[i]]
              /\ pc' = IF Cardinality(marked) * RateDen
                             > RateNum * Cardinality(marked \cup RowsAs("live"))
                       THEN "delete" ELSE "put"
  BY DEF PutEvicts
<1> DEFINE marked == victims \cup RowsAs("marked")
<1>3. /\ pc = "put" /\ victims \subseteq tracked /\ Cardinality(victims) = CleanSize
      /\ tracked' = tracked \ victims
      /\ rows' = [i \in DOMAIN rows |-> IF i \in marked THEN "marked" ELSE rows[i]]
      /\ pc' \in {"delete", "put"}
      /\ UNCHANGED <<store, vecs, pending, dead, disk, delete_count, process, todo, ids, reader,
                     restarts, raised, lost, stray, leaked>>
  BY <1>2 DEF PutEvicts, index, lookup, aux
<1>4. pc' = "put" => ~(Cardinality(marked) * RateDen
                         > RateNum * Cardinality(marked \cup Live))
  BY <1>2 DEF Live
<1>5. rows \in Seq(States) /\ tracked \subseteq Live /\ tracked \subseteq DOMAIN rows
      /\ \A i \in DOMAIN rows : rows[i] \in States
  <2>1. rows \in Seq(States) /\ tracked \subseteq Live
    BY <1>1 DEF VectorTypes
  <2>2. \A i \in DOMAIN rows : rows[i] \in States
    BY <2>1
  <2> QED BY <2>1, <2>2 DEF Live, RowsAs
<1>6. rows' \in Seq(States) /\ DOMAIN rows' = DOMAIN rows
  <2>1. rows' \in [DOMAIN rows -> States]
    BY <1>3, <1>5 DEF States
  <2> QED BY <1>5, <2>1, RowsChanged
<1>7. Live' = Live \ victims /\ RowsAs("marked")' = marked /\ Gone' = Gone
  BY <1>3, <1>5, <1>6 DEF Live, Gone, RowsAs
<1>8. IsFiniteSet(tracked) /\ Cardinality(tracked) \in Nat /\ Cardinality(tracked) <= MaxSize
      /\ IsFiniteSet(Live) /\ Cardinality(Live) \in Nat /\ IsFiniteSet(marked)
      /\ marked \subseteq DOMAIN rows
  <2>1. Live \subseteq DOMAIN rows /\ marked \subseteq DOMAIN rows
    BY <1>3, <1>5 DEF Live, RowsAs
  <2> QED BY <1>1, <1>5, <2>1, IdSets DEF VectorTypes
<1>9. VectorTypes'
  <2>1. Cardinality(tracked') <= MaxSize
    <3>1. Cardinality(tracked') \in Nat /\ Cardinality(tracked') <= Cardinality(tracked)
      BY <1>3, <1>8, SmallerSet
    <3> QED BY <1>8, <3>1, RoomNumbers
  <2>2. /\ tracked' \subseteq Live' /\ todo' \subseteq Live' \ tracked' /\ ids' = {}
        /\ todo' # {} /\ pc' # "idle" /\ pc' # "add" /\ pc' # "vector delete" /\ pc' \in Labels
    BY <1>1, <1>3, <1>7 DEF VectorTypes, Labels
  <2> QED BY <1>1, <1>3, <1>6, <2>1, <2>2 DEF VectorTypes
<1>10. Accounted'
  <2>1. Searchable' = Searchable /\ pc' # "add" /\ pc # "add"
    BY <1>3 DEF Visible, Searchable
  <2>2. /\ Live' \ lost' \subseteq Searchable' /\ Searchable' \cap Gone' \subseteq stray' \cup ids'
        /\ Live' \subseteq tracked' \cup leaked' \cup todo'
    BY <1>1, <1>3, <1>7, <2>1 DEF Accounted
  <2> QED BY <1>1, <1>3, <2>1, <2>2 DEF Accounted
<1>11. HnswRoom'
  BY <1>3, Parts DEF HnswRoom, RoomNeeded
<1>12. ASSUME Quiet'
       PROVE  /\ leaked' = {} /\ Cardinality(Live') <= MaxSize + 1
              /\ Cardinality(disk'.vecs) <= (restarts' + 1) * RoomBeforeRebuild
              /\ \E F \in SUBSET vecs' : RoomFor(F)'
  <2>1. Quiet
    BY <1>3, <1>12 DEF Quiet
  <2>2. /\ leaked = {} /\ Cardinality(Live) <= MaxSize + 1
        /\ Cardinality(disk.vecs) <= (restarts + 1) * RoomBeforeRebuild
        /\ \E F \in SUBSET vecs : RoomFor(F)
    BY <2>1, Parts
  <2>3. PICK F \in SUBSET vecs : RoomFor(F)
    BY <2>2
  <2> DEFINE own == vecs \ F
  <2>4. /\ Cardinality(F) <= restarts * RoomBeforeRebuild
        /\ Cardinality(own \cap RowsAs("marked")) <= MostMarked
        /\ delete_count <= RebuildCondition - 1
        /\ Cardinality(own \cap Gone) <= delete_count * AtOnce
    BY <1>3, <2>3 DEF RoomFor
  <2>5. /\ IsFiniteSet(victims) /\ Cardinality(victims) \in Nat
        /\ IsFiniteSet(Live') /\ Cardinality(Live') \in Nat
        /\ Cardinality(Live') = Cardinality(Live) - CleanSize
    <3>1. victims \subseteq Live
      BY <1>3, <1>5
    <3> QED BY <1>3, <1>7, <1>8, <3>1, SmallerSet
  <2>6. /\ IsFiniteSet(own \cap RowsAs("marked"))
        /\ Cardinality(own \cap RowsAs("marked")) \in Nat
        /\ IsFiniteSet(own \cap marked) /\ Cardinality(own \cap marked) \in Nat
        /\ Cardinality(marked) \in Nat /\ Cardinality(own \cap marked) <= Cardinality(marked)
    <3>1. own \cap RowsAs("marked") \subseteq marked /\ own \cap marked \subseteq marked
      OBVIOUS
    <3> HIDE DEF marked, own
    <3> QED BY <1>8, <3>1, SmallerSet
  <2>7. Cardinality(own \cap marked) <= AtOnce
    <3> DEFINE both == (own \cap RowsAs("marked")) \cup victims
    <3>1. own \cap marked \subseteq both
      OBVIOUS
    <3>2. IsFiniteSet(both) /\ Cardinality(both) \in Nat
          /\ Cardinality(both) <= Cardinality(own \cap RowsAs("marked")) + CleanSize
      <4> HIDE DEF own
      <4> QED BY <1>3, <2>5, <2>6, TwoSets
    <3>3. Cardinality(own \cap marked) <= Cardinality(both)
      <4> HIDE DEF both, own, marked
      <4> QED BY <3>1, <3>2, SmallerSet
    <3> HIDE DEF both, own, marked
    <3> QED BY <2>4, <2>6, <3>2, <3>3, RoomNumbers
  <2>8. ASSUME pc' = "put" PROVE Cardinality(own \cap marked) <= MostMarked
    <3>1. marked \cup Live = marked \cup Live' /\ marked \cap Live' = {}
      BY <1>3, <1>5, <1>7 DEF Live, RowsAs
    <3> HIDE DEF marked, own
    <3>2. Cardinality(marked \cup Live) = Cardinality(marked) + Cardinality(Live')
      BY <1>8, <2>5, <3>1, TwoSets
    <3>3. Cardinality(marked) * RateDen <= RateNum * (Cardinality(marked) + Cardinality(Live'))
      <4>1. \A a, b \in Nat : a * b \in Nat
        OBVIOUS
      <4>2. Cardinality(marked) + Cardinality(Live') \in Nat /\ RateNum \in Nat /\ RateDen \in Nat
        BY <2>5, <2>6, SizesAssumption
      <4>3. Cardinality(marked) * RateDen \in Nat
            /\ RateNum * (Cardinality(marked) + Cardinality(Live')) \in Nat
        BY <2>6, <4>1, <4>2
      <4>4. \A a, b \in Nat : ~(a > b) => a <= b
        OBVIOUS
      <4> QED BY <1>4, <2>8, <3>2, <4>3, <4>4
    <3>4. Cardinality(Live') <= MaxSize - CleanSize + 1
      BY <1>8, <2>2, <2>5, RoomNumbers
    <3>5. Cardinality(marked) <= MostMarked
      BY <2>5, <2>6, <3>3, <3>4, MarkedAtRest
    <3> QED BY <2>6, <3>5, RoomNumbers
  <2>9. RoomFor(F)'
    <3>1. vecs' \ F = own /\ pc' \in {"put", "delete"}
      BY <1>3
    <3>2. Cardinality(own \cap RowsAs("marked")')
             <= IF pc' = "delete" THEN AtOnce ELSE MostMarked
      BY <1>3, <1>7, <2>7, <2>8
    <3>3. /\ Cardinality(F) <= restarts' * RoomBeforeRebuild
          /\ delete_count' <= RebuildCondition - 1
          /\ Cardinality(own \cap Gone') <= delete_count' * AtOnce
      BY <1>3, <1>7, <2>4
    <3> HIDE DEF own
    <3> QED BY <3>1, <3>2, <3>3 DEF RoomFor
  <2>10. Cardinality(Live') <= MaxSize + 1
    BY <1>8, <2>2, <2>5, RoomNumbers
  <2> QED BY <1>3, <2>2, <2>3, <2>9, <2>10
<1> QED BY <1>9, <1>10, <1>11, <1>12 DEF VectorInv, Roomy

-----------------------------------------------------------------------------
(* EvictionManager.delete and rebuild.                                     *)

LEMMA ClearDeletedDataKeeps == ASSUME VectorInv, ClearDeletedData PROVE VectorInv'
<1> DEFINE m == RowsAs("marked")
<1>1. VectorTypes /\ Accounted
  BY Parts
<1>2. /\ pc = "delete" /\ ids' = m /\ pc' = "vector delete"
      /\ rows' = [i \in DOMAIN rows |-> IF rows[i] = "marked" THEN "gone" ELSE rows[i]]
      /\ UNCHANGED <<store, vecs, pending, dead, disk, tracked, delete_count, process, todo,
                     reader, restarts, raised, lost, stray, leaked>>
  BY DEF ClearDeletedData, index, lookup, aux
<1>3. rows \in Seq(States) /\ \A i \in DOMAIN rows : rows[i] \in States
  <2>1. rows \in Seq(States)
    BY <1>1 DEF VectorTypes
  <2> QED BY <2>1
<1>4. rows' \in Seq(States) /\ DOMAIN rows' = DOMAIN rows
  <2>1. rows' \in [DOMAIN rows -> States]
    BY <1>2, <1>3 DEF States
  <2> QED BY <1>3, <2>1, RowsChanged
<1>5. Live' = Live /\ RowsAs("marked")' = {} /\ Gone' = Gone \cup m /\ m \subseteq DOMAIN rows
  BY <1>2, <1>3, <1>4 DEF Live, Gone, RowsAs
<1>6. VectorTypes'
  <2>1. tracked' \subseteq Live' /\ todo' \subseteq Live' \ tracked' /\ ids' \subseteq Gone'
        /\ todo' # {} /\ pc' # "idle" /\ pc' # "add" /\ pc' \in Labels
    BY <1>1, <1>2, <1>5 DEF VectorTypes, Labels
  <2> QED BY <1>1, <1>2, <1>4, <2>1 DEF VectorTypes
<1>7. Accounted'
  <2>1. Searchable' = Searchable /\ ids = {}
    BY <1>1, <1>2 DEF VectorTypes, Visible, Searchable
  <2>2. /\ Live' \ lost' \subseteq Searchable' /\ Searchable' \cap Gone' \subseteq stray' \cup ids'
        /\ Live' \subseteq tracked' \cup leaked' \cup todo'
    BY <1>1, <1>2, <1>5, <2>1 DEF Accounted
  <2> QED BY <1>1, <1>2, <2>1, <2>2 DEF Accounted
<1>8. HnswRoom'
  BY <1>2, Parts DEF HnswRoom, RoomNeeded
<1>9. ASSUME Quiet'
      PROVE  /\ leaked' = {} /\ Cardinality(Live') <= MaxSize + 1
             /\ Cardinality(disk'.vecs) <= (restarts' + 1) * RoomBeforeRebuild
             /\ \E F \in SUBSET vecs' : RoomFor(F)'
  <2>1. Quiet
    BY <1>2, <1>9 DEF Quiet
  <2>2. /\ leaked = {} /\ Cardinality(Live) <= MaxSize + 1
        /\ Cardinality(disk.vecs) <= (restarts + 1) * RoomBeforeRebuild
        /\ \E F \in SUBSET vecs : RoomFor(F)
    BY <2>1, Parts
  <2>3. PICK F \in SUBSET vecs : RoomFor(F)
    BY <2>2
  <2> DEFINE own == vecs \ F
  <2>4. /\ Cardinality(F) <= restarts * RoomBeforeRebuild
        /\ Cardinality(own \cap m) <= AtOnce
        /\ delete_count <= RebuildCondition - 1
        /\ Cardinality(own \cap Gone) <= delete_count * AtOnce
    BY <1>2, <2>3 DEF RoomFor
  <2>5. own \cap Gone' = (own \cap Gone) \cup (own \cap m)
    BY <1>5
  <2>6. own \cap Gone \subseteq DOMAIN rows /\ own \cap m \subseteq DOMAIN rows
    BY <1>5 DEF Gone, RowsAs
  <2> HIDE DEF own, m
  <2>7. /\ Cardinality(own \cap Gone') \in Nat
        /\ Cardinality(own \cap Gone') <= Cardinality(own \cap Gone) + Cardinality(own \cap m)
        /\ Cardinality(own \cap Gone) \in Nat /\ Cardinality(own \cap m) \in Nat
    <3>1. IsFiniteSet(own \cap Gone) /\ IsFiniteSet(own \cap m)
      BY <1>3, <2>6, IdSets
    <3> QED BY <2>5, <3>1, TwoSets
  <2>8. (delete_count + 1) * AtOnce = delete_count * AtOnce + AtOnce
        /\ delete_count * AtOnce \in Nat
    <3>1. \A a, b \in Nat : a * b \in Nat /\ (a + 1) * b = a * b + b
      OBVIOUS
    <3>2. delete_count \in Nat
      BY <1>1 DEF VectorTypes
    <3> QED BY <3>1, <3>2, RoomNumbers
  <2>9. Cardinality(own \cap Gone') <= (delete_count + 1) * AtOnce
    <3> DEFINE x == delete_count * AtOnce
    <3>1. x \in Nat /\ Cardinality(own \cap Gone) <= x /\ (delete_count + 1) * AtOnce = x + AtOnce
      BY <2>4, <2>8
    <3> HIDE DEF x
    <3> QED BY <2>4, <2>7, <3>1, RoomNumbers
  <2>10. RoomFor(F)'
    <3>1. vecs' \ F = own /\ delete_count' = delete_count /\ pc' = "vector delete"
          /\ restarts' = restarts
      BY <1>2 DEF own
    <3>2. Cardinality(own \cap RowsAs("marked")') <= MostMarked
      <4>1. own \cap RowsAs("marked")' = {}
        BY <1>5
      <4>2. Cardinality(own \cap RowsAs("marked")') = 0
        BY <4>1, FS_EmptySet
      <4>3. 0 <= MostMarked
        BY RoomNumbers
      <4> QED BY <4>2, <4>3
    <3> QED BY <2>4, <2>9, <3>1, <3>2 DEF RoomFor
  <2> QED BY <1>2, <1>5, <2>2, <2>3, <2>10
<1> QED BY <1>6, <1>7, <1>8, <1>9 DEF VectorInv, Roomy

LEMMA VectorDeleteKeeps == ASSUME VectorInv, VectorDelete PROVE VectorInv'
<1>1. VectorTypes /\ Accounted
  BY Parts
<1>2. /\ pc = "vector delete" /\ Deletes /\ delete_count' = delete_count + 1
      /\ pc' = IF delete_count' >= RebuildCondition THEN "rebuild" ELSE "put"
      /\ ids' = {}
      /\ IF store.deletes = "mark" THEN dead' = dead \cup ids /\ vecs' = vecs
         ELSE vecs' = (vecs \cup pending) \ ids /\ dead' = dead
      /\ pending' = {}
      /\ UNCHANGED <<store, rows, disk, tracked, process, todo, reader, restarts, raised, lost, stray,
                     leaked>>
  BY DEF VectorDelete, lookup, aux
<1>3. UNCHANGED <<Live, Gone>> /\ RowsAs("marked")' = RowsAs("marked")
  BY <1>2 DEF Live, Gone, RowsAs
<1>4. ids \subseteq Gone /\ Live \cap Gone = {} /\ delete_count \in Nat
  BY <1>1 DEF VectorTypes, Live, Gone, RowsAs
<1>5. delete_count' \in Nat
  <2>1. delete_count' = delete_count + 1
    BY DEF VectorDelete
  <2> QED BY <1>4, <2>1
<1>6. vecs' \subseteq vecs \cup pending /\ dead' \subseteq vecs'
      /\ Searchable' = Searchable \ ids
      /\ (dead' # {} => store.deletes = "mark")
  <2>1. CASE store.deletes = "mark"
    <3>1. ids \subseteq Visible /\ pending = {}
      BY <1>1, <1>2, <2>1, StoreKinds DEF Deletes, VectorTypes
    <3> QED BY <1>1, <1>2, <2>1, <3>1 DEF VectorTypes, Visible, Searchable
  <2>2. CASE store.deletes # "mark"
    <3>1. dead = {}
      BY <1>1, <2>2 DEF VectorTypes
    <3> QED BY <1>2, <2>2, <3>1 DEF Visible, Searchable
  <2> QED BY <2>1, <2>2
<1>7. VectorTypes'
  <2>1. delete_count' \in Nat /\ ids' \subseteq Gone' /\ pc' \in Labels /\ pc' # "idle"
        /\ pc' # "add" /\ todo' # {}
    <3>1. delete_count' \in Nat
      BY <1>5
    <3>2. pc' \in {"rebuild", "put"}
      BY DEF VectorDelete
    <3>3. todo # {} /\ todo' = todo
      BY <1>1, <1>2 DEF VectorTypes
    <3> QED BY <1>2, <3>1, <3>2, <3>3 DEF Labels
  <2>2. vecs' \cup pending' \subseteq DOMAIN rows' /\ disk' = disk
        /\ (dead' \cup disk'.dead # {} => store'.deletes = "mark")
    BY <1>1, <1>2, <1>6 DEF VectorTypes
  <2> QED BY <1>1, <1>2, <1>3, <1>6, <2>1, <2>2 DEF VectorTypes
<1>8. Accounted'
  <2>1. pc # "add" /\ pc' # "add"
    BY <1>2
  <2>2. /\ Live' \ lost' \subseteq Searchable' /\ Searchable' \cap Gone' \subseteq stray' \cup ids'
        /\ Live' \subseteq tracked' \cup leaked' \cup todo'
    BY <1>1, <1>2, <1>3, <1>4, <1>6, <2>1 DEF Accounted
  <2> QED BY <1>1, <1>2, <2>1, <2>2 DEF Accounted
<1>9. HnswRoom'
  BY <1>2, Parts DEF HnswRoom, RoomNeeded
<1>10. ASSUME Quiet'
      PROVE  /\ leaked' = {} /\ Cardinality(Live') <= MaxSize + 1
             /\ Cardinality(disk'.vecs) <= (restarts' + 1) * RoomBeforeRebuild
             /\ \E F \in SUBSET vecs' : RoomFor(F)'
  <2>1. Quiet /\ vecs' = vecs
    BY <1>1, <1>2, <1>10, StoreKinds DEF Quiet, VectorTypes
  <2>2. /\ leaked = {} /\ Cardinality(Live) <= MaxSize + 1
        /\ Cardinality(disk.vecs) <= (restarts + 1) * RoomBeforeRebuild
        /\ \E F \in SUBSET vecs : RoomFor(F)
    BY <2>1, Parts
  <2>3. PICK F \in SUBSET vecs : RoomFor(F)
    BY <2>2
  <2>4. /\ Cardinality(F) <= restarts * RoomBeforeRebuild
        /\ Cardinality((vecs \ F) \cap RowsAs("marked")) <= MostMarked
        /\ Cardinality((vecs \ F) \cap Gone) <= (delete_count + 1) * AtOnce
    BY <1>2, <2>3 DEF RoomFor
  <2>5. pc' = "put" => delete_count' <= RebuildCondition - 1
    <3>1. pc' = "put" => ~(delete_count' >= RebuildCondition)
      BY DEF VectorDelete
    <3>2. \A a \in Nat, b \in Nat \ {0} : ~(a >= b) => a <= b - 1
      OBVIOUS
    <3>3. delete_count' \in Nat
      BY <1>5
    <3> QED BY <3>1, <3>2, <3>3, RoomNumbers
  <2>6. RoomFor(F)'
    <3>1. pc' \in {"put", "rebuild"}
      BY <1>2
    <3> QED BY <1>2, <1>3, <2>1, <2>4, <2>5, <3>1 DEF RoomFor
  <2> QED BY <1>2, <1>3, <2>1, <2>2, <2>3, <2>6
<1> QED BY <1>7, <1>8, <1>9, <1>10 DEF VectorInv, Roomy

LEMMA VectorDeleteRaisesKeeps == ASSUME VectorInv, VectorDeleteRaises PROVE VectorInv'
<1>1. VectorTypes /\ Accounted
  BY Parts
<1>2. PICK done \in IF store.deletes = "mark" THEN SUBSET (ids \cap Visible) ELSE {{}} :
          dead' = dead \cup done /\ stray' = stray \cup (ids \ done)
  BY DEF VectorDeleteRaises
<1>3. /\ pc = "vector delete" /\ ~Deletes /\ raised' = raised \cup {"delete"}
      /\ leaked' = leaked \cup todo /\ todo' = {} /\ ids' = {} /\ pc' = "idle"
      /\ process' \in {process, "down"}
      /\ UNCHANGED <<store, rows, vecs, pending, disk, tracked, delete_count, reader, restarts, lost>>
  BY DEF VectorDeleteRaises, Raise, lookup
<1>4. done \subseteq ids \cap Visible /\ (store.deletes # "mark" => done = {})
  BY <1>2
<1>5. UNCHANGED <<Live, Gone>> /\ Live \cap Gone = {} /\ ids \subseteq Gone
  BY <1>1, <1>3 DEF VectorTypes, Live, Gone, RowsAs
<1>6. Searchable' = Searchable \ done /\ dead' \subseteq vecs'
      /\ (dead' # {} => store.deletes = "mark")
  <2>1. store.deletes = "mark" => pending = {}
    BY <1>1, StoreKinds DEF VectorTypes
  <2> QED BY <1>1, <1>2, <1>3, <1>4, <2>1 DEF VectorTypes, Visible, Searchable
<1>7. VectorTypes'
  <2>1. dead' \cup disk'.dead # {} => store'.deletes = "mark"
    BY <1>1, <1>3, <1>6 DEF VectorTypes
  <2>2. pc' \in Labels /\ ids' \subseteq Gone' /\ process' \in Phases
    BY <1>1, <1>3 DEF VectorTypes, Labels, Phases
  <2> QED BY <1>1, <1>3, <1>5, <1>6, <2>1, <2>2 DEF VectorTypes
<1>8. Accounted'
  <2>1. store.deletes # "any"
    BY <1>3 DEF Deletes
  <2>2. /\ Live' \ lost' \subseteq Searchable' /\ Searchable' \cap Gone' \subseteq stray' \cup ids'
        /\ Live' \subseteq tracked' \cup leaked' \cup todo'
    BY <1>1, <1>2, <1>3, <1>4, <1>5, <1>6 DEF Accounted
  <2> QED BY <1>3, <2>1, <2>2 DEF Accounted
<1>9. HnswRoom' /\ ~Quiet'
  BY <1>3 DEF HnswRoom, Quiet
<1> QED BY <1>7, <1>8, <1>9 DEF VectorInv, Roomy

LEMMA RebuildKeeps == ASSUME VectorInv, Rebuild PROVE VectorInv'
<1>1. VectorTypes /\ Accounted
  BY Parts
<1>2. /\ pc = "rebuild" /\ Rebuilds /\ dead' = {} /\ delete_count' = 0 /\ pc' = "put"
      /\ vecs' = IF store = Hnswlib THEN Live ELSE vecs
      /\ UNCHANGED <<store, rows, pending, disk, tracked, process, todo, ids, reader, restarts,
                     raised, lost, stray, leaked>>
  BY DEF Rebuild, lookup, aux, Live
<1>3. UNCHANGED <<Live, Gone>> /\ RowsAs("marked")' = RowsAs("marked")
  BY <1>2 DEF Live, Gone, RowsAs
<1>4. Live \subseteq DOMAIN rows /\ Live \cap Gone = {} /\ Live \cap RowsAs("marked") = {}
  BY DEF Live, Gone, RowsAs
<1>5. Searchable' = IF store = Hnswlib THEN Live ELSE Searchable
  <2>1. IF store = Hnswlib THEN pending = {} ELSE dead = {}
    BY <1>1, StoreKinds DEF VectorTypes
  <2> QED BY <1>2, <2>1 DEF Visible, Searchable
<1>6. VectorTypes'
  <2>1. vecs' \cup pending' \subseteq DOMAIN rows /\ dead' \subseteq vecs'
        /\ delete_count' \in Nat
        /\ (dead' \cup disk'.dead # {} => store'.deletes = "mark")
    BY <1>1, <1>2, <1>4 DEF VectorTypes
  <2>2. pc' \in Labels /\ todo' # {} /\ ids' = {}
    BY <1>1, <1>2 DEF VectorTypes, Labels
  <2> QED BY <1>1, <1>2, <1>3, <2>1, <2>2 DEF VectorTypes
<1>7. Accounted'
  <2>1. pc # "add" /\ pc' # "add"
    BY <1>2
  <2>2. /\ Live' \ lost' \subseteq Searchable' /\ Searchable' \cap Gone' \subseteq stray' \cup ids'
        /\ Live' \subseteq tracked' \cup leaked' \cup todo'
    BY <1>1, <1>2, <1>3, <1>4, <1>5, <2>1 DEF Accounted
  <2> QED BY <1>1, <1>2, <2>1, <2>2 DEF Accounted
<1>8. HnswRoom'
  BY <1>2, Parts DEF HnswRoom, RoomNeeded
<1>9. ASSUME Quiet'
      PROVE  /\ leaked' = {} /\ Cardinality(Live') <= MaxSize + 1
             /\ Cardinality(disk'.vecs) <= (restarts' + 1) * RoomBeforeRebuild
             /\ \E F \in SUBSET vecs' : RoomFor(F)'
  <2>1. Quiet /\ vecs' = Live
    BY <1>2, <1>9 DEF Quiet
  <2>2. /\ leaked = {} /\ Cardinality(Live) <= MaxSize + 1
        /\ Cardinality(disk.vecs) <= (restarts + 1) * RoomBeforeRebuild
    BY <2>1, Parts
  <2>3. {} \in SUBSET vecs' /\ (vecs' \ {}) \cap RowsAs("marked")' = {}
        /\ (vecs' \ {}) \cap Gone' = {} /\ Cardinality({}) = 0
    BY <1>3, <1>4, <2>1, FS_EmptySet
  <2>4. RoomFor({})'
    <3>1. 0 <= restarts' * RoomBeforeRebuild
      <4>1. \A a, b \in Nat : 0 <= a * b
        OBVIOUS
      <4>2. restarts' \in Nat
        BY <1>6 DEF VectorTypes
      <4> QED BY <4>1, <4>2, RoomNumbers
    <3>2. delete_count' = 0 /\ 0 <= delete_count' * AtOnce /\ 0 <= RebuildCondition - 1
          /\ 0 <= MostMarked
      <4>1. \A b \in Nat : 0 <= 0 * b
        OBVIOUS
      <4> QED BY <1>2, <4>1, RoomNumbers
    <3> QED BY <1>2, <2>3, <3>1, <3>2 DEF RoomFor
  <2> QED BY <1>2, <1>3, <2>2, <2>3, <2>4
<1> QED BY <1>6, <1>7, <1>8, <1>9 DEF VectorInv, Roomy

LEMMA RebuildRaisesKeeps == ASSUME VectorInv, RebuildRaises PROVE VectorInv'
<1>1. VectorTypes /\ Accounted
  BY Parts
<1>2. /\ pc = "rebuild" /\ ~Rebuilds /\ raised' = raised \cup {"rebuild"}
      /\ leaked' = leaked \cup todo /\ todo' = {} /\ ids' = {} /\ pc' = "idle"
      /\ process' \in {process, "down"}
      /\ UNCHANGED <<store, rows, vecs, pending, dead, disk, tracked, delete_count, reader,
                     restarts, lost, stray>>
  BY DEF RebuildRaises, Raise, index, lookup
<1>3. UNCHANGED <<Live, Gone>>
  BY <1>2 DEF Live, Gone, RowsAs
<1>4. VectorTypes'
  BY <1>1, <1>2, <1>3 DEF VectorTypes, Labels, Phases
<1>5. Accounted'
  <2>1. Searchable' = Searchable /\ ids = {}
    BY <1>1, <1>2 DEF VectorTypes, Visible, Searchable
  <2>2. store.deletes # "any"
    BY <1>1, <1>2, StoreKinds DEF VectorTypes, Rebuilds
  <2>3. /\ Live' \ lost' \subseteq Searchable' /\ Searchable' \cap Gone' \subseteq stray' \cup ids'
        /\ Live' \subseteq tracked' \cup leaked' \cup todo'
    BY <1>1, <1>2, <1>3, <2>1 DEF Accounted
  <2> QED BY <1>2, <2>2, <2>3 DEF Accounted
<1>6. HnswRoom' /\ ~Quiet'
  BY <1>2 DEF HnswRoom, Quiet
<1> QED BY <1>4, <1>5, <1>6 DEF VectorInv, Roomy

-----------------------------------------------------------------------------
(* flush, and the restart.                                                 *)

LEMMA FlushKeeps == ASSUME VectorInv, Flush PROVE VectorInv'
<1>1. VectorTypes /\ Accounted
  BY Parts
<1>2. /\ pc = "idle" /\ disk' = [vecs |-> vecs, dead |-> dead]
      /\ UNCHANGED <<store, rows, vecs, pending, dead, tracked, delete_count, process, pc, todo,
                     ids, reader, restarts, raised, lost, stray, leaked>>
  BY DEF Flush, manager, lookup, aux
<1>3. UNCHANGED <<Live, Gone>> /\ RowsAs("marked")' = RowsAs("marked")
  BY <1>2 DEF Live, Gone, RowsAs
<1>4. disk'.vecs = vecs /\ disk'.dead = dead
  BY <1>2
<1>5. VectorTypes'
  <2>1. /\ disk'.vecs \subseteq DOMAIN rows /\ disk'.dead \subseteq disk'.vecs
        /\ (dead' \cup disk'.dead # {} => store'.deletes = "mark")
    BY <1>1, <1>2, <1>4 DEF VectorTypes
  <2> QED BY <1>1, <1>2, <1>3, <2>1 DEF VectorTypes
<1>6. Accounted'
  <2>1. Searchable' = Searchable
    BY <1>2 DEF Visible, Searchable
  <2> QED BY <1>1, <1>2, <1>3, <2>1 DEF Accounted
<1>7. HnswRoom'
  BY <1>2, Parts DEF HnswRoom, RoomNeeded
<1>8. ASSUME Quiet'
      PROVE  /\ leaked' = {} /\ Cardinality(Live') <= MaxSize + 1
             /\ Cardinality(disk'.vecs) <= (restarts' + 1) * RoomBeforeRebuild
             /\ \E F \in SUBSET vecs' : RoomFor(F)'
  <2>1. Quiet
    BY <1>2, <1>8 DEF Quiet
  <2>2. leaked = {} /\ Cardinality(Live) <= MaxSize + 1 /\ \E F \in SUBSET vecs : RoomFor(F)
    BY <2>1, Parts
  <2>3. Cardinality(disk'.vecs) <= (restarts + 1) * RoomBeforeRebuild
    BY <1>2, <1>4, <2>1, IndexFits
  <2>4. PICK F \in SUBSET vecs : RoomFor(F)
    BY <2>2
  <2>5. RoomFor(F)'
    BY <1>2, <1>3, <2>4 DEF RoomFor
  <2> QED BY <1>2, <1>3, <2>2, <2>3, <2>4, <2>5
<1> QED BY <1>5, <1>6, <1>7, <1>8 DEF VectorInv, Roomy

\* Hnswlib loads its file, so that all the vectors are those of a file.
LEMMA RestartKeeps == ASSUME VectorInv, Restart PROVE VectorInv'
<1> DEFINE left == CASE store.keeps = "file"   -> disk
                     [] store.keeps = "server" -> [vecs |-> vecs, dead |-> dead]
                     [] store.keeps = "memory" -> [vecs |-> {}, dead |-> {}]
<1>1. VectorTypes /\ Accounted
  BY Parts
<1>2. /\ restarts' = restarts + 1 /\ vecs' = left.vecs /\ dead' = left.dead
      /\ tracked' = {} /\ delete_count' = 0 /\ ids' = {} /\ leaked' = {}
      /\ todo' = Live /\ pc' = (IF Live = {} THEN "idle" ELSE "put")
      /\ reader' = [r \in Readers |-> Asleep]
      /\ lost' = lost \cup (Live \ ((vecs' \ dead') \cup pending))
      /\ stray' = stray \cup (((vecs' \ dead') \cup pending) \cap Gone)
      /\ process' = (IF Live = {} THEN "up" ELSE "starting")
      /\ UNCHANGED <<store, rows, pending, disk, raised>>
  BY DEF Restart, Live, Gone
<1>3. UNCHANGED <<Live, Gone>>
  BY <1>2 DEF Live, Gone, RowsAs
<1>4. /\ vecs' \subseteq DOMAIN rows /\ dead' \subseteq vecs'
      /\ (dead' # {} => store.deletes = "mark")
      /\ store = Hnswlib => vecs' = disk.vecs
  <2>1. store.keeps \in {"file", "server", "memory"} /\ (store = Hnswlib => store.keeps = "file")
    BY <1>1, StoreKinds DEF VectorTypes
  <2>2. CASE store.keeps = "file"
    BY <1>1, <1>2, <2>2 DEF VectorTypes
  <2>3. CASE store.keeps = "server"
    BY <1>1, <1>2, <2>1, <2>3 DEF VectorTypes
  <2>4. CASE store.keeps = "memory"
    BY <1>1, <1>2, <2>1, <2>4 DEF VectorTypes
  <2> QED BY <2>1, <2>2, <2>3, <2>4
<1> HIDE DEF left
<1>5. restarts \in Nat /\ restarts' \in Nat /\ restarts' = restarts + 1
  <2>1. restarts \in Nat
    BY <1>1 DEF VectorTypes
  <2>2. restarts' = restarts + 1
    BY DEF Restart
  <2> QED BY <2>1, <2>2
<1>6. restarts * RoomBeforeRebuild \in Nat /\ (restarts + 1) * RoomBeforeRebuild \in Nat
      /\ (restarts' + 1) * RoomBeforeRebuild = (restarts + 1) * RoomBeforeRebuild + RoomBeforeRebuild
      /\ (restarts + 1) * RoomBeforeRebuild <= (restarts' + 1) * RoomBeforeRebuild
  <2>1. \A a, b \in Nat : /\ a * b \in Nat /\ (a + 1) * b \in Nat
                          /\ (a + 1 + 1) * b = (a + 1) * b + b
                          /\ (a + 1) * b <= (a + 1 + 1) * b
    OBVIOUS
  <2>2. restarts' + 1 = restarts + 1 + 1
    BY <1>5
  <2> QED BY <1>5, <2>1, <2>2, RoomNumbers
<1>7. VectorTypes'
  <2>1. Cardinality(tracked') <= MaxSize
    <3>1. Cardinality({}) = 0
      BY FS_EmptySet
    <3>2. tracked' = {} /\ 0 <= MaxSize
      BY <1>2, RoomNumbers
    <3> QED BY <3>1, <3>2
  <2>2. reader' \in [Readers -> ReaderType] /\ \A r \in Readers : reader'[r].at = "idle"
    BY <1>2 DEF Asleep, ReaderType
  <2>3. /\ tracked' \subseteq Live' /\ todo' \subseteq Live' \ tracked' /\ ids' \subseteq Gone'
        /\ delete_count' \in Nat /\ pc' \in Labels /\ (pc' = "idle" <=> todo' = {})
        /\ pc' # "add" /\ ids' = {} /\ process' \in Phases
    BY <1>2, <1>3 DEF Labels, Phases
  <2>4. /\ disk'.vecs \subseteq DOMAIN rows' /\ disk'.dead \subseteq disk'.vecs
        /\ (dead' \cup disk'.dead # {} => store'.deletes = "mark")
        /\ store' \in Stores /\ rows' \in Seq(States)
        /\ vecs' \cup pending' \subseteq DOMAIN rows' /\ dead' \subseteq vecs'
        /\ (pending' # {} => store' = Qdrant)
    BY <1>1, <1>2, <1>4 DEF VectorTypes
  <2> QED BY <1>5, <2>1, <2>2, <2>3, <2>4 DEF VectorTypes
<1>8. Accounted'
  <2>1. Searchable' = (vecs' \ dead') \cup pending /\ pc' # "add"
    BY <1>2 DEF Visible, Searchable
  <2>2. /\ Live' \ lost' \subseteq Searchable' /\ Searchable' \cap Gone' \subseteq stray' \cup ids'
        /\ Live' \subseteq tracked' \cup leaked' \cup todo'
    BY <1>2, <1>3, <2>1
  <2> QED BY <1>1, <1>2, <2>1, <2>2 DEF Accounted
<1>9. HnswRoom'
  <2>1. HnswRoom /\ raised' = raised
    BY <1>2, Parts
  <2>2. MaxElements < (restarts + 1) * RoomBeforeRebuild + 1
           => MaxElements < (restarts' + 1) * RoomBeforeRebuild + 1
    <3> DEFINE x == (restarts + 1) * RoomBeforeRebuild
               y == (restarts' + 1) * RoomBeforeRebuild
    <3>1. x \in Nat /\ y = x + RoomBeforeRebuild
      BY <1>6
    <3> HIDE DEF x, y
    <3>2. MaxElements < x + 1 => MaxElements < y + 1
      BY <3>1, RoomNumbers
    <3> QED BY <3>2 DEF x, y
  <2> QED BY <2>1, <2>2 DEF HnswRoom, RoomNeeded
<1>10. ASSUME Quiet'
       PROVE  /\ leaked' = {} /\ Cardinality(Live') <= MaxSize + 1
              /\ Cardinality(disk'.vecs) <= (restarts' + 1) * RoomBeforeRebuild
              /\ \E F \in SUBSET vecs' : RoomFor(F)'
  <2>1. Quiet /\ vecs' = disk.vecs
    BY <1>2, <1>4, <1>10 DEF Quiet
  <2>2. Cardinality(Live) <= MaxSize + 1
        /\ Cardinality(disk.vecs) <= (restarts + 1) * RoomBeforeRebuild
    BY <2>1, Parts
  <2>3. Cardinality(disk.vecs) \in Nat
    BY <1>1, IdSets DEF VectorTypes
  <2>4. Cardinality(disk'.vecs) <= (restarts' + 1) * RoomBeforeRebuild
    <3> DEFINE x == (restarts + 1) * RoomBeforeRebuild
               y == (restarts' + 1) * RoomBeforeRebuild
    <3>1. x \in Nat /\ y = x + RoomBeforeRebuild /\ disk' = disk
          /\ Cardinality(disk.vecs) <= x
      BY <1>2, <1>6, <2>2
    <3> HIDE DEF x, y
    <3>2. Cardinality(disk.vecs) <= y
      BY <2>3, <3>1, RoomNumbers
    <3> QED BY <3>1, <3>2 DEF y
  <2>5. PICK F : F = disk.vecs
    OBVIOUS
  <2>6. RoomFor(F)'
    <3>1. Cardinality(F) <= restarts' * RoomBeforeRebuild
      BY <1>5, <2>2, <2>5
    <3>2. delete_count' = 0 /\ 0 <= 0 * AtOnce /\ 0 <= RebuildCondition - 1
          /\ 0 <= MostMarked /\ pc' \in {"idle", "put"}
      <4>1. \A b \in Nat : 0 <= 0 * b
        OBVIOUS
      <4>2. pc' \in {"idle", "put"} /\ delete_count' = 0
        BY <1>2
      <4> QED BY <4>1, <4>2, RoomNumbers
    <3>3. /\ (vecs' \ F) \cap RowsAs("marked")' = {}
          /\ (vecs' \ F) \cap Gone' = {} /\ Cardinality({}) = 0
      BY <2>1, <2>5, FS_EmptySet
    <3> QED BY <3>1, <3>2, <3>3 DEF RoomFor
  <2>7. F \in SUBSET vecs'
    BY <2>1, <2>5
  <2> QED BY <1>2, <1>3, <2>2, <2>4, <2>6, <2>7
<1> QED BY <1>7, <1>8, <1>9, <1>10 DEF VectorInv, Roomy

-----------------------------------------------------------------------------
(* The invariant, and what follows from it.                                *)

LEMMA VectorInit == Init => VectorInv
<1> SUFFICES ASSUME Init PROVE VectorInv
  OBVIOUS
<1>1. /\ store \in Stores /\ rows = << >> /\ vecs = {} /\ pending = {} /\ dead = {}
      /\ process = "up"
      /\ disk = [vecs |-> {}, dead |-> {}] /\ tracked = {} /\ delete_count = 0 /\ pc = "idle"
      /\ todo = {} /\ ids = {} /\ reader = [r \in Readers |-> Asleep] /\ restarts = 0
      /\ raised = {} /\ lost = {} /\ stray = {} /\ leaked = {}
  BY DEF Init
<1>2. rows \in Seq(States) /\ DOMAIN rows = {}
  <2>1. << >> \in Seq(States) /\ DOMAIN << >> = {}
    OBVIOUS
  <2> QED BY <1>1, <2>1
<1>3. Live = {} /\ Gone = {} /\ RowsAs("marked") = {} /\ Cardinality({}) = 0
  BY <1>2, FS_EmptySet DEF Live, Gone, RowsAs
<1>4. VectorTypes
  <2>1. Cardinality(tracked) <= MaxSize
    BY <1>1, <1>3, RoomNumbers
  <2>2. reader \in [Readers -> ReaderType] /\ \A r \in Readers : reader[r].at = "idle"
    BY <1>1 DEF Asleep, ReaderType
  <2> QED BY <1>1, <1>2, <2>1, <2>2 DEF VectorTypes, Labels, Phases
<1>5. Accounted
  BY <1>1, <1>3 DEF Accounted, Visible, Searchable
<1>6. HnswRoom
  BY <1>1 DEF HnswRoom
<1>7. RoomFor({})
  <2>1. (vecs \ {}) \cap RowsAs("marked") = {} /\ (vecs \ {}) \cap Gone = {}
    BY <1>3
  <2>2. 0 <= restarts * RoomBeforeRebuild /\ 0 <= 0 * AtOnce /\ 0 <= RebuildCondition - 1
        /\ 0 <= MostMarked
    <3>1. \A b \in Nat : 0 <= 0 * b
      OBVIOUS
    <3> QED BY <1>1, <3>1, RoomNumbers
  <2> QED BY <1>1, <1>3, <2>1, <2>2 DEF RoomFor
<1>8. Cardinality(Live) <= MaxSize + 1 /\ Cardinality(disk.vecs) <= (restarts + 1) * RoomBeforeRebuild
  BY <1>1, <1>3, RoomNumbers
<1>9. \E F \in SUBSET vecs : RoomFor(F)
  BY <1>1, <1>7
<1> QED BY <1>1, <1>4, <1>5, <1>6, <1>8, <1>9 DEF VectorInv, Roomy

LEMMA VectorStep == VectorInv /\ [Next]_vars => VectorInv'
<1> SUFFICES ASSUME VectorInv, [Next]_vars PROVE VectorInv'
  OBVIOUS
<1>1. CASE Insert
  BY <1>1, InsertKeeps
<1>2. CASE MulAdd
  BY <1>2, MulAddKeeps
<1>3. CASE MulAddRefused
  BY <1>3, MulAddRefusedKeeps
<1>4. CASE PutFits
  BY <1>4, PutFitsKeeps
<1>5. CASE PutEvicts
  BY <1>5, PutEvictsKeeps
<1>6. CASE ClearDeletedData
  BY <1>6, ClearDeletedDataKeeps
<1>7. CASE VectorDelete
  BY <1>7, VectorDeleteKeeps
<1>8. CASE VectorDeleteRaises
  BY <1>8, VectorDeleteRaisesKeeps
<1>9. CASE Rebuild
  BY <1>9, RebuildKeeps
<1>10. CASE RebuildRaises
  BY <1>10, RebuildRaisesKeeps
<1>11. CASE Flush
  BY <1>11, FlushKeeps
<1>12. CASE Restart
  BY <1>12, RestartKeeps
<1>13. ASSUME NEW r \in Readers,
              \/ Search(r) \/ SearchRaises(r) \/ Fetch(r) \/ CheckUnsupported(r)
              \/ Check(r) \/ Heal(r) \/ HealRaises(r)
       PROVE  VectorInv'
  BY <1>13, ReaderSteps
<1>14. CASE UNCHANGED vars
  <2>1. /\ UNCHANGED <<store, rows, vecs, pending, dead, disk, tracked, delete_count, process>>
        /\ UNCHANGED <<pc, todo, ids, reader, restarts, raised, lost, stray, leaked>>
    BY <1>14 DEF vars, index, manager, lookup, aux
  <2>2. UNCHANGED <<Live, Gone, Searchable>> /\ RowsAs("marked")' = RowsAs("marked")
    BY <2>1 DEF Live, Gone, RowsAs, Visible, Searchable
  <2>3. VectorTypes' /\ Accounted' /\ HnswRoom' /\ (Quiet' <=> Quiet)
    BY <2>1, <2>2, Parts DEF VectorTypes, Accounted, HnswRoom, RoomNeeded, Quiet
  <2>4. ASSUME NEW F, RoomFor(F) PROVE RoomFor(F)'
    BY <2>1, <2>2, <2>4 DEF RoomFor
  <2> QED BY <2>1, <2>2, <2>3, <2>4, Parts DEF VectorInv, Roomy
<1>15. CASE Applied
  BY <1>15, AppliedKeeps
<1> QED BY <1>1, <1>2, <1>3, <1>4, <1>5, <1>6, <1>7, <1>8, <1>9, <1>10, <1>11, <1>12, <1>13,
           <1>14, <1>15 DEF Next, AtRest

\* Types, and where the saving thread is says what it holds.
THEOREM VectorsCorrect == Spec => []VectorInv
BY VectorInit, VectorStep, PTL DEF Spec

\* Between saves, a search can find every live row, over deletions, rebuilds and
\* restarts, unless a restart came before a flush, Hnswlib refused the vector, or
\* Qdrant has yet to apply it.
THEOREM LiveRowsFound == Spec => []LiveRowsFindable
<1>1. VectorInv => LiveRowsFindable
  <2> SUFFICES ASSUME VectorInv PROVE LiveRowsFindable
    OBVIOUS
  <2>1. VectorTypes /\ Accounted
    BY Parts
  <2>2. rows \in Seq({"live", "marked", "gone"})
    BY <2>1 DEF VectorTypes, States
  <2>3. TypeOK
    BY <2>1, <2>2 DEF TypeOK, VectorTypes, Labels, Phases, Live, Gone, RowsAs
  <2>4. pc = "idle" => RowsAs("live") \ lost \subseteq Visible \cup pending
    BY <2>1 DEF Accounted, Live, Searchable
  <2> QED BY <2>3, <2>4 DEF LiveRowsFindable
<1> QED BY <1>1, VectorsCorrect, PTL

\* Between saves, a search returns no vector of a row that clear_deleted_data has
\* removed, except when the deletion raised, cache_health_check put the vector
\* back, or a restart found it without its row: in an older file, or because the
\* process ended between clear_deleted_data and the deletion of the vectors.
THEOREM OrphansCorrect == Spec => []NoOrphans
<1>1. VectorInv => NoOrphans
  BY Parts DEF VectorTypes, Accounted, NoOrphans, Gone, Searchable
<1> QED BY <1>1, VectorsCorrect, PTL

\* A store that deletes any ids never raises in save; what the eviction index
\* does not track between saves, a put that raised has leaked.
THEOREM LeaksCorrect == Spec => []RaisingLeaks
<1>1. VectorInv => RaisingLeaks
  BY Parts DEF VectorTypes, Accounted, RaisingLeaks, Live
<1> QED BY <1>1, VectorsCorrect, PTL

\* How many elements Hnswlib needs so that add_items refuses no save.
THEOREM RoomCorrect == Spec => []HnswRoom
<1>1. VectorInv => HnswRoom
  BY Parts
<1> QED BY <1>1, VectorsCorrect, PTL
===============================================================================
