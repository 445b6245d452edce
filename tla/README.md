# GPTCache with cost-aware eviction: a TLA+ model

The repository is a fork of GPTCache, a semantic cache for the answers of
language models, with a new eviction policy (GDSF: greedy dual size frequency)
for answers that differ in what they cost to generate. This directory models
it from the request to the stores: the adapters of the client libraries, the
pre-processors and similarity evaluations, the way of a request through a chain
of caches, the two data managers, the scalar and vector stores, the eviction
index, and the harness that compares eviction policies. `PROJECT.json` lists the
components, the runs, the correspondence between definitions and source lines,
the hazards, the disagreements between code and documentation, and the
theorems. Source paths are relative to
`src/gptcache/` unless they begin with `src/`.

## 1. The system

| Part | State | Operations | What makes it correct |
|---|---|---|---|
| GDSF policy, `manager/eviction/gdsf.py` | values, frequencies, priorities, lazy heap, tie-break counter, inflation L | `__setitem__`, `__getitem__`, `__delitem__`, `popitem`, `_push` | the victim is an entry of least priority; stale heap entries never decide; L never falls; old entries age out |
| Eviction index, `manager/eviction/memory_cache.py`, `eviction/manager.py` | one cachetools cache of any policy; a `popitem` replaced by a batch of `clean_size` | `put`, `get` | capacity; every evicted id reaches `on_evict`; `put` ends |
| Data manager, `manager/data_manager.py` (`SSDataManager`), `manager/eviction_manager.py` | a question table, a vector index and its file, the eviction index, marked rows, `delete_count` | `save`, `import_data`, `_clear`, `check_evict`, `delete`, `rebuild`, `search`, `get_scalar_data`, `flush`, restart | table and vectors agree; every live row can be found and evicted; no other question's answer; the marks stay bounded |
| Request flow, `adapter/adapter.py`, `adapter/api.py`, `core.py`, `config.py` | a chain of caches, the save count of each, what is not flushed | `adapt`, `aadapt`, `put`, `get`, `flush`, `import_data` | a hit reaches the caller; an answer is stored on the way back; it stays close to the question; saving never fails a request; flushing is regular |
| Sessions, `session.py`, `processor/check_hit.py`, session table | sessions of a row | join by save or hit, check, `drop` | a session is not given a row twice |
| `MapDataManager`, `manager/data_manager.py` | an LRU map, sessions in the values, a pickle file | as `SSDataManager`; `add_session`, `delete_session` | as above, with exact keys; a dropped session is forgotten |
| Scalar stores, `manager/scalar_data/` (SQL, MongoDB, Redis, DynamoDB) | rows with a deletion mark, answers, sessions, ids | insert, get, mark, clear, sessions | own row and answers; unmarked rows stay; clearing leaves nothing behind |
| Vector stores, `manager/vector_data/` | vectors by id, an index file or a server | `mul_add`, `search`, `delete`, `rebuild`, `flush`, `get_embeddings`, `update_embeddings` | live rows can be found; vectors go with their rows; no save is refused |
| LLM adapters, `adapter/openai.py` and others | open streams, the arguments of a LangChain batch | create, generate, call; streams, batches, retry | only whole answers are cached; the end of a stream means it was saved |
| Pre-processors and contexts, `processor/` | a context object that requests share | `pre_process` and functions of the request | the text keeps what tells requests apart, and is of one request |
| Similarity evaluations, post-processors | the neighbours of a row | `evaluation`, `range`; choice of an answer | a repeated question is served; answers are fresh |
| Server, `src/gptcache_server/server.py` | - | `chat` with its skip marker | the marker is not part of a question |
| Benchmark harness, `src/benchmarks/` | its own set of cached ids, counters | `run_one`, experiments, ablated policies | its counts agree with the index; the ablation isolates what it says |
| Embeddings, object stores, factory, client, reports | none, or files | model calls, construction | - |

How they interact: an LLM adapter calls `adapt` with its handler and two
callbacks. `adapt` embeds the question, calls `search` and `get_scalar_data` of
the cache's data manager, ranks what it got, and on a hit calls
`hit_cache_callback` (the `get` of the eviction index) and `add_session`. On a
miss it calls itself on the next cache or, behind the last one, the model; on
the way back every cache saves the answer. `save` inserts in the table, then in
the vector index, then puts the id in the eviction index, which may call back
`_clear` with the ids it evicts: they are marked, and when enough are marked
they are deleted from table and vectors.

What is hard in it:

* **No locks.** None of these classes has one, and the repository's own server
  uses them from several threads: `src/gptcache_server/server.py:131` hands a
  plain generator to `StreamingResponse`, which iterates it in a thread pool,
  beside the event loop.
* **Two stores, no transaction.** A row, its vector and its place in the
  eviction index are three writes; the vector index is in memory until `flush`.
* **Lazy structures**: stale heap entries, soft-deleted rows, vectors that
  outlive their rows, ids that SQLite gives out again.
* **Swallowed exceptions**: `adapt` catches everything `save` raises,
  `popitem_wrapper` catches `KeyError` in the middle of a batch.
* **Recursion through the chain**, with arguments popped at one level and not
  handed to the next.
* **Answers that arrive later**: a stream is saved by the generator the client
  reads, long after `adapt` has returned and lost the chance to catch anything.
* **Several nodes**: `src/docs/horizontal-scaling-usage.md` runs several servers
  over one store, whose methods send several commands without a transaction.
* **Weaker stores than they look**: an index file that is overwritten in place,
  reads that may be old, writes that are not awaited, times without a zone.

The list of hazards in `PROJECT.json` names forty places with the properties that watch
them, or the reason why none does; section 5 has what else was met. The types are the
first conjunct of the inductive invariant of every module, and proved with it.

## 2. Modules

| Module | Models | Composes |
|---|---|---|
| `GDSFCache` | the eviction index with the GDSF policy, per thread | instantiates `PriorityCache` |
| `PriorityCache` | abstract: the policy as its class comment describes it | - |
| `GDSFCacheProofs` | theorems about `GDSFCache` | extends it |
| `Benchmarks` | the harness, the policies of the experiments, the ablated ones | takes the index at what `PriorityCache` says |
| `BenchmarksProofs` | theorems about `Benchmarks` | extends it |
| `SSDataManager` | data manager, eviction manager, SQLite table, Faiss index | takes the index at what `GDSFCache` establishes |
| `SSDataManagerProofs` | theorems about `SSDataManager` | extends it |
| `VectorStores` | ten vector stores under the eviction manager, `cache_health_check` | takes the table as it is in `SSDataManager` |
| `VectorStoresProofs` | theorems about `VectorStores` | extends it |
| `ScalarStores` | four scalar stores, several nodes, command by command | - |
| `ScalarStoresProofs` | theorems about `ScalarStores` | extends it |
| `Adapter` | requests through a chain of caches, sessions, `put`/`get`, flushing | takes a data manager as its rows |
| `AdapterProofs` | theorems about `Adapter` | extends it |
| `MapDataManager` | the default data manager: map, sessions, file | - |
| `LLMAdapters` | fourteen adapters over the default cache, restarts | extends `MapDataManager` |
| `LLMAdaptersProofs` | theorems about `LLMAdapters` and `MapDataManager` | extends it |
| `Pipeline` | pre-processors, contexts, evaluations, post-processors, chat handler | - |
| `PipelineProofs` | theorems about `Pipeline` | extends it |
| `MC*` | constants for TLC | extend the module they are named for |

Definitions whose comment begins with *Mutant* are wrong variants of the
definition that follows; no specification uses them. `PROJECT.json` pairs each
with the property that fails when it takes the place of the right one.

### GDSFCache

`data`, `freq`, `prio`, `heap`, `counter`, `inflation` are the fields of
`GDSFCache`; `currsize` is that of `cachetools.Cache`, which is external and
modelled by its `__setitem__`: refuse a value larger than the cache, make room
for a new or growing key, store, adjust the size. `put` walks through that
method step by step (`Enter`, `Loop`, `PopItem`, `PopEmpty`, `OnEvict`,
`OnEvictRaises`, `Store`), so that other threads can come in between; one method
body of `GDSFCache` is one step. Priorities are rationals in the code; `Unit` is
a common multiple of the sizes, so that they are whole numbers in the model, and
`UnitAssumption` says so. The auxiliary variable `owed` holds the keys that were
evicted and not reported yet. `popitem_wrapper` pops the keys of a batch one by one,
so that two batches can interleave, and a `KeyError` loses what was popped before
it; `BatchesFit` says when none can come.

### SSDataManager

Every call of a store is a step, in the order of `import_data`, `_clear`,
`check_evict`, `delete` and `rebuild`. Several statements in one SQL transaction
(`batch_insert`, `clear_deleted_data`) are one step: SQLite commits them
together. Ids are what SQLite without `AUTOINCREMENT` gives out, so the largest
id can be used again after its row was deleted; lists of ids are ascending, as a scan
by rowid gives them. The eviction index is a set; a `put` tests for room
(`PutTest`), pops a victim per step (`PopItem`), any of its ids, and stores
(`PutInsert`). This covers every policy of `MemoryCacheEviction` and is justified
by the theorems on `GDSFCache`. In the middle of a batch the index may turn out
empty (`PopError`): what was popped before is forgotten, with its rows live
(`leaked`). Distances are abstracted: a search may return any vector. A flush is
two steps, as `write_index` empties the file before it fills it (`FlushBegin`,
`FlushEnd`). `Crash` loses the memory of the process and starts `__init__` again,
which fails on half a file: from `CrashTorn` on (`torn`), no start succeeds.
`Raise` is a store call that raises. Calls of two threads on the one Faiss index
are taken one at a time, two flushes that overlap included.

### Adapter

A request is a stack of `adapt` calls, one per cache; `level` is the call that
runs. Going down, a step is the search, the fetch and ranking of what it found,
and the choice of the post-processor (`Search`, `Evaluate`, `Hit`, `Reject`);
going up, `data` is `llm_data` and the steps are the save, its count, and the
test for `auto_flush` (`Save`, `CountSave`, `CheckFlush`). Questions are points
on a line and an answer is the question it was generated for, so that how far an
answer is from the question asked can be said; the rank and its threshold are
those of `SearchDistanceEvaluation` and `adapt`, in fixed point. The data manager
of a level is its rows: any row may be evicted at any time, and ids are not
reused (`SSDataManager` is about that). The loop over the search results is one
step; what another thread does between two fetches has, for the properties here,
the same effect as before or after them. Where several of the rows that were
accepted have the answer that is given, the last of them joins the session, as
`answers_dict` keeps it; `repeated` has the rows a session was given again,
`passed` those for which another joined. `aadapt` is a copy of `adapt` that was
not kept up. Modelled are its `NameError` at a next cache (`AsyncDescend`) and
that it does not honour `search_only`. It also lacks `data_check` (which is in
`VectorStores`), `hit_callback` and `disable_report`, and hands other arguments to
the post-processor, all of which the model leaves out of `adapt` too; and the early
returns on an empty `llm_data`, which only the handlers of the API functions give.

### Benchmarks

One step per branch of `run_one`, per `popitem`, and for `on_evict`. All entries
have size 1, as in the harness. `Experiments` is the set of configurations of
`run_experiments.py`; `MayRequest` is what a workload's generator allows next
(Zipf's law allows any order, with or without drift). The index is the set of its
entries, which is what the theorem `RefinesPriorityCache` justifies. Of entries of
one priority the one with the oldest tuple *of that priority* goes (`counter`): an
entry that is pushed again with the priority it had keeps its place, since its old
tuple counts as current (`gdsf.py:75`). The ablated policies depend on it.

### VectorStores

A store is a record of traits, which its class decides: what it keeps when the process
ends, what `delete` does, whether `cache_health_check` can use it, and whether an upsert
waits. Qdrant's does not: its vectors are `pending` until the server applies them
(`Applied`); assumed of the server is that it applies updates in order, so that a
deletion, which waits, comes after them. An exception in the `put` of `__init__` leaves
no data manager (`process`) until another start. A crash in the middle of a flush is
left to `SSDataManager`. Several stores agree in all of these and differ in what is left
out (schemas, distances, connections). One thread saves and evicts, as in
`SSDataManager`, with the same thresholds; other threads search, fetch and check. `todo`
has the ids of the call that saves, `ids` those of the deletion. Here the table never
gives an id out twice, so that what `dm_threads_answer` shows does not hide what the
stores do.

### ScalarStores

A step is one command that a node sends, or one transaction; nodes interleave between
them. A row's content is the number of the insert that made it, so that "its own answer"
can be said. A read of DynamoDB may return any version of the item (`versions`), as its
`get_item` does not ask for a consistent one. The stores differ in traits again (answers
in the row or apart, rows without a mark, expiry, what clearing does to sessions) and in
the order of their commands, which are actions of their own.

### MapDataManager and LLMAdapters

`MapDataManager` gives its operations as actions on the map and the file;
`LLMAdapters` extends it and runs clients over it. An answer is the number of the
model call that gave it; `calls` records how many of its chunks were put together
and how often it was saved. A streamed answer is read chunk by chunk (`Read`), and
the client may stop (`Abandon`), the model may raise between two chunks
(`ModelRaises`), the generator may reach its end (`Exhaust`). Each adapter is a
record of what it does around `adapt`. `flush` is two steps, since it truncates
the file first.

### Pipeline

Text is a sequence of tokens, and a pattern of prompts takes tokens out of it
(`Without`). A pre-processor is an operator on the request; a
context processor is two steps over the object that all threads share, and
`SummarizationContextProcess` reads it twice, before and after the summarizer
(`Process`, `Serialize`). A chat's body may set `cache_skip` itself (`Given`), and
then the marker stays. Rows are stamped as their store does it (`Stamps`): in local
time, in UTC read as local time, or with the time at which the model class was
built. Scores are
in hundredths and the threshold is made from `range()` as in `adapt`. A model of a
pair of texts is some function that gives identical texts the best score. `Dist`
is capped above the largest distance that an evaluation tells from a larger one.

## 3. Runs

Violations are expected where a line of the repository says something that the
code does not do; `findings` in `PROJECT.json` quotes the line.

| Run | Instance | Shows |
|---|---|---|
| `gdsf_core` | 1 thread, 3 keys, sizes 0, 1, 2 and one too large, `maxsize` 3, batches of 2 | a cached key always has a current heap entry, also when it is evicted while it is overwritten; L below all priorities and never falling; refinement of `PriorityCache` |
| `gdsf_threads` | 2 threads, `maxsize` 4, batches of 2, imports of 4 objects and puts of one | overshoot of at most one entry; every evicted key is reported, though the batches of both threads take all there is; `put` ends |
| `dm_single` | 1 thread, imports of up to 2 questions, 6 saves, 2 crashes (within a flush, too), 1 raising call | until something fails, the marks are within limits; over crashes and raising calls, no wrong answer; what was flushed stays findable, unless a flush was cut off; calls end |
| `dm_threads` | 2 threads, batches of 2 = `maxsize`, 4 saves, 1 crash, 1 raising call | index and live rows agree, so that no live row is out of reach of eviction but for what an exception left out, a `KeyError` in a batch that did not fit included; the row being put stays live, so `check_evict` never divides by zero |
| `dm_threads_answer` | 2 threads | **violation**: an id is reused while its old vector is still searchable |
| `adapter_single` | 1 cache, 1 caller, 2 similar questions, 1 session, all entry points, 1 raising call | a session gets a row again only if another row of the same answer joined for it; auto flush; saving never fails a request; every request ends |
| `adapter_chain` | 2 caches, 2 callers, 3 questions, neighbours similar | bounded drift; what the first cache lacked it has after the request; hits reach the caller |
| `llm_adapters` | 2 clients, 2 questions, 2 sessions, streams of 2 chunks, 3 model calls, 2 faults (raising calls, restarts, drops) | only whole answers are cached; the end of a stream means it was saved; a session gets no cached answer twice; a moderation result per input; dropped sessions are forgotten |
| `scalar_stores` | 2 nodes over each of five stores, 2 inserts, 5 other calls, command by command | a get returns its own row with its own answers; a row is served until it is marked (from DynamoDB, perhaps not yet), and, but for Redis and DynamoDB, then no more; clearing leaves nothing behind (Redis: one inserting node) |
| `vector_stores` | 7 kinds of store, `maxsize` 2, 8 saves, 2 restarts, 1 lookup with `data_check` | live rows can be found, vectors go with their rows, except as the properties say; how much room Hnswlib needs; what a call that raised leaves untracked |
| `benchmarks` | 4 prompts for 2 or 3 places, 2 costs, every experiment, 8 requests | the harness counts right; no eviction before it is needed; aging; the ablated policies are frequency, and recency as fine as the inflation |
| `pipeline` | every pre-processor, evaluation and post-processor, 2 threads, 3 requests of up to 4 words | no mixed texts (but two halves, with a shared `SummarizationContextProcess`); no answer to another question under exact matching; a repeated question is served; freshness, as far as the stamps go; the marker |

**Bounds.** `MaxPushes`, `MaxSaves`, `MaxRows`, `MaxCrashes` and `MaxFailures` limit the
length of a run, in the guards of the actions that start a call, never in the middle of
one. They are large enough for each interesting case to happen: in `gdsf_core` six
pushes fill the index, make heap entries stale, evict a batch and store a key again; in
`gdsf_threads` four of the seven fill the index, then both threads find it full and
empty it together; in the runs on `SSDataManager` four to six saves mark rows, exceed
either limit of `check_evict`, delete twice and rebuild (the thresholds are scaled down
with the index); in `adapter_chain` four rows let an answer pass from the second cache
to the first and be hit there by a third question, which is the full drift of two radii.
Three questions are needed for that and no fourth adds anything. In `llm_adapters`
(`MaxCalls`, `MaxFaults`) two streams of one question can be open at once while a third
client call hits or is flushed into a crash. In `scalar_stores` (`MaxInserts`, `MaxOps`)
two rows and five calls allow get, mark, clear and a session on one row to overlap. In
`vector_stores` (`MaxSaves`, `MaxRestarts`, `MaxLookups`) eight saves fill `maxsize`,
delete at least four times and rebuild twice, once after a restart; `MaxElements` is
what `RoomNeeded` says without a restart, so that a single vector more would be refused
(the mutant, which rebuilds one deletion late, is); after a restart Hnswlib does refuse,
as `HnswRoom` allows, and what it needs then is the theorem's. In `benchmarks`
(`MaxRequests`) eight requests evict several batches and let an entry go stale; in
`pipeline` (`MaxRequests`, `MaxClock`) three requests are a save, one that overlaps with
it, and one that should be answered from it. Keys are interchangeable in `GDSFCache`,
and threads in `LLMAdapters` and `Pipeline`, so their safety runs use symmetry; the runs
with liveness do not. That the mutants all fail shows that the bounds are not too small
for the properties.

**Deadlock** is checked everywhere: `AtRest` (`Done`, where a run of the harness
or of the requests is over) is the program with no call running, and a call that
could not go on would be reported. Two states in which the program is really
stuck are steps that change nothing: `CannotStart`, over a truncated file, and
`Summarizing`, the loop that never ends.

**Fairness.** Each `FairSpec` is weak fairness of the steps of a call in
progress, thread by thread: the code between two steps does not block, and the
scheduler of the operating system runs every thread. Nothing is assumed about
calls being made, and nothing about crashes or exceptions. A model that never
answers would block a request; `RequestsEnd` assumes that the client library
times out or raises, as those of the adapters do. The other modules state no fairness:
whether a client reads its stream to the end, whether a node goes on, is not the
code's to promise.

## 4. Theorems

All are proved with TLAPS for every value of the constants that satisfies the named
assumptions, which TLC evaluates in every run: any number of threads, nodes, ids and
requests, any sizes, any length of a run. Where a theorem has a hypothesis of its own,
or the property has an exception, it is named here with the reason: but for
`NoSequenceMatch`, the code does otherwise without it, and section 5 says what. Before
an inductive invariant was proved, TLC checked it on the instance of the run.

`GDSFCacheProofs`, from `HeapInv` = types, `HeapCoversCache` and
`PrioritiesAboveInflation`, which are inductive only together: that `popitem`
finds a current entry for each cached key needs the lower bound L, and L stays a
lower bound because the victim is the least current entry of a heap that covers
the cache.

* `TypeCorrect`, `CoverageCorrect`, `InflationBelowPriorities`: the three parts.
* `InflationCorrect`: L never falls.
* `RefinesPriorityCache`: every step of the index is a step of the abstract
  policy or leaves it alone. The heart is that the least *current* heap entry has
  the least priority of all *entries*, by coverage.
* `CapacityCorrect`: n threads exceed `maxsize` by at most n - 1 entries, when
  entries have size 1, as the data manager makes them. `CapacityInv` adds to the
  entries the threads that have passed the test for room and have not stored.
* `ReportingCorrect`: every evicted key reaches `on_evict`, if the batches of all
  threads together fit a full index (`BatchesFit`, in the property), or are of one
  key. `ReportInv` keeps the cached and the popped keys together at `maxsize`, so that
  `popitem` never finds the cache empty.

`BenchmarksProofs`:

* `HarnessCounts`: from `BInv`: the harness's set is the entries and what is
  popped and not handed over yet, and misses less entries are evictions.
* `EveryPromptFits`: from `Early`, which says of the first eviction that more
  prompts were seen than there are places.
* `AblationCompares`: from `Recency` (a later push has no lower priority, when
  costs are equal) and `Frequency` (without aging the priority is uses times cost).
  The cost-only policy is LRU only as fine as the inflation: among entries of one
  priority the first tuple decides, and a hit that finds L where it was adds nothing.
* `StaleEntriesLeave`: from `Aging`: since an entry was pushed, L grew by k times
  the least cost, with at most `maxsize - 1` evictions each time. What is below the
  next step goes first, and no push adds to it.

`SSDataManagerProofs`, for any number of threads, saves, crashes and store calls
that raise, and any `clean_size`:

* `IndexCorrect`: the eviction index holds live rows only, and every live row is in
  it, on its way through a running call, or left out by a call that raised, by half an
  index file, or by a `KeyError` in a batch, when the batches do not fit.
* `RowBeingPutCorrect`: a row stays live while room is made for its id.
* `MarksCorrect`: the marked rows are within both limits of `check_evict` between
  two calls, until something fails. `LimitsWatched` says that as long as they are
  not, some thread is between its mark and its count: the last thread to mark counts
  afterwards, and a count that others made stale is too high, never too low.

The first two are not inductive: that the index holds no marked row needs that the
call which marks it was the only one to have it. `DMInv` therefore says (`RowsOwned`)
that the index and the running calls have each live row at most once; that a call
lists no id twice, and none that it also marks; and (`IdsBounded`) that ids stay below
the number of saves, so that the table is finite, has a largest id, and the next id is
new.

With one thread at a time (`Threads = {BootThread}`):

* `AnswerCorrect`: a vector never leads to the live row of another question.
* `FlushedCorrect`: what a search could find when `flush` wrote the index can be found
  as long as its row is live, over evictions, deletes, crashes and restarts, unless
  the process ended inside of a later flush.

Both are from `SoloInv`: the largest id of the table is that of a live row, since the
newest id is put last (`NewestLive`), so an id that SQLite gives out was
never given out before; the vectors in memory and on disk are then those of the rows
that have their ids (`VectorsKnown`), and none of the flushed ones is deleted while
its row is live (`FlushedKept`). With two threads the run `dm_threads_answer` refutes it.

`VectorStoresProofs`, over any of the stores, for any number of saves, readers and
restarts, from `VectorInv`:

* `LiveRowsFound`, `OrphansCorrect`, `LeaksCorrect`: vectors, those that Qdrant has
  yet to apply included (`Searchable`), and live rows agree but for `lost`, `stray`
  and `leaked` (`Accounted`). `lost` has what a restart or a refusal lost. `stray` has
  the vectors that outlive their rows: a deletion raised, `cache_health_check` put one
  back, or a restart found one without its row, in an older file or in a store that
  keeps its vectors, when the process ended between the two halves of a deletion.
* `RoomCorrect`: with `RoomNeeded` elements Hnswlib refuses no save. `RoomFor` counts
  the vectors in two parts, those of the file that was loaded (as many as there could
  be before, for each restart) and the others (`delete_count` times what one deletion
  leaves, below `rebuild_condition`). TLC refuted an earlier formula that counted the
  restarts' deletions only.

`ScalarStoresProofs`, for any number of nodes over any of the stores, from `StoreInv`:

* `OwnRowCorrect`, `ServedCorrect`, `ClearCorrect`: a get returns its own row with its
  own answers; a row is served until it is marked, except that DynamoDB, whose reads may
  be old, may say none before and the row after; clearing leaves nothing behind.
  `StoreInv` says that an id is one content's from the moment the store gives it out
  (`OneEach`, `InsertOwn`), that a mark is one that `mark_deleted` set (`RowsAgree`),
  and what each node knows between two commands. What any step of a node can do to the
  others is summed up in `Rely`, so that each command is looked at once for its own node
  and once for all others. Hypothesis `SingleRedisInserter`: Redis increments and reads
  its counter in two commands, and two inserting nodes may get one id.

`AdapterProofs`, for chains of any depth:

* `TypeCorrect`.
* `DriftCorrect`: an answer from level l is at most
  `Depth + 1 - l` similarity radii from the question asked. `DriftInv` says the
  same, one level less, of every row of a level, of the rows in `cache_answers`,
  and of the answer on its way back; a hit adds one radius by the triangle
  inequality. `RadiusAssumption` is what "similar" means: no request accepts a row
  farther away than `Radius`.
* `FlushCorrect`: with one caller (`SingleCaller`) and no raising call, fewer
  than `auto_flush` answers of a level wait to be flushed between requests.
  `FlushInv` relates what waits to the remainder of the count at each point of
  the save. With two callers it fails: both can
  count before either tests for the multiple.
* `ErrorsCorrect`: a caller sees an exception only when the model or a lookup raised
  one. Hypothesis `NoAsyncChain`: `aadapt` raises `NameError` at a next cache.
* `HitsReturned`: what some cache answers reaches the caller. Hypothesis
  `AnswersPass`: on a chain there is no `put` and no `get`, whose callbacks
  return None to the cache before.
* `FirstCacheKeeps`: a question that went past the first cache without trouble is
  stored there until it is evicted (`SavedHere`, until the save is counted).
  Hypothesis `PutAtOneLevel`: `put` into a chain stores in the last cache only.
* `SessionCorrect`: a session is given no row twice, unless another row with the same
  answer joined in its place. `OnceInv`: the rows that joined name the session, and
  what is about to be chosen from does not. Hypotheses
  `SingleCaller` and one cache: two overlapping requests of a session, and the
  second cache of a chain, which the session does not reach, give a row again.

`LLMAdaptersProofs`, for any threads, requests, keys and restarts:

* `AnswersWhole`, `StreamsSaved`: from `CallInv`: a call of the model belongs to one
  thread until it is saved, in full and once, and only then may the map, the file and
  other threads hold it (`CallOf`, `Owned`).
* `DropCorrect`: from `SessInv`: a session belongs to one request or to one drop at a
  time, and the entries that name one that is being dropped are in the list.
* `SessionsServedOnce`: from `OnceInv`. Hypothesis `BatchesWithoutSession`: the second
  prompt of a LangChain batch does not have the session.

`PipelineProofs`, for any chats, configurations and threads, from `PipeInv`, which
follows the text of a request from step to step:

* `TextCorrect`: what is saved and what is searched for are made from the thread's own
  request; with a `SummarizationContextProcess` that threads share, each from some
  request, perhaps from two different ones.
* `MarkerCorrect`: the server's marker is not saved, unless it was in the last message
  beside the first, or the body gave `cache_skip`.
* `FreshCorrect`: no answer of `TimeEvaluation` is older than `time_range`, and what
  UTC is ahead (`Ahead`) where a store writes UTC: such a row scores below every
  positive threshold.
* `RepeatCorrect`: a text that was saved before is answered from the cache, unless its
  stamp makes it too old (`TakenForOld`). One of the
  nearest rows has the text (`Least`), and no threshold is above the score of an equal
  text. Hypothesis `NoSequenceMatch`: the score of that evaluation is a fold over the
  questions of a chat, and what a fold computes for every input is an induction over
  data.
* `SameViewCorrect`: `AnswerForSameView` for every pre-processor but
  `last_content_without_template`. `Flattened` gives `FlattenSeq` as a function of the
  prefixes, `Decoded` takes a text apart (the first part at which two lists of parts
  differ would have its line break elsewhere), and `Skipped` and `Subsequences` are
  about the messages that `concat_all_queries` leaves out. Every message must be
  `Unbroken`, without a line break, or the property is false (section 5). The prover
  does not know that a literal is a string, hence `Tokens`.

**Only model-checked**: `PutTerminates`, `CallsEnd` and `RequestsEnd`, which are
liveness under fairness; `RepeatServed` for `SequenceMatchEvaluation`, and
`AnswerForSameView` for `last_content_without_template`, where the key is what
`FoldLeft` computes over a template.

## 5. What the models show about the code

One disagreement has a run, `dm_threads_answer`. The others were met while
modelling, and the properties of the runs are stated so that they hold beside them.
Where the repository promises more, TLC refutes the promise within seconds on an
instance of section 3, changed as said here:

| Promise | Instance | Refuted by |
|---|---|---|
| `NothingUnreported` | `GDSFThreads.cfg`, `MaxSize` 3 | two batches of 2 meet in an index of 3: `memory_cache.py:13` |
| `EveryFlushKept` | `DMSingle.cfg` | a crash inside of `write_index`: `vector_data/faiss.py:57` |
| `RowNeverAgain` | `AdapterSingle.cfg` | two rows of one answer: `adapter.py:179` |
| `UnflushedBounded` | `AdapterSingle.cfg`, two threads, no failures | both count before either tests: `adapter.py:276` |
| `ErrorsExplained` | `AdapterChain.cfg` | `aadapt` at a next cache: `adapter.py:503` |
| `HitReachesCaller` | `AdapterChain.cfg`, `SingleRequests` | `get` on a chain: `api.py:52-55` |
| `DropGoesThrough` | `LLMAdapters.cfg` | a session name looked up as a key: `data_manager.py:209` |
| `OwnRowAndAnswers` | `ScalarStores.cfg`, two nodes inserting in Redis | one id twice: `redis_storage.py:239` |
| `MarkedNotServed` | `ScalarStores.cfg`, DynamoDB only | an old read: `dynamo_storage.py:163` |
| `ContextIsOfRequest` | `Pipeline.cfg` | a shared context: `summarization_context.py:95-109` |
| `AcceptedWithinRange` | `Pipeline.cfg` | UTC read as local time: `time.py:48` |

In detail:

* `eviction/manager.py:28`: the default batch is `int(maxsize * 0.2)`, 0 for
  `maxsize` below 5, and `put` into a full index loops for ever.
* `eviction/memory_cache.py:11-15`: the keys popped before a `KeyError` are not
  reported, and their rows stay for good. With one thread that takes a `clean_size`
  above `maxsize`, with n threads one above `maxsize / n`.
* `vector_data/faiss.py:57`: `write_index` overwrites the only file. A process that
  dies meanwhile leaves half a file, on which `read_index` (line 31) raises at every
  later start.
* `data_manager.py:264-266`: `__init__` puts the live rows in the eviction index, and
  may evict; a store that raises then leaves no data manager.
* `adapter.py:179`: of several rows with the answer that is given the last one joins
  the session, so that the one that was chosen is given again.
* `eviction/gdsf.py:75`, `src/benchmarks/ablation.py:28-32`: with the cost only, a hit
  before the next eviction changes nothing: put A, put B, hit A evicts A.
* `adapter.py:28, 236-240`: the session is popped and not handed to the next cache
  of a chain, which may give its row to a session again and again.
* `adapter/api.py:56`: the callback of `get` returns None, which replaces what a
  later cache of the chain found; for the same reason `put` into a chain stores in
  the last cache only.
* `adapter.py:276`: two threads can both count a save before either tests for the
  multiple of `auto_flush`, which is then stepped over.
* `adapter.py:503`: `aadapt` raises `NameError` when it comes to a next cache.
* `scalar_data/redis_storage.py:239-240`: the counter is incremented and read in
  two commands. With two inserting nodes, which
  `src/docs/horizontal-scaling-usage.md` describes, two rows get one id. The
  `allkeys-lru` policy of that page may also evict the counter itself.
* `scalar_data/redis_storage.py:308`: a get rewrites the document it read, so a
  row that was marked or cleared meanwhile is live again.
* `scalar_data/dynamo_storage.py:163-165`: `get_item` without `ConsistentRead` may
  return a row that was marked, or none for one that was inserted.
* `vector_data/qdrant.py:113-115`: `upsert` with `wait=False` returns before a search
  can find the vector.
* `scalar_data/redis_storage.py:270`, `dynamo_storage.py:124`: rows are stamped with
  `utcnow()`, which `similarity_evaluation/time.py:48` takes for local time: behind
  UTC a row counts as newer than it is, ahead of UTC as older. `mongo.py:31`: the
  default is evaluated once, so that every row is as old as the process.
* `src/gptcache_server/server.py:104-105`: with a `cache_skip` in the body that is
  true or null, the marker stays in the text, and is saved with it.
* `scalar_data/mongo.py:240`: a get of a marked row raises `DoesNotExist`.
* `data_manager.py:402-416`: `delete_session` uses the `id` of what
  `list_sessions` returns, which only the rows of SQL have as meant.
* `data_manager.py:203-217`: the list of `MapDataManager` contains session names,
  which `delete_session` looks up as keys; `drop` then raises half-way, and entries
  further on keep the session.
* `data_manager.py:193`: a crash between truncating and dumping leaves a file with
  which the cache cannot start.
* `adapter/openai.py:215`: `Completion` with `stream=True` is never cached.
  `adapter/openai.py:531`: two cached images within a second share a file.
  `adapter/minigpt4.py:63, 74`: `a if c else b, False` is always a pair.
* `adapter/langchain_models.py:163`: only the first prompt of a batch has the
  session.
* `processor/context/concat_context.py:39`, `selective_context.py:53`: the content is
  never reset. `summarization_context.py:95`: two threads may be given each other's
  text, or (lines 107 and 109) one to embed and the other's to save; line 21: a message
  whose share is 0 is summarised for ever.
* `processor/pre.py:69-72`: a template that ends in a literal raises `IndexError`;
  all prompts that do not match the template have one key.
* `processor/pre.py:157-160, 378-384`, `concat_context.py:39`: messages are joined by
  line breaks, and a line break inside of a message is not escaped: for `all_content`
  the messages `"a"`, `"b"` and the one message `"a\nb"` are one key.
  `AnswerForSameView` therefore asks for messages that are `Unbroken`. (In the model
  a line break also stands for the `[#CE]` of `SummarizationContextProcess`.)
* `similarity_evaluation/kreciprocal.py:91`: an identical question scores 1 of 4.
* `adapter.py:192` compares the post-processor with the class `LlmVerifier`, while
  an instance is configured, which is then called without the question and
  refuses every answer.
* `vector_data/usearch.py:78`, `weaviate.py:135`: deletions that raise leave the
  vectors of rows that are gone. `hnswlib_store.py:36`: `max_elements` has to be
  `RoomNeeded`, well above `max_size`, and as much again for every restart: a restart
  forgets `delete_count`, and may load a file whose vectors have lost their rows.
* Two overlapping requests of one session can both be given a row; the comment on
  `similarity_threshold` in `config.py:11-12` has 0 and 1 the wrong way round.

## 6. Plan

Done: all modules of section 2, each with its proofs. Next:

1. `PipelineProofs`: the two that are left, `RepeatServed` for
   `SequenceMatchEvaluation` and `AnswerForSameView` for templates. Both are folds,
   which would have to become functions of the prefixes, as `Flattened` makes of
   `FlattenSeq`.
2. An abstract cache (a partial map from questions to answers that may forget)
   that `SSDataManager` with one thread implements, and that `Adapter` may take for
   its rows.
3. `SSDataManager` with several threads and a table that gives out no id twice, for
   which `NoWrongAnswer` would need no `Threads = {BootThread}`.

## 7. Not modelled

* Embeddings: calls of models. The object store: nothing in the data manager
  deletes an object, and `put` of one has no effect on the rest.
* Factory, client, command line, the server's file routes: construction and
  transport. Conversions of messages, images and token counts in the adapters.
* `report_cache` and the report tables; `hit_callback`, question dependencies and
  `input_summary_len` in `adapt`.
* `RedisCacheEviction`'s marker keys, and the loss of Redis' own counter.
* `CohereRerankEvaluation`; the prompt and the verdict of `LlmVerifier`.
* Reports, plots and the statistics over benchmark runs; notebooks and examples.
* Floating point: priorities, scores and thresholds are exact in the models.
