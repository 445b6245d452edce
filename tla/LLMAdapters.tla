----------------------------- MODULE LLMAdapters -----------------------------
(***************************************************************************)
(* The adapters of the client libraries over the default cache: what       *)
(* happens around adapt when an answer is a stream, a list of moderation   *)
(* results, or a batch of prompts (gptcache/adapter/openai.py,             *)
(* llama_cpp.py, stability_sdk.py, langchain_models.py and the ones that   *)
(* only convert: replicate, diffusers, dolly, minigpt4), with Session.drop *)
(* and restarts.                                                           *)
(*                                                                         *)
(* An answer is the number of the model call that gave it, and the number  *)
(* of its chunks that were put together.  adapt itself is in Adapter; here *)
(* it has one cache, an exact match, and no post-processing.  Threads      *)
(* share the cache; the requests of a session follow one another.          *)
(***************************************************************************)
EXTENDS MapDataManager, Sequences

CONSTANTS
    Threads,        \* clients
    Requests,       \* the requests they make
    Chunks,         \* chunks of a streamed answer
    Raised, None,   \* an exception instead of a result; no result
    AutoFlush,      \* config.auto_flush
    MaxCalls,       \* bound: calls of the model in a run
    MaxFaults       \* bound: raising calls, restarts and drops in a run

(* What the adapters do around adapt: what becomes of an iterator that the   *)
(* model returns ("none" for an API that has none), whether the results are *)
(* counted, whether images may be filtered, whether prompts come in batches. *)

\* A handler, a conversion, and a callback that saves the whole answer at once
Plain == [iterator |-> "none", counted |-> FALSE, filtered |-> FALSE, batch |-> FALSE]

\* An iterator is wrapped in a generator, which saves when it is at its end
ChatCompletion == [Plain EXCEPT !.iterator = "generator"]

\* The callback takes the text of an answer, which an iterator has not
Completion == [Plain EXCEPT !.iterator = "raises"]
Audio == Plain
Image == Plain
Moderation == [Plain EXCEPT !.counted = TRUE]
LangChainLLMs == [Plain EXCEPT !.batch = TRUE]
LangChainChat == [Plain EXCEPT !.batch = TRUE]
Llama == [Plain EXCEPT !.iterator = "generator"]
StabilityInference == [Plain EXCEPT !.iterator = "generator", !.filtered = TRUE]
Replicate == Plain
StableDiffusionPipeline == Plain
Dolly == Plain
MiniGPT4 == Plain

Apis == [ChatCompletion |-> ChatCompletion, Completion |-> Completion, Audio |-> Audio,
         Image |-> Image, Moderation |-> Moderation, LangChainLLMs |-> LangChainLLMs,
         LangChainChat |-> LangChainChat, Llama |-> Llama,
         StabilityInference |-> StabilityInference, Replicate |-> Replicate,
         StableDiffusionPipeline |-> StableDiffusionPipeline, Dolly |-> Dolly,
         MiniGPT4 |-> MiniGPT4]

Request == [api : DOMAIN Apis,
            ks : Seq(Keys) \ {<< >>},   \* one, or the prompts of a batch
            s : Sessions \cup {NoSession},
            stream : BOOLEAN,           \* the model answers with an iterator
            n : Nat]                    \* inputs of a moderation request

ASSUME RequestsAssumption ==
    /\ Requests \subseteq Request /\ Requests # {}
    /\ \A r \in Requests :
          /\ r.stream => Apis[r.api].iterator # "none"
          /\ Len(r.ks) > 1 => Apis[r.api].batch
ASSUME LimitsAssumption == {Chunks, AutoFlush} \subseteq Nat \ {0}

VARIABLES
    up,         \* the process runs
    pc,         \* thread -> where its request is
    req,        \* thread -> its request, with the prompts still to do
    tmp_args,   \* thread -> the session in tmp_args of its LangChain model
    frame,      \* thread -> its locals: the session adapt was called with, the
                \* model call whose answer it handles, the chunks of it read
    result,     \* thread -> what its last request returned
    todo,       \* thread -> the list that delete_session goes through
    calls,      \* the model calls so far: [k, n, parts, saves]
    count,      \* report.op_save.count
    faults,     \* raising calls, restarts and drops so far
    given,      \* auxiliary: <<session, call>>, the answers a session was given
    repeated,   \* auxiliary: the pairs given again
    dropped     \* auxiliary: sessions dropped that have not asked since

store == <<data, file>>
client == <<req, tmp_args, frame, result, todo>>
aux == <<given, repeated, dropped>>
vars == <<store, up, pc, client, calls, count, faults, aux>>

NoFrame == [session |-> NoSession, call |-> 0, read |-> 0]
Rest(value) == [t \in Threads |-> value]

Init ==
    /\ MapInit /\ up = TRUE /\ calls = << >> /\ count = 0
    /\ pc = Rest("idle") /\ req = Rest(CHOOSE r \in Requests : TRUE)
    /\ tmp_args = Rest(NoSession) /\ frame = Rest(NoFrame)
    /\ result = Rest(None) /\ todo = Rest({})
    /\ faults = 0
    /\ given = {} /\ repeated = {} /\ dropped = {}

Goto(t, label) == pc' = [pc EXCEPT ![t] = label]
Fault == faults < MaxFaults /\ faults' = faults + 1
Key(t) == Head(req[t].ks)
Call(t) == frame[t].call
Api(t) == Apis[req[t].api]
Streamed(t) == req[t].stream /\ Api(t).iterator = "generator"

\* Completion.create with stream = True
NotAnAnswer(t) == req[t].stream /\ Api(t).iterator = "raises"

\* A session's next request waits for the one before, open streams included
InUse(s) == s # NoSession /\ \E t \in Threads : pc[t] # "idle" /\ req[t].s = s

\* The adapter returns, or goes on to the next prompt of a batch
Return(t, res) ==
    /\ result' = [result EXCEPT ![t] = res]
    /\ frame' = [frame EXCEPT ![t] = NoFrame]
    /\ IF res # Raised /\ Len(req[t].ks) > 1
       THEN Goto(t, "prompt") /\ req' = [req EXCEPT ![t].ks = Tail(@)]
       ELSE Goto(t, "idle") /\ UNCHANGED req

-----------------------------------------------------------------------------
(* Asking.                                                                 *)

Room(n) ==
    Len(calls) + n + Cardinality({u \in Threads : pc[u] # "idle"}) <= MaxCalls

Arrive(t, r) ==
    /\ up /\ pc[t] = "idle" /\ ~InUse(r.s) /\ Room(Len(r.ks))
    /\ req' = [req EXCEPT ![t] = r]
    /\ dropped' = dropped \ {r.s}
    /\ result' = [result EXCEPT ![t] = None]
    /\ UNCHANGED <<store, up, todo, calls, count, faults, given, repeated>>

\* create, acreate, run, generate or __call__ of an adapter
Begin(t, r) ==
    /\ ~Apis[r.api].batch /\ Arrive(t, r)
    /\ frame' = [frame EXCEPT ![t].session = r.s]
    /\ Goto(t, "search")
    /\ UNCHANGED tmp_args

\* generate of LangChain's models leaves its arguments in tmp_args
BeginBatch(t, r) ==
    /\ Apis[r.api].batch /\ Arrive(t, r)
    /\ tmp_args' = [tmp_args EXCEPT ![t] = r.s]
    /\ Goto(t, "prompt")
    /\ UNCHANGED frame

\* _call and _generate of LangChain's models, for each prompt of a batch: the
\* session is popped from tmp_args, so only the first prompt has it
NextPrompt(t) ==
    /\ pc[t] = "prompt"
    /\ frame' = [frame EXCEPT ![t].session = tmp_args[t]]
    /\ tmp_args' = [tmp_args EXCEPT ![t] = NoSession]
    /\ Goto(t, "search")
    /\ UNCHANGED <<store, up, req, result, todo, calls, count, faults, aux>>

\* adapt searches; the match is exact
Search(t) ==
    /\ pc[t] = "search"
    /\ IF Hits(Key(t), frame[t].session)
       THEN frame' = [frame EXCEPT ![t].call = data[Key(t)].ans] /\ Goto(t, "hit")
       ELSE Goto(t, "miss") /\ UNCHANGED frame
    /\ UNCHANGED <<store, up, req, tmp_args, result, todo, calls, count, faults, aux>>

\* Moderation.create: as many results as there are inputs
RightLength(t) == Api(t).counted => calls[Call(t)].n = req[t].n

Given(t) == IF req[t].s = NoSession THEN {} ELSE {<<req[t].s, Call(t)>>}

\* adapt returns the cached answer: converted, for a stream as three chunks
\* that are read in one go.  Moderation.create calls adapt once more, with
\* cache_skip, when the length is wrong
Hit(t) ==
    /\ pc[t] = "hit"
    /\ AddSession(Key(t), Call(t), frame[t].session)
    /\ IF RightLength(t)
       THEN /\ Return(t, Call(t))
            /\ given' = given \cup Given(t)
            /\ repeated' = repeated \cup (given \cap Given(t))
       ELSE Goto(t, "miss") /\ UNCHANGED <<req, result, frame, given, repeated>>
    /\ UNCHANGED <<up, tmp_args, todo, calls, count, faults, dropped>>

\* The model is called; _update_cache_callback wraps a stream in a generator
CallModel(t) ==
    /\ pc[t] = "miss"
    /\ calls' = Append(calls, [k |-> Key(t), n |-> req[t].n, parts |-> 0, saves |-> 0])
    /\ frame' = [frame EXCEPT ![t].call = Len(calls) + 1,
                             ![t].read = IF Streamed(t) THEN 0 ELSE Chunks]
    /\ Goto(t, IF Streamed(t) THEN "open" ELSE "save")
    /\ UNCHANGED <<store, up, req, tmp_args, result, todo, count, faults, aux>>

\* The model raises, or the stream does between two chunks
ModelRaises(t) ==
    /\ pc[t] \in {"miss", "open"}
    /\ Fault
    /\ Return(t, Raised)
    /\ UNCHANGED <<store, up, tmp_args, todo, calls, count, aux>>

\* hook_openai_data, stream_answer, hook_stream_data: the client takes a chunk
Read(t) ==
    /\ pc[t] = "open" /\ frame[t].read < Chunks
    /\ frame' = [frame EXCEPT ![t].read = @ + 1]
    /\ UNCHANGED <<store, up, pc, req, tmp_args, result, todo, calls, count, faults, aux>>

\* Mutant: what was read is saved
AbandonSaves(t) ==
    /\ pc[t] = "open"
    /\ Goto(t, "save")
    /\ UNCHANGED <<store, up, client, calls, count, faults, aux>>

\* The client does not read on, and the generator is closed where it yields
Abandon(t) ==
    /\ pc[t] = "open"
    /\ Return(t, None)
    /\ UNCHANGED <<store, up, tmp_args, todo, calls, count, faults, aux>>

\* The stream is at its end: the answer is put together
Exhaust(t) ==
    /\ pc[t] = "open" /\ frame[t].read = Chunks
    /\ Goto(t, "save")
    /\ UNCHANGED <<store, up, client, calls, count, faults, aux>>

\* hook_stream_data when all images were filtered: to_save[0] raises
NoImage(t) ==
    /\ pc[t] = "open" /\ frame[t].read = Chunks /\ Api(t).filtered
    /\ Return(t, Raised)
    /\ UNCHANGED <<store, up, tmp_args, todo, calls, count, faults, aux>>

\* update_cache_func: save, and its count
SaveAnswer(t) ==
    /\ pc[t] = "save" /\ ~NotAnAnswer(t)
    /\ Save(Key(t), Call(t), frame[t].session)
    /\ calls' = [calls EXCEPT ![Call(t)].parts = frame[t].read, ![Call(t)].saves = @ + 1]
    /\ given' = given \cup Given(t)
    /\ count' = count + 1
    /\ IF (count + 1) % AutoFlush = 0
       THEN Goto(t, "flush") /\ UNCHANGED <<req, result, frame>> ELSE Return(t, Call(t))
    /\ UNCHANGED <<up, tmp_args, todo, faults, repeated, dropped>>

\* The callback raises: adapt hands the iterator on, and nothing is cached
PassOn(t) ==
    /\ pc[t] = "save" /\ NotAnAnswer(t)
    /\ Return(t, None)
    /\ UNCHANGED <<store, up, tmp_args, todo, calls, count, faults, aux>>

\* Mutant: the generator swallows the exception, too
SaveRaisesSilently(t) ==
    /\ pc[t] = "save"
    /\ Fault
    /\ Return(t, Call(t))
    /\ UNCHANGED <<store, up, tmp_args, todo, calls, count, aux>>

\* save raises: adapt swallows it, unless it comes from a generator, which runs
\* when adapt has long returned
SaveRaises(t) ==
    /\ pc[t] = "save"
    /\ Fault
    /\ Return(t, IF Streamed(t) THEN Raised ELSE Call(t))
    /\ UNCHANGED <<store, up, tmp_args, todo, calls, count, aux>>

\* Cache.flush, in two steps
OpenFile(t) ==
    /\ pc[t] = "flush" /\ FlushOpen /\ Goto(t, "dump")
    /\ UNCHANGED <<up, client, calls, count, faults, aux>>

Dump(t) ==
    /\ pc[t] = "dump" /\ FlushDump /\ Return(t, Call(t))
    /\ UNCHANGED <<up, tmp_args, todo, calls, count, faults, aux>>

-----------------------------------------------------------------------------
(* Session.drop and the life of the process.                               *)

\* drop lists the session
Drop(t, s) ==
    /\ up /\ pc[t] = "idle" /\ ~InUse(s)
    /\ Fault
    /\ req' = [req EXCEPT ![t].s = s]
    /\ todo' = [todo EXCEPT ![t] = ListSessions(s)]
    /\ result' = [result EXCEPT ![t] = None]
    /\ Goto(t, "drop")
    /\ given' = {g \in given : g[1] # s}
    /\ UNCHANGED <<store, frame, up, tmp_args, calls, count, repeated, dropped>>

\* Mutant: delete_session returns after the first entry
DropFirst(t) ==
    \E k \in todo[t] :
        /\ pc[t] = "drop" /\ DeleteOne(k, req[t].s)
        /\ todo' = [todo EXCEPT ![t] = {}]
        /\ UNCHANGED <<up, pc, req, frame, tmp_args, result, calls, count, faults, aux>>

\* and goes through the list in the order of a set
DropOne(t) ==
    \E k \in todo[t] :
        /\ pc[t] = "drop" /\ DeleteOne(k, req[t].s)
        /\ todo' = [todo EXCEPT ![t] = @ \ {k}]
        /\ UNCHANGED <<up, pc, req, frame, tmp_args, result, calls, count, faults, aux>>

\* until an element is not a key of the session's: KeyError
DropRaises(t) ==
    /\ pc[t] = "drop" /\ \E k \in todo[t] : DeleteRaises(k, req[t].s)
    /\ todo' = [todo EXCEPT ![t] = {}]
    /\ result' = [result EXCEPT ![t] = Raised]
    /\ Goto(t, "idle")
    /\ UNCHANGED <<store, up, req, frame, tmp_args, calls, count, faults, aux>>

DropEnds(t) ==
    /\ pc[t] = "drop" /\ todo[t] = {}
    /\ dropped' = dropped \cup {req[t].s}
    /\ Goto(t, "idle")
    /\ UNCHANGED <<store, up, client, calls, count, faults, given, repeated>>

\* The process ends, and its sessions with it
Down ==
    /\ up /\ up' = FALSE
    /\ pc' = Rest("idle") /\ todo' = Rest({}) /\ tmp_args' = Rest(NoSession)
    /\ result' = Rest(None) /\ given' = {} /\ repeated' = {} /\ dropped' = {}
    /\ frame' = Rest(NoFrame)
    /\ Fault
    /\ UNCHANGED <<req, calls, count>>

Crash == Down /\ UNCHANGED store

\* atexit: close flushes
Exit == Down /\ (\A t \in Threads : pc[t] = "idle") /\ FlushDump

Start ==
    /\ ~up /\ up' = TRUE /\ Load
    /\ count' = 0
    /\ UNCHANGED <<pc, client, calls, faults, aux>>

\* The file is truncated, and init raises each time
CannotStart == ~up /\ ~file.whole /\ UNCHANGED vars

AtRest == up /\ (\A t \in Threads : pc[t] = "idle") /\ UNCHANGED vars

Next ==
    \/ \E t \in Threads :
        \/ \E r \in Requests : Begin(t, r) \/ BeginBatch(t, r)
        \/ NextPrompt(t) \/ Search(t) \/ Hit(t) \/ CallModel(t) \/ ModelRaises(t)
        \/ Read(t) \/ Abandon(t) \/ Exhaust(t) \/ NoImage(t)
        \/ SaveAnswer(t) \/ PassOn(t) \/ SaveRaises(t) \/ OpenFile(t) \/ Dump(t)
        \/ \E s \in Sessions : Drop(t, s)
        \/ DropOne(t) \/ DropRaises(t) \/ DropEnds(t)
    \/ Crash \/ Exit \/ Start \/ CannotStart \/ AtRest

Spec == Init /\ [][Next]_vars

-----------------------------------------------------------------------------
(* Properties.                                                             *)

\* The map is within max_size, a call is saved under one key, and only a
\* running flush or a crash in one leaves the file truncated.
TypeOK ==
    /\ DOMAIN data \subseteq Keys /\ Cardinality(DOMAIN data) <= MaxSize
    /\ \A k \in DOMAIN data :
          data[k].ans \in DOMAIN calls /\ data[k].sess \subseteq Sessions
    /\ pc \in [Threads -> {"idle", "prompt", "search", "hit", "miss", "open", "save",
                          "flush", "dump", "drop"}]
    /\ \A t \in Threads : frame[t].session \in Sessions \cup {NoSession}
    /\ \A t \in Threads : frame[t].read \in 0..Chunks
    /\ \A t \in Threads : todo[t] \subseteq Keys \cup Sessions
    /\ up /\ ~file.whole => \E t \in Threads : pc[t] = "dump"

\* What is cached is an answer to that question, and all of it: a stream that
\* broke off, was abandoned, or was read while others saved under the same key
\* leaves nothing behind (hook_openai_data saves after its loop).  And what
\* Moderation.create returns has a result for each input, also when the cache
\* had one for another number of inputs that read the same.  (Types first.)
WholeAnswers ==
    /\ TypeOK
    /\ \A k \in DOMAIN data :
          calls[data[k].ans].k = k /\ calls[data[k].ans].parts = Chunks
    /\ \A t \in Threads :
          pc[t] = "idle" /\ Api(t).counted /\ result[t] \notin {None, Raised}
              => calls[result[t]].n = req[t].n

\* A client that comes to the end of a stream without an exception can rely on
\* the answer having been saved, once: a save that fails is not hidden from it.
EndOfStreamMeansSaved ==
    \A t \in Threads :
        pc[t] = "idle" /\ Streamed(t) /\ result[t] \notin {None, Raised}
            => calls[result[t]].saves = 1

\* A session is never given the same cached answer twice: check_hit_session,
\* over saves that overwrite the tuple, evictions, and other threads' hits.
AnswerOncePerSession == repeated = {}

\* When drop has returned, no entry names the session.
DropForgets == \A s \in dropped, k \in DOMAIN data : s \notin data[k].sess

\* A drop raises at none of the elements it has still to go through, so that it
\* deletes all data in the session, as Session.drop says.
DropGoesThrough ==
    \A t \in Threads : pc[t] = "drop" =>
        \A k \in todo[t] : ~DeleteRaises(k, req[t].s)
=============================================================================
