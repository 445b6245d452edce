------------------------------ MODULE Pipeline ------------------------------
(***************************************************************************)
(* What a request is turned into, and what decides whether a cached answer *)
(* fits it: the pre-processors (processor/pre.py), the context processors  *)
(* (processor/context), the similarity evaluations, the post-processors    *)
(* and the chat handler of gptcache_server/server.py, for one cache that   *)
(* several threads use.  Adapter has the rest of adapt.                    *)
(*                                                                         *)
(* Text is a sequence of tokens: words, roles and line breaks.  Scores and *)
(* weights are in hundredths.                                              *)
(***************************************************************************)
EXTENDS Integers, Sequences, FiniteSets, SequencesExt

CONSTANTS
    Threads,
    Chats,          \* requests with messages: Seq([role, content])
    Inputs,         \* requests without: [question, name, head, tail]
    Given,          \* chats whose body has a cache_skip, with its value
    Configs,        \* [pre, eval, post, template, stamp]
    Threshold,      \* similarity_threshold, in percent
    TopK,           \* rows a search returns, and top_k of KReciprocalEvaluation
    Prompts,        \* Config.prompts
    ContextLen,     \* Config.context_len
    Weights,        \* weights of SequenceMatchEvaluation, in percent
    TargetLength,   \* target_length of SummarizationContextProcess
    TimeRange,      \* time_range of TimeEvaluation
    UtcAhead,       \* what UTC is ahead of local time
    Marker,         \* the word "/cache_skip "
    MaxRequests,    \* bound: requests
    MaxClock        \* bound: the time

MaxDistance == 400
SkipList == {"system", "assistant"}
Contexts == {"summarization", "selective", "concat"}
Getters == {"get_prompt", "get_inputs", "get_openai_moderation_input", "get_file_name",
            "get_image", "get_file_bytes", "get_input_str"}
Evals == {"distance", "exact", "np", "onnx", "kreciprocal", "sequence_match", "time"}

\* What a scalar store writes as create_on: local time (SQL), UTC without a zone
\* (Redis, DynamoDB), or the time the process built the model class (MongoDB)
Stamps == {"local", "utc", "built"}

Posts == {"first", "random_one", "LlmVerifier"}
Pres == Getters \cup Contexts
            \cup {"last_content", "last_content_without_prompt",
                  "last_content_without_template", "all_content", "concat_all_queries"}

\* cache_skip of a body: False or missing, True, or something else that is false
CacheSkips == {"false", "true", "null"}

\* A message of a chat; a chat has at least one
Message == [role : STRING, content : Seq(STRING)]

ASSUME BoundsAssumption ==
    /\ TopK \in Nat \ {0} /\ ContextLen \in Nat \ {0}
    /\ Threshold \in 1..100 /\ TimeRange \in Nat /\ TargetLength \in Nat \ {0}
    /\ UtcAhead \in Int /\ MaxRequests \in Nat /\ MaxClock \in Nat
ASSUME RequestsAssumption ==
    /\ Chats \subseteq Seq(Message) \ {<<>>}
    /\ Given \subseteq Chats \X {"true", "null"}
    /\ Chats # {} /\ Inputs # {} /\ IsFiniteSet(Threads)
ASSUME ConfigsAssumption ==
    \A c \in Configs : c.pre \in Pres /\ c.eval \in Evals /\ c.post \in Posts /\ c.stamp \in Stamps
ASSUME WeightsAssumption == FoldLeft(+, 0, Weights) = 100

VARIABLES
    conf,       \* what the cache was initialised with
    content,    \* self.content of the context processor
    rows,       \* saved rows: [store, embed, asked, at, saved]
    clock,
    n,          \* requests so far
    pc,         \* thread -> where its request is
    asked,      \* thread -> its request, as the client sent it
    given,      \* thread -> cache_skip of its body
    req,        \* thread -> its request, as adapt gets it
    skip,       \* thread -> cache_skip
    text,       \* thread -> [store, embed], pre_store_data and pre_embedding_data
    out         \* thread -> what its request ended with, and the row it was answered from

vars == <<conf, content, rows, clock, n, pc, asked, given, req, skip, text, out>>

NoText == [store |-> <<>>, embed |-> <<>>]

\* create_on of a row that is saved at this time; the process starts at 0
Stamped(time) == CASE conf.stamp = "local" -> time
                   [] conf.stamp = "utc"   -> time + UtcAhead
                   [] conf.stamp = "built" -> 0

\* A row: at is create_on, saved is when that was (auxiliary)
Row(q, r, time) == [store |-> q.store, embed |-> q.embed, asked |-> r,
                    at |-> Stamped(time), saved |-> time]
Out(kind, row) == [kind |-> kind, row |-> row]
NoRow == Row(NoText, <<>>, 0)
Requests == IF conf.pre \in Getters THEN Inputs ELSE Chats

Init ==
    /\ conf \in Configs
    /\ content = <<>> /\ rows = {} /\ clock = 0 /\ n = 0
    /\ pc = [t \in Threads |-> "idle"]
    /\ asked = [t \in Threads |-> CHOOSE r \in Requests : TRUE]
    /\ given = [t \in Threads |-> "false"]
    /\ req = asked
    /\ skip = [t \in Threads |-> FALSE]
    /\ text = [t \in Threads |-> NoText]
    /\ out = [t \in Threads |-> Out("none", NoRow)]

-----------------------------------------------------------------------------
(* Pre-processors.                                                         *)

Content(m) == Last(m).content

\* What is at the positions S of s, in its order: the k-th is where k of them end
Subsequence(s, S) ==
    LET From(k) == CHOOSE i \in S : Cardinality({j \in S : j <= i}) = k
    IN  [k \in 1..Cardinality(S) |-> s[From(k)]]

\* re.sub and str.replace
Without(s, words) == Subsequence(s, {i \in DOMAIN s : s[i] \notin words})

WithoutPrompts(s) == Without(s, Prompts)

\* str.find: where sub begins in s, at from or later, or -1
Find(s, sub, from) ==
    LET starts == {i \in from..(Len(s) - Len(sub)) : SubSeq(s, i + 1, i + Len(sub)) = sub}
    IN  IF starts = {} THEN -1 ELSE CHOOSE i \in starts : \A j \in starts : i <= j

\* _get_pattern_value: a template is a sequence of literals, each followed by
\* a field except perhaps the last; for that one field_name_arr is too short
PatternValues(template, s) ==
    LET Step(acc, i) ==
            LET lit == template[i].literal
                start == Find(s, lit, acc.from)
                end == IF i = Len(template) THEN Len(s)
                       ELSE Find(s, template[i + 1].literal, start + 1)
            IN  IF acc.stop \/ start = -1 \/ end = -1 THEN [acc EXCEPT !.stop = TRUE]
                ELSE [values |-> Append(acc.values, SubSeq(s, start + Len(lit) + 1, end)),
                      from |-> end, stop |-> FALSE, raise |-> ~template[i].field]
    IN  FoldLeft(Step, [values |-> <<>>, from |-> 0, stop |-> FALSE, raise |-> FALSE],
                 [i \in DOMAIN template |-> i])

\* str of a list: the values with a separator
Listed(values) == FlattenSeq([i \in DOMAIN values |-> Append(values[i], ",")])

\* Mutant: no line breaks
AllContentGlued(m) == FlattenSeq([i \in DOMAIN m |-> m[i].content])

AllContent(m) ==
    FlattenSeq([i \in DOMAIN m |->
        IF i = Len(m) THEN m[i].content ELSE Append(m[i].content, "\n")])

\* The last messages, twice context_len of them
Window(m) == SubSeq(m, IF Len(m) > 2 * ContextLen THEN Len(m) - 2 * ContextLen + 1 ELSE 1, Len(m))

ConcatAllQueries(m) ==
    LET w == Window(m)
    IN  FlattenSeq([i \in DOMAIN w |->
            IF w[i].role \in SkipList THEN <<>>
            ELSE <<w[i].role>> \o w[i].content \o (IF i = Len(w) THEN <<>> ELSE <<"\n">>)])

\* peek gives what is buffered of a file
Peek(r) == r.head

\* Functions that take one argument of the request, or a part of one; a list is
\* turned into a string
Field(pre, r) ==
    CASE pre \in {"get_prompt", "get_inputs"}      -> <<r.question>>
      [] pre = "get_openai_moderation_input"       -> <<"[", r.question, "]">>
      [] pre \in {"get_file_name", "get_image"}    -> <<r.name>>
      [] pre = "get_file_bytes"                    -> <<Peek(r)>>
      [] pre = "get_input_str"                     -> <<Peek(r), r.question>>

Both(s) == [store |-> s, embed |-> s]

Text(pre, r) ==
    CASE pre \in Getters                 -> Both(Field(pre, r))
      [] pre = "last_content"            -> Both(Content(r))
      [] pre = "last_content_without_prompt"
                                         -> Both(WithoutPrompts(Content(r)))
      [] pre = "last_content_without_template"
                                         -> Both(Listed(PatternValues(conf.template, Content(r)).values))
      [] pre = "all_content"             -> Both(AllContent(r))
      [] pre = "concat_all_queries"      -> Both(ConcatAllQueries(r))

\* field_name_arr[i] with i out of range
TextRaises(pre, r) ==
    /\ pre = "last_content_without_template"
    /\ PatternValues(conf.template, Content(r)).raise

-----------------------------------------------------------------------------
(* Context processors: one object, which all requests share.               *)

Dialogue(m) == FlattenSeq([i \in DOMAIN m |-> <<m[i].role>> \o m[i].content \o <<"\n">>])

\* A content's share of the target length
Share(m, s) == (TargetLength * Len(s)) \div FoldLeft(LAMBDA acc, x : acc + Len(x.content), 0, m)

\* Each content within its share; a longer one is replaced by a summary, which
\* is taken to be its beginning
Summarized(m) ==
    FlattenSeq([i \in DOMAIN m |->
        LET s == m[i].content
        IN  IF Len(s) > Share(m, s) THEN SubSeq(s, 1, Share(m, s)) ELSE s])

\* A share of 0: no summary is that short, an empty one has two tokens
NeverShort(m) ==
    conf.pre = "summarization" /\ \E i \in DOMAIN m : Share(m, m[i].content) = 0

\* The library keeps about 1 - reduce_ratio of the phrases
Reduced(s) == SubSeq(s, 1, (65 * Len(s)) \div 100)

\* Mutant: the content of the last request is not replaced
FormattedAppends(m) == content \o m

\* format_all_content
Formatted(m) == IF conf.pre = "summarization" THEN m ELSE content \o m

\* What process_all_content returns for the embedding
Embedded(m) ==
    CASE conf.pre = "summarization" -> Summarized(m)
      [] conf.pre = "concat"        -> AllContentGlued(m)
      [] conf.pre = "selective"     -> Reduced(Dialogue(m))

\* and with the text that is saved, if both are of one content
Processed(m) == [store |-> Dialogue(m), embed |-> Embedded(m)]

-----------------------------------------------------------------------------
(* Embeddings and similarity evaluations.                                  *)

Apart(s, u) == (ToSet(s) \ ToSet(u)) \cup (ToSet(u) \ ToSet(s))

\* The squared distance of two texts' embeddings, for some model; no evaluation
\* tells distances above MaxDistance apart
Dist(s, u) == IF s = u THEN 0
              ELSE 100 * Max({1} \cup {d \in 2..5 : Cardinality(Apart(s, u)) >= d})

AtMost(x, limit) == IF x > limit THEN limit ELSE x

\* SearchDistanceEvaluation, with positive = False
Distance(d) == MaxDistance - AtMost(d, MaxDistance)

\* OnnxModelEvaluation and SbertCrossencoderEvaluation: a model of the pair
Predicted(s, u) == 100 - AtMost(Dist(s, u), 400) \div 4

\* NumpyNormEvaluation on normalised embeddings, whose squared distance is at
\* most 4: the square roots of 0 to 4
Norm(d) == <<0, 100, 141, 173, 200>>[AtMost(d, 400) \div 100 + 1]

\* KReciprocalEvaluation: is the query among the neighbours of the row?
KReciprocal(q, row) ==
    LET d == Dist(q.embed, row.embed)
        others == {r \in rows : Dist(r.embed, row.embed) < d}
    IN  IF q.store = row.store THEN 100
        ELSE Distance(IF Cardinality(others) > TopK THEN MaxDistance ELSE d)

\* str.split("USER: "), without the empty parts
Questions(s) ==
    LET marks == SelectSeq([i \in DOMAIN s |-> i], LAMBDA i : s[i] = "user")
        from == <<0>> \o marks
        Part(j) == SubSeq(s, from[j] + 1, IF j = Len(from) THEN Len(s) ELSE from[j + 1] - 1)
    IN  SelectSeq([j \in DOMAIN from |-> Part(j)], LAMBDA p : p # <<>>)

Sum(ws) == FoldLeft(+, 0, ws)

\* Mutant: a short conversation keeps the weights of a long one
ReweightNot(length) == 100

\* reweight: what the first weights are divided by
Reweight(length) ==
    IF length >= Len(Weights) THEN 100 ELSE Sum(SubSeq(Reverse(Weights), 1, length))

MatchLength(s, u) ==
    LET a == Len(Questions(s))
        b == Len(Questions(u))
    IN  AtMost(AtMost(a, b), Len(Weights))

\* SequenceMatchEvaluation, from the last question back
SequenceMatch(s, u) ==
    LET a == Reverse(Questions(s))
        b == Reverse(Questions(u))
        length == MatchLength(s, u)
        Part(i) == (400 - AtMost(Dist(a[i], b[i]), 400)) * Reverse(Weights)[i]
    IN  Sum([i \in 1..length |-> Part(i)]) \div Reweight(length)

\* assert length > 0
ScoreRaises(q, row) == conf.eval = "sequence_match" /\ MatchLength(q.store, row.store) = 0

Range100(e) == CASE e \in {"distance", "time", "kreciprocal", "sequence_match"} -> MaxDistance
                 [] e = "np"                          -> 200
                 [] e \in {"exact", "onnx"} -> 100

\* Mutant: an old row gets the best score
TooOldIsBest(q, row) == MaxDistance

\* TimeEvaluation around the distance
Timed(q, row) ==
    IF clock - row.at > TimeRange THEN 0 ELSE Distance(Dist(q.embed, row.embed))

Score(q, row) ==
    CASE conf.eval = "distance"       -> Distance(Dist(q.embed, row.embed))
      [] conf.eval = "exact"          -> IF q.store = row.store THEN 100 ELSE 0
      [] conf.eval = "np"             -> 200 - Norm(Dist(q.embed, row.embed))
      [] conf.eval = "onnx"           -> Predicted(q.store, row.store)
      [] conf.eval = "kreciprocal"    -> KReciprocal(q, row)
      [] conf.eval = "sequence_match" -> SequenceMatch(q.store, row.store)
      [] conf.eval = "time"           -> Timed(q, row)

RankThreshold == (Range100(conf.eval) * Threshold) \div 100

-----------------------------------------------------------------------------
(* The handler of the server and the parts of adapt.                       *)

IsMarked(m) == \E i \in DOMAIN m.content : m.content[i] = Marker
Unmarked(m) == [m EXCEPT !.content = Without(m.content, {Marker})]

\* Mutant: the marker stays in the last message
StrippedFirst(r) == IF IsMarked(Head(r)) THEN [r EXCEPT ![1] = Unmarked(r[1])] ELSE r

\* chat: the marker is taken from the first message or else from the last
Stripped(r) ==
    IF IsMarked(Head(r)) THEN [r EXCEPT ![1] = Unmarked(r[1])]
    ELSE [r EXCEPT ![Len(r)] = Unmarked(r[Len(r)])]

\* "if cache_skip is False": the messages of a body that gives cache_skip
\* another value are left alone
Received(r, value) == IF conf.pre \in Getters \/ value # "false" THEN r ELSE Stripped(r)

\* cache_skip, as adapt is given it
Skips(r, value) ==
    /\ conf.pre \notin Getters
    /\ value = "true" \/ (value = "false" /\ (IsMarked(Head(r)) \/ IsMarked(Last(r))))

\* A request comes, through the server if it is a chat
Arrive(t, r, value) ==
    /\ pc[t] = "idle" /\ n < MaxRequests
    /\ value = "false" \/ <<r, value>> \in Given
    /\ n' = n + 1
    /\ asked' = [asked EXCEPT ![t] = r]
    /\ given' = [given EXCEPT ![t] = value]
    /\ req' = [req EXCEPT ![t] = Received(r, value)]
    /\ skip' = [skip EXCEPT ![t] = Skips(r, value)]
    /\ pc' = [pc EXCEPT ![t] = IF conf.pre \in Contexts THEN "format" ELSE "pre"]
    /\ out' = [out EXCEPT ![t] = Out("none", NoRow)]
    /\ UNCHANGED <<conf, content, rows, clock, text>>

Goto(t, label) == pc' = [pc EXCEPT ![t] = label]

\* pre_process of a context processor: format_all_content
Format(t) ==
    /\ pc[t] = "format"
    /\ content' = Formatted(req[t])
    /\ Goto(t, "process")
    /\ UNCHANGED <<conf, rows, clock, n, asked, given, req, skip, text, out>>

\* process_all_content, which reads what the object has now, and again after the
\* summarizer or the selection is done; concat only returns its two fields, the
\* saved text first
Process(t) ==
    /\ pc[t] = "process"
    /\ text' = [text EXCEPT ![t] =
                   IF conf.pre = "concat" THEN [NoText EXCEPT !.store = Dialogue(content)]
                   ELSE [NoText EXCEPT !.embed = Embedded(content)]]
    /\ Goto(t, IF NeverShort(content) THEN "summarizing" ELSE "serialize")
    /\ UNCHANGED <<conf, content, rows, clock, n, asked, given, req, skip, out>>

Serialize(t) ==
    /\ pc[t] = "serialize"
    /\ text' = [text EXCEPT ![t] =
                   IF conf.pre = "concat" THEN [@ EXCEPT !.embed = Embedded(content)]
                   ELSE [@ EXCEPT !.store = Dialogue(content)]]
    /\ Goto(t, "search")
    /\ UNCHANGED <<conf, content, rows, clock, n, asked, given, req, skip, out>>

\* summarize_to_length goes on for ever
Summarizing(t) == pc[t] = "summarizing" /\ UNCHANGED vars

Pre(t) ==
    /\ pc[t] = "pre"
    /\ ~TextRaises(conf.pre, req[t])
    /\ text' = [text EXCEPT ![t] = Text(conf.pre, req[t])]
    /\ Goto(t, "search")
    /\ UNCHANGED <<conf, content, rows, clock, n, asked, given, req, skip, out>>

PreRaises(t) ==
    /\ pc[t] = "pre"
    /\ TextRaises(conf.pre, req[t])
    /\ out' = [out EXCEPT ![t] = Out("error", NoRow)]
    /\ Goto(t, "idle")
    /\ UNCHANGED <<conf, content, rows, clock, n, asked, given, req, skip, text>>

\* The vector store gives TopK of the nearest rows
Nearest(q) ==
    {found \in SUBSET rows :
        /\ Cardinality(found) = AtMost(Cardinality(rows), TopK)
        /\ \A r \in found : \A other \in rows \ found :
              Dist(q.embed, r.embed) <= Dist(q.embed, other.embed)}

Accepted(q, found) == {r \in found : Score(q, r) >= RankThreshold}

\* What a post-processor may return: the best of the sorted answers (first, and
\* temperature_softmax at temperature 0), any of them (random_one, and
\* temperature_softmax above 0), or none, for a verifier that adapt calls
\* without the question
Picked(post, q, accepted) ==
    CASE post = "first"       -> {r \in accepted : \A o \in accepted : Score(q, o) <= Score(q, r)}
      [] post = "random_one"  -> accepted
      [] post = "LlmVerifier" -> {}

Answer(t) ==
    /\ pc[t] = "search" /\ ~skip[t]
    /\ \E found \in Nearest(text[t]) :
          /\ ~\E r \in found : ScoreRaises(text[t], r)
          /\ \E r \in Picked(conf.post, text[t], Accepted(text[t], found)) :
                out' = [out EXCEPT ![t] = Out("row", r)]
    /\ Goto(t, "idle")
    /\ UNCHANGED <<conf, content, rows, clock, n, asked, given, req, skip, text>>

\* Nothing was found, accepted or picked: the model is called
Miss(t) ==
    /\ pc[t] = "search"
    /\ skip[t] \/ \E found \in Nearest(text[t]) :
                      /\ ~\E r \in found : ScoreRaises(text[t], r)
                      /\ Picked(conf.post, text[t], Accepted(text[t], found)) = {}
    /\ Goto(t, "save")
    /\ UNCHANGED <<conf, content, rows, clock, n, asked, given, req, skip, text, out>>

EvaluationRaises(t) ==
    /\ pc[t] = "search" /\ ~skip[t]
    /\ \E found \in Nearest(text[t]) : \E r \in found : ScoreRaises(text[t], r)
    /\ out' = [out EXCEPT ![t] = Out("error", NoRow)]
    /\ Goto(t, "idle")
    /\ UNCHANGED <<conf, content, rows, clock, n, asked, given, req, skip, text>>

Save(t) ==
    /\ pc[t] = "save"
    /\ rows' = rows \cup {Row(text[t], req[t], clock)}
    /\ out' = [out EXCEPT ![t] = Out("model", NoRow)]
    /\ Goto(t, "idle")
    /\ UNCHANGED <<conf, content, clock, n, asked, given, req, skip, text>>

Tick ==
    /\ conf.eval = "time" /\ clock < MaxClock
    /\ clock' = clock + 1
    /\ UNCHANGED <<conf, content, rows, n, pc, asked, given, req, skip, text, out>>

Done == n = MaxRequests /\ (\A t \in Threads : pc[t] = "idle") /\ UNCHANGED vars

Next ==
    \/ \E t \in Threads :
          \/ \E r \in Requests, value \in CacheSkips : Arrive(t, r, value)
          \/ Format(t) \/ Process(t) \/ Serialize(t) \/ Summarizing(t) \/ Pre(t) \/ PreRaises(t)
          \/ Answer(t) \/ Miss(t) \/ EvaluationRaises(t) \/ Save(t)
    \/ Tick
    \/ Done

Spec == Init /\ [][Next]_vars

-----------------------------------------------------------------------------
(* Properties.                                                             *)

\* What a request is turned into by a processor of its own
OwnText(r) == IF conf.pre \in Contexts THEN Processed(r) ELSE Text(conf.pre, r)

\* The chats as adapt may get them
Servable == Chats \cup {Stripped(r) : r \in Chats}

Labels == {"idle", "format", "process", "serialize", "summarizing", "pre", "search", "save"}

\* Types; a summarization context holds the messages of one request.
TypeOK ==
    /\ conf \in Configs /\ clock \in 0..MaxClock /\ n \in 0..MaxRequests
    /\ pc \in [Threads -> Labels]
    /\ \A t \in Threads :
          /\ asked[t] \in Requests /\ given[t] \in CacheSkips
          /\ skip[t] \in BOOLEAN
          /\ out[t].kind \in {"none", "model", "error", "row"}
    /\ \A r \in rows : r.saved \in 0..clock /\ r.at = Stamped(r.saved)
    /\ conf.pre = "summarization" => content = <<>> \/ content \in Servable

\* Requests that share one SummarizationContextProcess may be given each other's
\* text: format_all_content leaves the messages in the object, and
\* process_all_content reads them before the summarizer and after it.  So the
\* text that is saved and the text that is searched for are each made of the
\* messages of one request, perhaps of two different ones; without another
\* thread both are the request's own.  (Types first.)
TextOfOneRequest ==
    /\ TypeOK
    /\ \A t \in Threads :
          pc[t] = "search" /\ conf.pre \notin {"concat", "selective"} =>
              \/ text[t] = OwnText(req[t])
              \/ /\ conf.pre = "summarization" /\ Cardinality(Threads) > 1
                 /\ \E q, r \in Servable :
                       text[t] = [store |-> OwnText(q).store, embed |-> OwnText(r).embed]

\* "process all content of the llm request data" (processor/context/context.py):
\* a request is searched for, and saved, by what it contains itself.  The code
\* does otherwise when two threads share a SummarizationContextProcess.
ContextIsOfRequest ==
    \A t \in Threads :
        pc[t] = "search" /\ conf.pre = "summarization" => text[t] = OwnText(req[t])

\* The values a template was filled with, which contain no word of it
Fillings(template, s) ==
    LET literal == UNION {ToSet(template[i].literal) : i \in DOMAIN template}
        segments == {<<>>} \cup {SubSeq(s, i, j) : i, j \in DOMAIN s}
        fields == SelectSeq([i \in DOMAIN template |-> i], LAMBDA i : template[i].field)
    IN  {v \in [DOMAIN fields -> {x \in segments : ToSet(x) \cap literal = {}}] :
            s = FlattenSeq([i \in DOMAIN template |->
                    template[i].literal \o (IF template[i].field THEN v[i] ELSE <<>>)])}

\* The messages in the window that are not skipped
Queries(r) ==
    LET w == Window(r)
    IN  Subsequence(w, {i \in DOMAIN w : w[i].role \notin SkipList})

\* The part of a request that the documentation says is the key
View(r) ==
    CASE conf.pre = "get_file_bytes"     -> <<r.head, r.tail>>
      [] conf.pre = "get_input_str"      -> <<r.head, r.tail, r.question>>
      [] conf.pre \in Getters \ {"get_file_bytes", "get_input_str"}
                                         -> Field(conf.pre, r)
      [] conf.pre = "last_content"       -> Content(r)
      [] conf.pre = "last_content_without_prompt"
                                         -> WithoutPrompts(Content(r))
      [] conf.pre = "last_content_without_template"
                                         -> Fillings(conf.template, Content(r))
      [] conf.pre = "all_content"        -> [i \in DOMAIN r |-> r[i].content]
      [] conf.pre = "concat_all_queries" -> Queries(r)
      [] conf.pre \in Contexts           -> r

\* No message contains what separates the messages in a text.
Unbroken(r) == \A i \in DOMAIN r : "\n" \notin {r[i].role} \cup ToSet(r[i].content)

\* Known limits: peek returns no more than a buffer, the functions on templates
\* are about prompts made from the template, and what separates the messages in
\* a text may also be inside of one
Kept(r) ==
    /\ conf.pre \in {"get_file_bytes", "get_input_str"} => r.tail = 0
    /\ conf.pre = "last_content_without_template" => Fillings(conf.template, Content(r)) # {}
    /\ conf.pre \in Contexts \cup {"all_content", "concat_all_queries"} => Unbroken(r)

\* A pre-processor must not throw away what tells two requests apart: with
\* exact matching, a request that was given its own text, not an empty one, is
\* answered with an answer to the same question, as far as the pre-processor
\* is documented to look.
AnswerForSameView ==
    \A t \in Threads :
        LET r == out[t].row
        IN  /\ conf.eval = "exact" /\ out[t].kind = "row" /\ pc[t] = "idle"
            /\ r.store = OwnText(req[t]).store /\ r.store = OwnText(r.asked).store
            /\ r.store # <<>> /\ Kept(req[t]) /\ Kept(r.asked)
            => View(r.asked) = View(req[t])

\* How much later TimeEvaluation takes a row to be saved than it was
Ahead == IF conf.stamp = "utc" THEN UtcAhead ELSE 0

\* A row that TimeEvaluation takes for too old; with MongoDB all rows are as old
\* as the process
TakenForOld(r) ==
    /\ conf.eval = "time"
    /\ IF conf.stamp = "built" THEN clock > TimeRange ELSE clock - r.saved > TimeRange + Ahead

\* A text that was saved before is not sent to the model again, whatever the
\* evaluation, unless cache_skip says so or time_range is over, which it is with
\* MongoDB once the process runs that long, and with Redis and DynamoDB too soon
\* in a zone ahead of UTC.  Exceptions: KReciprocalEvaluation gives the same
\* question 1 of 4, which is below the threshold, and a verifier is called
\* without the question.
RepeatServed ==
    [][\A t \in Threads :
          /\ pc[t] = "search" /\ pc'[t] = "save" /\ ~skip[t]
          /\ conf.eval # "kreciprocal" /\ conf.post # "LlmVerifier"
          => LET same == {r \in rows : r.embed = text[t].embed}
             IN  \/ same = {}
                 \/ \E r \in same : r.store # text[t].store
                 \/ \E r \in same : TakenForOld(r)]_vars

\* No answer of TimeEvaluation is older than time_range, or, with Redis and
\* DynamoDB, than time_range and what UTC is ahead of local time: they store UTC,
\* which TimeEvaluation reads as local time.
FreshAnswers ==
    [][\A t \in Threads :
          conf.eval = "time" /\ pc[t] = "search" /\ out'[t].kind = "row" =>
              clock - out'[t].row.saved <= TimeRange + Ahead]_vars

\* "only use the cache within 1 day from the current time, and filter out the
\* previous cache" (similarity_evaluation/time.py): what is accepted was saved
\* within time_range.  The code does otherwise with Redis and DynamoDB in a zone
\* behind UTC.
AcceptedWithinRange ==
    \A t \in Threads :
        conf.eval = "time" /\ pc[t] = "search" =>
            \A r \in Accepted(text[t], rows) : clock - r.saved <= TimeRange

\* The server takes its marker out of the text: a marked request refreshes the
\* question it was put in front of.  Exceptions: with the marker in the first
\* and in the last message, it stays in the last; and it stays wherever it is
\* when the body gives cache_skip a value other than false.
MarkerNotSaved ==
    \A t \in Threads :
        /\ pc[t] = "save" /\ conf.pre = "last_content" /\ given[t] = "false"
        /\ Len(asked[t]) = 1 \/ ~IsMarked(Head(asked[t])) \/ ~IsMarked(Last(asked[t]))
        => Marker \notin ToSet(text[t].store)
=============================================================================
