----------------------------- MODULE PipelineProofs -----------------------------
(***************************************************************************)
(* For any chats, configurations and number of threads: the text of a      *)
(* request is made from one request, which is another's only with a        *)
(* shared summarization context; the server's marker is not saved; a row   *)
(* that is too old is no answer; a text that was saved before is answered  *)
(* from the cache; and a text says which messages it was made of.          *)
(*                                                                         *)
(* The fifth is about a score: equal texts are at distance 0, so one of    *)
(* the nearest rows has the text, and every evaluation gives it the best   *)
(* score there is, which no threshold is above.  The last takes a text     *)
(* apart: two lists of parts that give one text agree up to the first      *)
(* part at which they do not, and there the line break tells them apart.   *)
(***************************************************************************)
EXTENDS Pipeline, FiniteSetTheorems, SequenceTheorems, WellFoundedInduction, TLAPS

-----------------------------------------------------------------------------
(* The inductive invariant.                                                *)

\* Another thread shares the summarization context.
Shared(t) == \E u \in Threads : u # t

\* The embedding's text alone, of a request r
Embedding(r) == [NoText EXCEPT !.embed = OwnText(r).embed]

\* The text of the request itself, or, summarized, one made of the messages of two.
TextFits(t) ==
    \/ text[t] = OwnText(req[t])
    \/ /\ conf.pre = "summarization" /\ Shared(t)
       /\ \E q, r \in Servable :
             text[t] = [store |-> OwnText(q).store, embed |-> OwnText(r).embed]

\* What a running request knows, by where it is.
Step(t) ==
    /\ pc[t] # "idle" => req[t] = Received(asked[t], given[t]) /\ out[t].kind # "row"
    /\ pc[t] \in {"format", "process", "serialize", "summarizing"} => conf.pre \in Contexts
    /\ pc[t] = "pre" => conf.pre \notin Contexts
    /\ pc[t] \in {"process", "serialize"} /\ conf.pre = "summarization" =>
          content \in Servable /\ (content = req[t] \/ Shared(t))
    /\ pc[t] = "serialize" /\ conf.pre = "summarization" =>
          \E r \in Servable : text[t] = Embedding(r) /\ (r = req[t] \/ Shared(t))
    /\ pc[t] \in {"search", "save"} /\ conf.pre \notin {"concat", "selective"} => TextFits(t)

PipeInv ==
    /\ TypeOK /\ IsFiniteSet(rows)
    /\ DOMAIN pc = Threads /\ DOMAIN out = Threads /\ DOMAIN req = Threads
    /\ DOMAIN asked = Threads /\ DOMAIN text = Threads /\ DOMAIN skip = Threads
    /\ DOMAIN given = Threads
    /\ \A t \in Threads : Step(t)

-----------------------------------------------------------------------------
(* Steps of one thread leave the others where they are.                    *)

LEMMA SameConf ==
    ASSUME conf' = conf
    PROVE  /\ Requests' = Requests
           /\ \A r : OwnText(r)' = OwnText(r)
           /\ \A r : Embedding(r)' = Embedding(r)
           /\ \A r : Stamped(r)' = Stamped(r)
           /\ \A q, v : Received(q, v)' = Received(q, v)
<1>1. Requests' = Requests
  BY DEF Requests
<1>2. ASSUME NEW r PROVE OwnText(r)' = OwnText(r)
  BY DEF OwnText, Text, Processed, Embedded
<1>3. ASSUME NEW r PROVE Embedding(r)' = Embedding(r)
  BY <1>2 DEF Embedding
<1>4. ASSUME NEW r PROVE Stamped(r)' = Stamped(r)
  BY DEF Stamped
<1>5. ASSUME NEW q, NEW v PROVE Received(q, v)' = Received(q, v)
  BY DEF Received
<1> QED BY <1>1, <1>2, <1>3, <1>4, <1>5

\* What adapt gets is a chat, or what the server makes of one.
LEMMA ReceivedChat ==
    ASSUME conf.pre \notin Getters, NEW r \in Requests, NEW v
    PROVE  Received(r, v) \in Servable
BY DEF Received, Requests, Servable

\* A thread that stays where it is; the shared content may be of another chat.
LEMMA Waiting ==
    ASSUME NEW u \in Threads, Step(u), conf' = conf,
           pc'[u] = pc[u], asked'[u] = asked[u], given'[u] = given[u], req'[u] = req[u],
           text'[u] = text[u], out'[u] = out[u],
           \/ content' = content
           \/ conf.pre = "summarization" => content' \in Servable /\ Shared(u)
    PROVE  Step(u)'
<1>1. Received(asked[u], given[u])' = Received(asked[u], given[u])
  BY DEF Received
<1>2. TextFits(u) => TextFits(u)'
  <2>1. OwnText(req[u])' = OwnText(req'[u])
    BY SameConf
  <2> QED BY SameConf DEF TextFits, Shared
<1>3. Shared(u)' = Shared(u)
  BY DEF Shared
<1>4. \A r : Embedding(r)' = Embedding(r)
  BY SameConf
<1> QED BY <1>1, <1>2, <1>3, <1>4 DEF Step

\* What a step of thread t has to show.
LEMMA Moves ==
    ASSUME PipeInv, NEW t \in Threads, conf' = conf, clock' = clock,
           NEW l \in Labels,
           pc' = [pc EXCEPT ![t] = l],
           DOMAIN out' = Threads, DOMAIN req' = Threads, DOMAIN asked' = Threads,
           DOMAIN text' = Threads, DOMAIN skip' = Threads, DOMAIN given' = Threads,
           \A u \in Threads \ {t} :
               /\ asked'[u] = asked[u] /\ req'[u] = req[u] /\ text'[u] = text[u]
               /\ out'[u] = out[u] /\ skip'[u] = skip[u] /\ given'[u] = given[u],
           asked'[t] \in Requests, given'[t] \in CacheSkips, skip'[t] \in BOOLEAN,
           out'[t].kind \in {"none", "model", "error", "row"},
           content' = content \/ (conf.pre = "summarization" => content' \in Servable),
           n' \in 0..MaxRequests, IsFiniteSet(rows'),
           \A r \in rows' : r.saved \in 0..clock /\ r.at = Stamped(r.saved),
           Step(t)'
    PROVE  PipeInv'
<1>1. TypeOK /\ DOMAIN pc = Threads /\ \A u \in Threads : Step(u)
  BY DEF PipeInv
<1>2. pc'[t] = l /\ (\A u \in Threads \ {t} : pc'[u] = pc[u]) /\ DOMAIN pc' = Threads
  BY <1>1
<1>3. \A u \in Threads : Step(u)'
  <2>1. ASSUME NEW u \in Threads, u # t PROVE Step(u)'
    <3>1. Shared(u)
      BY <2>1 DEF Shared
    <3>2. u \in Threads \ {t} /\ Step(u)
      BY <1>1, <2>1
    <3>3. /\ pc'[u] = pc[u] /\ asked'[u] = asked[u] /\ req'[u] = req[u]
          /\ text'[u] = text[u] /\ out'[u] = out[u] /\ given'[u] = given[u]
      BY <1>2, <3>2
    <3> QED BY <3>1, <3>2, <3>3, Waiting
  <2> QED BY <2>1
<1>4. pc' \in [Threads -> Labels]
  BY <1>1 DEF TypeOK
<1>5. /\ \A u \in Threads : asked'[u] \in Requests /\ given'[u] \in CacheSkips
      /\ \A u \in Threads : out'[u].kind \in {"none", "model", "error", "row"}
  BY <1>1 DEF TypeOK
<1>6. \A u \in Threads : skip'[u] \in BOOLEAN
  BY <1>1, Zenon DEF TypeOK
<1>7. conf.pre = "summarization" => content' = <<>> \/ content' \in Servable
  BY <1>1 DEF TypeOK, Servable
<1>8. TypeOK'
  BY <1>1, <1>4, <1>5, <1>6, <1>7, SameConf DEF TypeOK, Servable
<1> QED BY <1>2, <1>3, <1>8 DEF PipeInv

LEMMA ArriveKeeps ==
    ASSUME PipeInv, NEW t \in Threads, NEW r \in Requests, NEW v \in CacheSkips, Arrive(t, r, v)
    PROVE  PipeInv'
<1>1. TypeOK /\ IsFiniteSet(rows) /\ DOMAIN pc = Threads /\ DOMAIN out = Threads
      /\ DOMAIN req = Threads /\ DOMAIN asked = Threads /\ DOMAIN text = Threads
      /\ DOMAIN skip = Threads /\ DOMAIN given = Threads
  BY DEF PipeInv
<1> DEFINE l == IF conf.pre \in Contexts THEN "format" ELSE "pre"
<1>2. /\ n < MaxRequests /\ n' = n + 1 /\ asked' = [asked EXCEPT ![t] = r]
      /\ given' = [given EXCEPT ![t] = v]
      /\ req' = [req EXCEPT ![t] = Received(r, v)]
      /\ pc' = [pc EXCEPT ![t] = l] /\ out' = [out EXCEPT ![t] = Out("none", NoRow)]
      /\ UNCHANGED <<conf, content, rows, clock, text>>
  BY DEF Arrive
<1>3. skip' = [skip EXCEPT ![t] = Skips(r, v)] /\ Skips(r, v) \in BOOLEAN
  BY DEF Arrive, Skips
<1>4. DOMAIN skip' = Threads /\ (\A u \in Threads \ {t} : skip'[u] = skip[u])
      /\ skip'[t] \in BOOLEAN
  BY <1>1, <1>3, Zenon
<1>5. asked'[t] = r /\ given'[t] = v /\ out'[t].kind = "none" /\ pc'[t] = l
      /\ req'[t] = Received(r, v)
  BY <1>1, <1>2 DEF Out
<1>6. Step(t)'
  <2>1. req'[t] = (Received(asked[t], given[t]))'
    BY <1>2, <1>5, SameConf
  <2> QED BY <1>2, <1>5, <2>1 DEF Step
<1>7. n' \in 0..MaxRequests
  BY <1>1, <1>2, BoundsAssumption DEF TypeOK
<1>8. \A s \in rows' : s.saved \in 0..clock /\ s.at = Stamped(s.saved)
  BY <1>1, <1>2 DEF TypeOK
<1>9. /\ DOMAIN out' = Threads /\ DOMAIN req' = Threads /\ DOMAIN asked' = Threads
      /\ DOMAIN text' = Threads /\ DOMAIN given' = Threads
      /\ \A u \in Threads \ {t} :
            /\ asked'[u] = asked[u] /\ req'[u] = req[u] /\ text'[u] = text[u]
            /\ out'[u] = out[u] /\ given'[u] = given[u]
  BY <1>1, <1>2
<1> HIDE DEF l
<1>10. l \in Labels
  BY DEF l, Labels
<1> QED BY <1>1, <1>2, <1>4, <1>5, <1>6, <1>7, <1>8, <1>9, <1>10, Moves

\* Format, Process, Serialize and Pre: the text comes from the request, or from
\* what the context has in the meantime.
LEMMA TextKeeps ==
    ASSUME PipeInv, NEW t \in Threads, Format(t) \/ Process(t) \/ Serialize(t) \/ Pre(t)
    PROVE  PipeInv'
<1>1. TypeOK /\ IsFiniteSet(rows) /\ DOMAIN pc = Threads /\ DOMAIN out = Threads
      /\ DOMAIN req = Threads /\ DOMAIN asked = Threads /\ DOMAIN text = Threads
      /\ DOMAIN skip = Threads /\ DOMAIN given = Threads /\ Step(t)
  BY DEF PipeInv
<1>2. /\ n \in 0..MaxRequests /\ asked[t] \in Requests /\ skip[t] \in BOOLEAN
      /\ given[t] \in CacheSkips /\ out[t].kind \in {"none", "model", "error", "row"}
      /\ \A r \in rows : r.saved \in 0..clock /\ r.at = Stamped(r.saved)
  BY <1>1 DEF TypeOK
<1>3. UNCHANGED <<conf, rows, clock, n, asked, given, req, skip, out>>
  BY DEF Format, Process, Serialize, Pre
<1>4. /\ pc[t] # "idle" /\ req[t] = Received(asked[t], given[t]) /\ out[t].kind # "row"
      /\ Received(asked[t], given[t])' = Received(asked[t], given[t])
  BY <1>1, <1>3 DEF Format, Process, Serialize, Pre, Step, Received
<1>5. CASE Format(t)
  <2>1. content' = Formatted(req[t]) /\ pc' = [pc EXCEPT ![t] = "process"] /\ text' = text
        /\ pc[t] = "format" /\ "process" \in Labels
    BY <1>5 DEF Format, Goto, Labels
  <2>2. conf.pre \in Contexts
    BY <1>1, <2>1 DEF Step
  <2>3. conf.pre = "summarization" => content' = req[t] /\ content' \in Servable
    BY <1>2, <1>4, <2>1, ReceivedChat DEF Formatted, Getters
  <2>4. Step(t)'
    BY <1>1, <1>3, <1>4, <2>1, <2>2, <2>3 DEF Step, Servable, Shared
  <2> QED BY <1>1, <1>2, <1>3, <2>1, <2>3, <2>4, Moves
<1>6. CASE Process(t)
  <2> DEFINE l == IF NeverShort(content) THEN "summarizing" ELSE "serialize"
  <2>1. /\ content' = content /\ pc' = [pc EXCEPT ![t] = l] /\ pc[t] = "process"
        /\ text' = [text EXCEPT ![t] =
                        IF conf.pre = "concat" THEN [NoText EXCEPT !.store = Dialogue(content)]
                        ELSE [NoText EXCEPT !.embed = Embedded(content)]]
    BY <1>6 DEF Process, Goto
  <2>2. conf.pre \in Contexts
    BY <1>1, <2>1 DEF Step
  <2>3. /\ DOMAIN text' = Threads /\ \A u \in Threads \ {t} : text'[u] = text[u]
        /\ conf.pre # "concat" => text'[t] = [NoText EXCEPT !.embed = Embedded(content)]
    BY <1>1, <2>1
  <2>4. conf.pre = "summarization" => text'[t] = Embedding(content)
    BY <2>2, <2>3 DEF Embedding, OwnText, Processed
  <2> HIDE DEF l
  <2>5. l \in Labels /\ l \in {"summarizing", "serialize"}
    BY DEF l, Labels
  <2>6. pc'[t] = l
    BY <1>1, <2>1
  <2>7. conf.pre = "summarization" =>
           /\ content \in Servable /\ (content = req[t] \/ Shared(t))
           /\ text'[t] = Embedding(content)'
    BY <1>1, <1>3, <2>1, <2>4, SameConf DEF Step
  <2>8. Step(t)'
    BY <1>3, <1>4, <2>1, <2>2, <2>5, <2>6, <2>7 DEF Step, Servable, Shared
  <2> QED BY <1>1, <1>2, <1>3, <2>1, <2>3, <2>5, <2>8, Moves
<1>7. CASE Serialize(t)
  <2>1. /\ content' = content /\ pc' = [pc EXCEPT ![t] = "search"] /\ pc[t] = "serialize"
        /\ text' = [text EXCEPT ![t] =
                        IF conf.pre = "concat" THEN [@ EXCEPT !.embed = Embedded(content)]
                        ELSE [@ EXCEPT !.store = Dialogue(content)]]
        /\ "search" \in Labels
    BY <1>7 DEF Serialize, Goto, Labels
  <2>2. conf.pre \in Contexts
    BY <1>1, <2>1 DEF Step
  <2>3. /\ DOMAIN text' = Threads /\ \A u \in Threads \ {t} : text'[u] = text[u]
        /\ conf.pre # "concat" => text'[t] = [text[t] EXCEPT !.store = Dialogue(content)]
    BY <1>1, <2>1
  <2>4. \A r : OwnText(r) = [store |-> Dialogue(r), embed |-> Embedded(r)]
    BY <2>2 DEF OwnText, Processed
  <2>5. conf.pre \notin {"concat", "selective"} =>
            \/ text'[t] = OwnText(req[t])
            \/ /\ conf.pre = "summarization" /\ Shared(t)
               /\ \E q, r \in Servable :
                     text'[t] = [store |-> OwnText(q).store, embed |-> OwnText(r).embed]
    <3>1. SUFFICES ASSUME conf.pre \notin {"concat", "selective"}
                   PROVE  \/ text'[t] = OwnText(req[t])
                          \/ /\ conf.pre = "summarization" /\ Shared(t)
                             /\ \E q, r \in Servable :
                                   text'[t] = [store |-> OwnText(q).store, embed |-> OwnText(r).embed]
      OBVIOUS
    <3>2. conf.pre = "summarization"
      BY <2>2, <3>1 DEF Contexts
    <3>3. content \in Servable /\ (content = req[t] \/ Shared(t))
      BY <1>1, <2>1, <3>2 DEF Step
    <3>4. PICK r \in Servable : text[t] = Embedding(r) /\ (r = req[t] \/ Shared(t))
      BY <1>1, <2>1, <3>2 DEF Step
    <3>5. text'[t] = [store |-> OwnText(content).store, embed |-> OwnText(r).embed]
      BY <2>3, <2>4, <3>2, <3>4 DEF Embedding, NoText
    <3>6. CASE Shared(t)
      BY <3>2, <3>3, <3>5, <3>6
    <3>7. CASE ~Shared(t)
      <4>1. content = req[t] /\ r = req[t]
        BY <3>3, <3>4, <3>7
      <4> QED BY <2>4, <3>5, <4>1
    <3> QED BY <3>6, <3>7
  <2>6. conf.pre \notin {"concat", "selective"} => TextFits(t)'
    <3>1. OwnText(req[t])' = OwnText(req[t]) /\ Shared(t)' = Shared(t)
      BY <1>3, SameConf DEF Shared
    <3> QED BY <1>3, <2>5, <3>1, SameConf DEF TextFits, Servable
  <2>7. Step(t)'
    BY <1>1, <1>3, <1>4, <2>1, <2>6 DEF Step
  <2> QED BY <1>1, <1>2, <1>3, <2>1, <2>3, <2>7, Moves
<1>8. CASE Pre(t)
  <2>1. /\ content' = content /\ pc' = [pc EXCEPT ![t] = "search"] /\ pc[t] = "pre"
        /\ text' = [text EXCEPT ![t] = Text(conf.pre, req[t])] /\ "search" \in Labels
    BY <1>8 DEF Pre, Goto, Labels
  <2>2. conf.pre \notin Contexts
    BY <1>1, <2>1 DEF Step
  <2>3. /\ text'[t] = Text(conf.pre, req[t]) /\ DOMAIN text' = Threads
        /\ \A u \in Threads \ {t} : text'[u] = text[u]
    BY <1>1, <2>1
  <2>4. text'[t] = OwnText(req[t])
    BY <2>2, <2>3 DEF OwnText
  <2>5. TextFits(t)'
    <3>1. OwnText(req[t])' = OwnText(req[t])
      BY <1>3, SameConf
    <3> QED BY <2>4, <3>1 DEF TextFits
  <2>6. Step(t)'
    BY <1>1, <1>3, <1>4, <2>1, <2>5 DEF Step
  <2> QED BY <1>1, <1>2, <1>3, <2>1, <2>3, <2>6, Moves
<1> QED BY <1>5, <1>6, <1>7, <1>8

\* The steps after that keep the text.
LEMMA AnswerKeeps ==
    ASSUME PipeInv, NEW t \in Threads,
           PreRaises(t) \/ Answer(t) \/ Miss(t) \/ EvaluationRaises(t) \/ Save(t)
    PROVE  PipeInv'
<1>1. TypeOK /\ IsFiniteSet(rows) /\ DOMAIN pc = Threads /\ DOMAIN out = Threads
      /\ DOMAIN req = Threads /\ DOMAIN asked = Threads /\ DOMAIN text = Threads
      /\ DOMAIN skip = Threads /\ DOMAIN given = Threads /\ Step(t)
  BY DEF PipeInv
<1>2. /\ n \in 0..MaxRequests /\ asked[t] \in Requests /\ skip[t] \in BOOLEAN
      /\ out[t].kind \in {"none", "model", "error", "row"} /\ clock \in Nat
      /\ given[t] \in CacheSkips
      /\ \A r \in rows : r.saved \in 0..clock /\ r.at = Stamped(r.saved)
  BY <1>1, BoundsAssumption DEF TypeOK
<1>3. UNCHANGED <<conf, content, clock, n, asked, given, req, skip, text>>
  BY DEF PreRaises, Answer, Miss, EvaluationRaises, Save
<1>4. CASE Miss(t)
  <2>1. pc' = [pc EXCEPT ![t] = "save"] /\ pc[t] = "search" /\ UNCHANGED <<rows, out>>
        /\ "save" \in Labels
    BY <1>4 DEF Miss, Goto, Labels
  <2>2. TextFits(t) => TextFits(t)'
    <3>1. OwnText(req[t])' = OwnText(req[t]) /\ Shared(t)' = Shared(t)
      BY <1>3, SameConf DEF Shared
    <3> QED BY <1>3, <3>1, SameConf DEF TextFits, Servable
  <2>3. Received(asked[t], given[t])' = Received(asked[t], given[t])
    BY <1>3 DEF Received
  <2>4. Step(t)'
    BY <1>1, <1>3, <2>1, <2>2, <2>3 DEF Step
  <2> QED BY <1>1, <1>2, <1>3, <2>1, <2>4, Moves
<1>5. CASE PreRaises(t) \/ Answer(t) \/ EvaluationRaises(t) \/ Save(t)
  <2>1. \E kind \in {"row", "error", "model"} : \E row :
            out' = [out EXCEPT ![t] = Out(kind, row)]
    BY <1>5 DEF PreRaises, Answer, EvaluationRaises, Save
  <2>2. pc' = [pc EXCEPT ![t] = "idle"] /\ "idle" \in Labels
    BY <1>5 DEF PreRaises, Answer, EvaluationRaises, Save, Goto, Labels
  <2>3. /\ out'[t].kind \in {"none", "model", "error", "row"} /\ DOMAIN out' = Threads
        /\ \A u \in Threads \ {t} : out'[u] = out[u]
    BY <1>1, <2>1 DEF Out
  <2>4. IsFiniteSet(rows')
        /\ \A r \in rows' : r.saved \in 0..clock /\ r.at = Stamped(r.saved)
    <3>1. CASE rows' = rows
      BY <1>1, <1>2, <3>1
    <3>2. CASE rows' # rows
      <4>1. rows' = rows \cup {Row(text[t], req[t], clock)}
        BY <1>5, <3>2 DEF PreRaises, Answer, EvaluationRaises, Save
      <4>2. /\ Row(text[t], req[t], clock).saved = clock
            /\ Row(text[t], req[t], clock).at = Stamped(clock)
        BY DEF Row
      <4>3. IsFiniteSet(rows')
        BY <1>1, <4>1, FS_AddElement
      <4> QED BY <1>2, <4>1, <4>2, <4>3
    <3> QED BY <3>1, <3>2
  <2>5. Step(t)'
    BY <1>1, <2>2 DEF Step
  <2> QED BY <1>1, <1>2, <1>3, <2>2, <2>3, <2>4, <2>5, Moves
<1> QED BY <1>4, <1>5

LEMMA PipeInit == Init => PipeInv
<1> SUFFICES ASSUME Init PROVE PipeInv
  OBVIOUS
<1>1. Requests # {}
  BY RequestsAssumption DEF Requests
<1>2. /\ conf \in Configs /\ content = <<>> /\ rows = {} /\ clock = 0 /\ n = 0
      /\ pc = [t \in Threads |-> "idle"] /\ asked = [t \in Threads |-> CHOOSE r \in Requests : TRUE]
      /\ given = [t \in Threads |-> "false"]
      /\ req = asked /\ text = [t \in Threads |-> NoText]
      /\ out = [t \in Threads |-> Out("none", NoRow)]
  BY DEF Init
<1>3. \A t \in Threads : skip[t] \in BOOLEAN
  BY Zenon DEF Init
<1>4. DOMAIN skip = Threads
  BY DEF Init
<1>5. \A t \in Threads : asked[t] \in Requests
  BY <1>1, <1>2
<1>6. TypeOK
  BY <1>2, <1>3, <1>5, BoundsAssumption DEF TypeOK, Out, Labels, CacheSkips
<1>7. IsFiniteSet(rows)
  BY <1>2, FS_EmptySet
<1>8. \A t \in Threads : Step(t)
  BY <1>2 DEF Step
<1> QED BY <1>2, <1>4, <1>6, <1>7, <1>8 DEF PipeInv

LEMMA PipeNext == PipeInv /\ [Next]_vars => PipeInv'
<1> SUFFICES ASSUME PipeInv, [Next]_vars PROVE PipeInv'
  OBVIOUS
<1>1. ASSUME NEW t \in Threads, NEW r \in Requests, NEW v \in CacheSkips, Arrive(t, r, v)
      PROVE  PipeInv'
  BY <1>1, ArriveKeeps
<1>2. ASSUME NEW t \in Threads, Format(t) \/ Process(t) \/ Serialize(t) \/ Pre(t)
      PROVE  PipeInv'
  BY <1>2, TextKeeps
<1>3. ASSUME NEW t \in Threads,
             PreRaises(t) \/ Answer(t) \/ Miss(t) \/ EvaluationRaises(t) \/ Save(t)
      PROVE  PipeInv'
  BY <1>3, AnswerKeeps
<1>4. ASSUME UNCHANGED <<conf, content, rows, n, pc, asked, given, req, skip, text, out>>,
             clock' \in 0..MaxClock, clock' \in clock..(clock + 1)
      PROVE  PipeInv'
  <2>1. TypeOK /\ \A t \in Threads : Step(t)
    BY DEF PipeInv
  <2>2. \A r \in rows' : r.saved \in 0..clock' /\ r.at = Stamped(r.saved)'
    BY <1>4, <2>1, SameConf, BoundsAssumption DEF TypeOK
  <2>3. \A t \in Threads : Step(t)'
    <3>1. ASSUME NEW u \in Threads PROVE Step(u)'
      BY <1>4, <2>1, Waiting
    <3> QED BY <3>1
  <2>4. \A t \in Threads : skip'[t] \in BOOLEAN
    <3>1. skip' = skip /\ \A t \in Threads : skip[t] \in BOOLEAN
      BY <1>4, <2>1, Zenon DEF TypeOK
    <3> QED BY <3>1, Zenon
  <2>5. TypeOK'
    BY <1>4, <2>1, <2>2, <2>4, SameConf DEF TypeOK
  <2> QED BY <1>4, <2>3, <2>5 DEF PipeInv
<1>5. CASE UNCHANGED vars
  <2>1. UNCHANGED <<conf, content, rows, n, pc, asked, given, req, skip, text, out, clock>>
    BY <1>5 DEF vars
  <2>2. clock \in 0..MaxClock /\ clock \in clock..(clock + 1)
    BY BoundsAssumption DEF PipeInv, TypeOK
  <2> QED BY <1>4, <2>1, <2>2
<1>6. CASE Tick
  <2>1. clock \in 0..MaxClock /\ MaxClock \in Nat
    BY BoundsAssumption DEF PipeInv, TypeOK
  <2> QED BY <1>4, <1>6, <2>1 DEF Tick
<1> QED BY <1>1, <1>2, <1>3, <1>5, <1>6 DEF Next, Summarizing, Done

\* Types, and what a running request knows of its own text.
THEOREM PipelineCorrect == Spec => []PipeInv
BY PipeInit, PipeNext, PTL DEF Spec

-----------------------------------------------------------------------------
(* The text, and the marker.                                               *)

LEMMA TwoThreads ==
    ASSUME NEW t \in Threads, NEW u \in Threads, t # u
    PROVE  Cardinality(Threads) > 1
<1>1. IsFiniteSet(Threads) /\ IsFiniteSet({t}) /\ Cardinality({t}) = 1
  BY RequestsAssumption, FS_Singleton
<1>2. IsFiniteSet({t} \cup {u}) /\ Cardinality({t} \cup {u}) = 2
  BY <1>1, FS_AddElement
<1>3. {t} \cup {u} \subseteq Threads
  OBVIOUS
<1>4. Cardinality({t} \cup {u}) <= Cardinality(Threads) /\ Cardinality(Threads) \in Nat
  BY <1>1, <1>3, FS_Subset, FS_CardinalityType
<1> QED BY <1>2, <1>4

\* A request is given its own text, unless another thread shares its
\* SummarizationContextProcess; then the text that is saved and the one that is
\* searched for are each made of the messages of one request.
THEOREM TextCorrect == Spec => []TextOfOneRequest
<1>1. PipeInv => TextOfOneRequest
  <2> SUFFICES ASSUME PipeInv PROVE TextOfOneRequest
    OBVIOUS
  <2>1. ASSUME NEW t \in Threads, pc[t] = "search", conf.pre \notin {"concat", "selective"}
        PROVE  \/ text[t] = OwnText(req[t])
               \/ /\ conf.pre = "summarization" /\ Cardinality(Threads) > 1
                  /\ \E q, r \in Servable :
                        text[t] = [store |-> OwnText(q).store, embed |-> OwnText(r).embed]
    <3>1. TextFits(t)
      BY <2>1 DEF PipeInv, Step
    <3>2. Shared(t) => Cardinality(Threads) > 1
      BY TwoThreads DEF Shared
    <3> QED BY <3>1, <3>2 DEF TextFits
  <2> QED BY <2>1 DEF TextOfOneRequest, PipeInv
<1> QED BY <1>1, PipelineCorrect, PTL

\* A nonempty set of numbers has a smallest.
LEMMA Least ==
    ASSUME NEW T \in SUBSET Nat, T # {}
    PROVE  \E m \in T : \A k \in T : m <= k
<1> DEFINE Less == {p \in Nat \X Nat : p[1] < p[2]}
<1>1. IsWellFoundedOn(Less, Nat)
  BY NatLessThanWellFounded DEF OpToRel
<1>2. PICK m \in T : \A k \in T : <<k, m>> \notin Less
  <2> HIDE DEF Less
  <2> QED BY <1>1, WFMin
<1>3. \A k \in T : ~(k < m)
  BY <1>2
<1> QED BY <1>3

\* Of positions up to n, there is one where the k-th of them is.
LEMMA Enumerated ==
    ASSUME NEW n0 \in Nat, NEW S \in SUBSET (1..n0), NEW k \in 1..Cardinality(S)
    PROVE  \E i \in S : Cardinality({j \in S : j <= i}) = k
<1> DEFINE Below(i) == {j \in S : j <= i}
           T == {i \in 1..n0 : Cardinality(Below(i)) >= k}
<1>0. /\ \A j \in 1..n0 : j \in Nat /\ j >= 1 /\ j <= n0
      /\ \A j \in S : j \in 1..n0 /\ j \in Nat /\ j >= 1 /\ j <= n0
  OBVIOUS
<1>1. IsFiniteSet(1..n0) /\ IsFiniteSet(S) /\ Cardinality(S) \in Nat
      /\ k \in Nat /\ k >= 1 /\ k <= Cardinality(S)
  <2>1. IsFiniteSet(1..n0)
    BY FS_Interval
  <2>2. IsFiniteSet(S)
    BY <2>1, FS_Subset
  <2>3. Cardinality(S) \in Nat
    BY <2>2, FS_CardinalityType
  <2> QED BY <2>1, <2>2, <2>3
<1>2. \A i : IsFiniteSet(Below(i)) /\ Cardinality(Below(i)) \in Nat
  <2>1. ASSUME NEW i PROVE IsFiniteSet(Below(i)) /\ Cardinality(Below(i)) \in Nat
    <3>1. Below(i) \subseteq S
      OBVIOUS
    <3> HIDE DEF Below
    <3>2. IsFiniteSet(Below(i))
      BY <1>1, <3>1, FS_Subset
    <3> QED BY <3>2, FS_CardinalityType
  <2> QED BY <2>1
<1>3. n0 \in T
  <2>1. Below(n0) = S
    BY <1>0
  <2>2. S # {}
    <3>1. ASSUME S = {} PROVE Cardinality(S) = 0
      BY <3>1, FS_EmptySet
    <3>2. Cardinality(S) # 0
      BY <1>1
    <3> QED BY <3>1, <3>2
  <2>3. n0 \in 1..n0
    <3>1. PICK j \in S : TRUE
      BY <2>2
    <3> QED BY <1>0, <3>1
  <2> HIDE DEF Below
  <2> QED BY <1>1, <2>1, <2>3
<1>4. T \in SUBSET Nat /\ T # {}
  <2> HIDE DEF Below
  <2> QED BY <1>0, <1>3
<1>5. PICK m \in T : \A i \in T : m <= i
  <2> HIDE DEF T
  <2> QED BY <1>4, Least
<1>6. m \in 1..n0 /\ Cardinality(Below(m)) >= k /\ m \in Nat /\ m - 1 \in Nat
  <2> HIDE DEF Below
  <2>1. m \in 1..n0 /\ Cardinality(Below(m)) >= k
    BY <1>5
  <2> QED BY <1>0, <2>1
<1>7. Cardinality(Below(m - 1)) < k
  <2>1. CASE m - 1 \in 1..n0
    <3> HIDE DEF Below
    <3>1. m - 1 \notin T
      <4> HIDE DEF T
      <4> QED BY <1>5, <1>6
    <3>2. ~(Cardinality(Below(m - 1)) >= k)
      BY <2>1, <3>1
    <3> HIDE DEF T
    <3> QED BY <1>1, <1>2, <3>2
  <2>2. CASE m - 1 \notin 1..n0
    <3>1. m = 1
      BY <1>6, <2>2
    <3>2. \A j \in S : ~(j <= m - 1)
      BY <1>0, <3>1
    <3>3. Below(m - 1) = {}
      BY <3>2
    <3>4. Cardinality(Below(m - 1)) = 0
      BY <3>3, FS_EmptySet
    <3> QED BY <1>1, <3>4
  <2> QED BY <2>1, <2>2
<1>8. m \in S
  <2>1. ASSUME m \notin S PROVE Below(m) = Below(m - 1)
    <3>1. \A j \in S : j <= m <=> j <= m - 1
      BY <1>0, <1>6, <2>1
    <3> QED BY <3>1
  <2> HIDE DEF Below, T
  <2> QED BY <1>1, <1>2, <1>6, <1>7, <2>1
<1>9. Below(m) = Below(m - 1) \cup {m} /\ m \notin Below(m - 1)
  <2>1. \A j \in S : j <= m <=> (j <= m - 1 \/ j = m)
    BY <1>0, <1>6
  <2>2. ~(m <= m - 1)
    BY <1>6
  <2> QED BY <1>8, <2>1, <2>2
<1> HIDE DEF Below
<1>10. Cardinality(Below(m)) = Cardinality(Below(m - 1)) + 1
  BY <1>2, <1>9, FS_AddElement
<1>11. Cardinality(Below(m)) = k
  BY <1>1, <1>2, <1>6, <1>7, <1>10
<1> QED BY <1>8, <1>11 DEF Below

\* What str.replace leaves are words of the text, but not the replaced ones.
LEMMA WithoutWords ==
    ASSUME NEW s \in Seq(STRING), NEW words
    PROVE  \A k \in DOMAIN Without(s, words) : Without(s, words)[k] \notin words
<1> DEFINE others == {i \in DOMAIN s : s[i] \notin words}
           From(k) == CHOOSE i \in others : Cardinality({j \in others : j <= i}) = k
<1>1. Len(s) \in Nat /\ others \in SUBSET (1..Len(s))
  OBVIOUS
<1>2. ASSUME NEW k \in 1..Cardinality(others) PROVE From(k) \in others
  <2>1. \E i \in others : Cardinality({j \in others : j <= i}) = k
    <3> HIDE DEF others
    <3> QED BY <1>1, Enumerated
  <2> QED BY <2>1
<1>3. \A k \in 1..Cardinality(others) : s[From(k)] \notin words
  BY <1>2
<1>4. Without(s, words) = [k \in 1..Cardinality(others) |-> s[From(k)]]
  BY DEF Without, Subsequence
<1> HIDE DEF others, From
<1> QED BY <1>3, <1>4

\* The marker is taken from the last message, if it is only there or only the
\* first message has it.
LEMMA MarkerTaken ==
    ASSUME NEW r \in Chats, Len(r) = 1 \/ ~IsMarked(Head(r)) \/ ~IsMarked(Last(r))
    PROVE  Marker \notin ToSet(Content(Stripped(r)))
<1>1. r \in Seq(Message) /\ r # <<>>
  BY RequestsAssumption
<1>2. /\ Len(r) \in Nat \ {0} /\ DOMAIN r = 1..Len(r) /\ Head(r) = r[1]
      /\ 1 \in DOMAIN r /\ Len(r) \in DOMAIN r
      /\ r[1] \in Message /\ r[Len(r)] \in Message
  <2>1. Len(r) \in Nat /\ DOMAIN r = 1..Len(r) /\ Len(r) # 0
    BY <1>1
  <2> QED BY <1>1, <2>1
<1>3. ASSUME NEW m \in Message PROVE Marker \notin ToSet(Unmarked(m).content)
  <2>1. m.content \in Seq(STRING)
    BY DEF Message
  <2>2. Unmarked(m).content = Without(m.content, {Marker})
    BY DEF Unmarked, Message
  <2> QED BY <2>1, <2>2, WithoutWords DEF ToSet
<1>4. \A m : ~IsMarked(m) => Marker \notin ToSet(m.content)
  BY DEF IsMarked, ToSet
<1>5. ASSUME NEW i \in DOMAIN r
      PROVE  LET s == [r EXCEPT ![i] = Unmarked(r[i])]
             IN  Content(s) = IF i = Len(r) THEN Unmarked(r[i]).content ELSE r[Len(r)].content
  <2> DEFINE s == [r EXCEPT ![i] = Unmarked(r[i])]
  <2>1. Unmarked(r[i]) \in {Unmarked(r[j]) : j \in DOMAIN r}
    OBVIOUS
  <2>2. DOMAIN s = 1..Len(r) /\ s[i] = Unmarked(r[i])
        /\ \A j \in DOMAIN r : j # i => s[j] = r[j]
    BY <1>2
  <2>3. Len(s) = Len(r)
    BY <1>2, <2>2
  <2> QED BY <1>2, <2>2, <2>3 DEF Content, Last
<1>6. CASE IsMarked(Head(r))
  <2>1. Content(Stripped(r)) = IF 1 = Len(r) THEN Unmarked(r[1]).content ELSE r[Len(r)].content
    BY <1>2, <1>5, <1>6 DEF Stripped
  <2>2. 1 # Len(r) => ~IsMarked(r[Len(r)])
    BY <1>6 DEF Last
  <2> QED BY <1>2, <1>3, <1>4, <2>1, <2>2
<1>7. CASE ~IsMarked(Head(r))
  <2>1. Content(Stripped(r)) = Unmarked(r[Len(r)]).content
    BY <1>2, <1>5, <1>7 DEF Stripped
  <2> QED BY <1>2, <1>3, <2>1
<1> QED BY <1>6, <1>7

\* A request that is sent to the model again because of the marker is saved
\* without it, so that it refreshes the question itself, unless its body gives
\* cache_skip or has the marker in two messages.
THEOREM MarkerCorrect == Spec => []MarkerNotSaved
<1>1. PipeInv => MarkerNotSaved
  <2> SUFFICES ASSUME PipeInv, NEW t \in Threads, pc[t] = "save", conf.pre = "last_content",
                      given[t] = "false",
                      \/ Len(asked[t]) = 1
                      \/ ~IsMarked(Head(asked[t])) \/ ~IsMarked(Last(asked[t]))
               PROVE  Marker \notin ToSet(text[t].store)
    BY DEF MarkerNotSaved
  <2>1. conf.pre \notin Getters /\ conf.pre \notin Contexts
    BY DEF Getters, Contexts
  <2>2. asked[t] \in Chats /\ req[t] = Stripped(asked[t])
    BY <2>1 DEF PipeInv, Step, Received, TypeOK, Requests
  <2>3. text[t] = OwnText(req[t])
    BY DEF PipeInv, Step, TextFits
  <2>4. OwnText(req[t]) = Both(Content(req[t]))
    BY <2>1 DEF OwnText, Text
  <2>5. text[t].store = Content(Stripped(asked[t]))
    BY <2>2, <2>3, <2>4 DEF Both
  <2> QED BY <2>2, <2>5, MarkerTaken
<1> QED BY <1>1, PipelineCorrect, PTL

-----------------------------------------------------------------------------
(* The scores.                                                             *)

\* The threshold is positive, and no score range is below it.
LEMMA Thresholds ==
    ASSUME conf \in Configs
    PROVE  /\ RankThreshold \in Nat \ {0} /\ RankThreshold <= Range100(conf.eval)
           /\ conf.eval \in Evals /\ conf.post \in Posts
           /\ Range100(conf.eval) \in {100, 200, 400}
           /\ conf.eval \in {"distance", "time", "kreciprocal", "sequence_match"} =>
                 Range100(conf.eval) = 400
           /\ conf.eval = "np" => Range100(conf.eval) = 200
           /\ conf.eval \in {"exact", "onnx"} => Range100(conf.eval) = 100
<1>1. conf.eval \in Evals /\ conf.post \in Posts
  BY ConfigsAssumption
<1>2. /\ Range100(conf.eval) \in {100, 200, 400}
      /\ conf.eval \in {"distance", "time", "kreciprocal", "sequence_match"} =>
            Range100(conf.eval) = 400
      /\ conf.eval = "np" => Range100(conf.eval) = 200
      /\ conf.eval \in {"exact", "onnx"} => Range100(conf.eval) = 100
  BY <1>1 DEF Range100, Evals, MaxDistance
<1>3. Threshold \in Nat /\ Threshold >= 1 /\ Threshold <= 100
  BY BoundsAssumption
<1>4. /\ (100 * Threshold) \div 100 = Threshold
      /\ (200 * Threshold) \div 100 = 2 * Threshold
      /\ (400 * Threshold) \div 100 = 4 * Threshold
  BY <1>3
<1>5. RankThreshold \in {Threshold, 2 * Threshold, 4 * Threshold}
      /\ RankThreshold \in Nat \ {0} /\ RankThreshold <= Range100(conf.eval)
  BY <1>2, <1>3, <1>4 DEF RankThreshold
<1> QED BY <1>1, <1>2, <1>5

\* A distance is 0 for equal texts only.
LEMMA Distances ==
    ASSUME NEW s, NEW u
    PROVE  Dist(s, u) \in 0..500 /\ (Dist(s, u) = 0 <=> s = u)
           /\ (s # u => Dist(s, u) \in {100, 200, 300, 400, 500})
<1> DEFINE D == {1} \cup {d \in 2..5 : Cardinality(Apart(s, u)) >= d}
<1>1. D \subseteq 1..5 /\ 1 \in D
  OBVIOUS
<1>2. Max(D) \in 1..5
  <2> HIDE DEF D
  <2>1. \E x \in D : \A y \in D : x >= y
    <3>1. \A y \in D : y \in {1, 2, 3, 4, 5}
      BY <1>1
    <3> QED BY <1>1, <3>1
  <2> QED BY <1>1, <2>1 DEF Max
<1>3. CASE s = u
  BY <1>3 DEF Dist
<1>4. CASE s # u
  <2>1. Dist(s, u) = 100 * Max(D)
    BY <1>4 DEF Dist
  <2> HIDE DEF D
  <2> QED BY <1>2, <1>4, <2>1
<1> QED BY <1>3, <1>4

\* A row that is too old scores less than any threshold.
LEMMA OldScores ==
    ASSUME conf \in Configs, conf.eval = "time", NEW q, NEW row,
           clock - row.at > TimeRange
    PROVE  ~(Score(q, row) >= RankThreshold)
<1>1. Score(q, row) = 0
  BY DEF Score, Timed
<1> QED BY <1>1, Thresholds

\* A request with TimeEvaluation is never answered from a row older than its
\* time_range, and what UTC is ahead of local time where the store writes UTC:
\* the threshold alone keeps such rows out.
THEOREM FreshCorrect == Spec => FreshAnswers
<1>1. ASSUME PipeInv, [Next]_vars, NEW t \in Threads,
             conf.eval = "time", pc[t] = "search", out'[t].kind = "row"
      PROVE  clock - out'[t].row.saved <= TimeRange + Ahead
  <2>1. conf \in Configs /\ out[t].kind # "row" /\ DOMAIN out = Threads
        /\ clock \in Nat /\ TimeRange \in Nat /\ UtcAhead \in Int
        /\ \A r \in rows : r.saved \in 0..clock /\ r.at = Stamped(r.saved)
    BY <1>1, BoundsAssumption DEF PipeInv, TypeOK, Step
  <2>2. Answer(t)
    <3>1. out'[t] # out[t]
      BY <1>1, <2>1
    <3>2. /\ \A u \in Threads, r \in Requests, v \in CacheSkips :
                ~Arrive(t, r, v) /\ (u # t => ~Arrive(u, r, v))
          /\ \A u \in Threads : ~Format(u) /\ ~Process(u) /\ ~Serialize(u) /\ ~Summarizing(u)
                                  /\ ~Pre(u) /\ ~Miss(u)
          /\ ~Tick /\ ~Done /\ ~UNCHANGED vars
      BY <1>1, <2>1, <3>1 DEF Arrive, Format, Process, Serialize, Summarizing, Pre, Miss,
                                 Tick, Done, vars
    <3>3. \A u \in Threads : u # t =>
             ~PreRaises(u) /\ ~Answer(u) /\ ~EvaluationRaises(u) /\ ~Save(u)
      BY <2>1, <3>1 DEF PreRaises, Answer, EvaluationRaises, Save
    <3>4. ~PreRaises(t) /\ ~Save(t)
      BY <1>1 DEF PreRaises, Save
    <3>5. ~EvaluationRaises(t)
      BY <1>1, <2>1 DEF EvaluationRaises, Out
    <3> QED BY <1>1, <3>2, <3>3, <3>4, <3>5 DEF Next
  <2>3. PICK found \in Nearest(text[t]) :
            \E r \in Picked(conf.post, text[t], Accepted(text[t], found)) :
               out' = [out EXCEPT ![t] = Out("row", r)]
    BY <2>2 DEF Answer
  <2>4. PICK r \in Picked(conf.post, text[t], Accepted(text[t], found)) :
            out' = [out EXCEPT ![t] = Out("row", r)]
    BY <2>3
  <2>5. out'[t].row = r
    BY <2>1, <2>4 DEF Out
  <2>6. r \in Accepted(text[t], found)
    BY <2>1, <2>4, Thresholds DEF Picked, Posts
  <2>7. Score(text[t], r) >= RankThreshold /\ r \in rows
    BY <2>3, <2>6 DEF Accepted, Nearest
  <2>8. ~(clock - r.at > TimeRange)
    BY <1>1, <2>1, <2>7, OldScores
  <2>9. /\ r.saved \in Nat /\ r.saved <= clock /\ conf.stamp \in Stamps
        /\ r.at = Stamped(r.saved)
    BY <2>1, <2>7, ConfigsAssumption
  <2>10. clock - r.saved <= TimeRange + Ahead
    <3>1. CASE conf.stamp = "local"
      BY <2>1, <2>8, <2>9, <3>1 DEF Stamped, Ahead
    <3>2. CASE conf.stamp = "utc"
      BY <2>1, <2>8, <2>9, <3>2 DEF Stamped, Ahead
    <3>3. CASE conf.stamp = "built"
      BY <2>1, <2>8, <2>9, <3>3 DEF Stamped, Ahead
    <3> QED BY <2>9, <3>1, <3>2, <3>3 DEF Stamps
  <2> QED BY <2>5, <2>10
<1>2. PipeInv /\ [Next]_vars =>
        [\A t \in Threads :
          conf.eval = "time" /\ pc[t] = "search" /\ out'[t].kind = "row" =>
              clock - out'[t].row.saved <= TimeRange + Ahead]_vars
  BY <1>1
<1> QED BY <1>2, PipelineCorrect, PTL DEF Spec, FreshAnswers

-----------------------------------------------------------------------------
(* A repeated text.                                                        *)

\* If a row has the text's embedding, one that is found has.
LEMMA SameFound ==
    ASSUME IsFiniteSet(rows), NEW q, NEW r0 \in rows, r0.embed = q.embed,
           NEW found \in Nearest(q)
    PROVE  \E r \in found : r.embed = q.embed
<1>1. found \subseteq rows /\ Cardinality(found) = AtMost(Cardinality(rows), TopK)
      /\ \A r \in found : \A other \in rows \ found :
            Dist(q.embed, r.embed) <= Dist(q.embed, other.embed)
  BY DEF Nearest
<1>2. Cardinality(rows) \in Nat \ {0}
  <2>1. Cardinality(rows) \in Nat
    BY FS_CardinalityType
  <2>2. Cardinality(rows) # 0
    BY FS_EmptySet
  <2> QED BY <2>1, <2>2
<1>3. Cardinality(found) # 0
  BY <1>1, <1>2, BoundsAssumption DEF AtMost
<1>4. found # {}
  <2>1. found = {} => Cardinality(found) = 0
    BY FS_EmptySet
  <2> QED BY <1>3, <2>1
<1>5. CASE r0 \in found
  BY <1>5
<1>6. CASE r0 \notin found
  <2>1. PICK r \in found : TRUE
    BY <1>4
  <2>2. Dist(q.embed, r.embed) <= Dist(q.embed, r0.embed)
    BY <1>1, <1>6
  <2>3. Dist(q.embed, r0.embed) = 0 /\ Dist(q.embed, r.embed) \in 0..500
    BY Distances
  <2>4. Dist(q.embed, r.embed) = 0
    BY <2>2, <2>3
  <2>5. r.embed = q.embed
    BY <2>4, Distances
  <2> QED BY <2>5
<1> QED BY <1>5, <1>6

Evaluations == {"distance", "exact", "np", "onnx", "time"}

\* Scores are numbers within the range of the evaluation.
LEMMA Scores ==
    ASSUME conf.eval \in Evaluations, NEW q, NEW row
    PROVE  Score(q, row) \in 0..400
<1>1. Dist(q.embed, row.embed) \in 0..500 /\ Dist(q.store, row.store) \in 0..500
      /\ Dist(q.embed, row.embed) \in {0, 100, 200, 300, 400, 500}
  <2>1. Dist(q.embed, row.embed) \in 0..500 /\ Dist(q.store, row.store) \in 0..500
    BY Distances
  <2>2. q.embed # row.embed => Dist(q.embed, row.embed) \in {100, 200, 300, 400, 500}
    BY Distances
  <2>3. q.embed = row.embed => Dist(q.embed, row.embed) = 0
    BY Distances
  <2> QED BY <2>1, <2>2, <2>3
<1>2. Distance(Dist(q.embed, row.embed)) \in 0..400
  BY <1>1 DEF Distance, AtMost, MaxDistance
<1>3. CASE conf.eval = "distance"
  BY <1>2, <1>3 DEF Score
<1>4. CASE conf.eval = "exact"
  BY <1>4 DEF Score
<1>5. CASE conf.eval = "np"
  <2> DEFINE d == Dist(q.embed, row.embed)
  <2>1. d \in {0, 100, 200, 300, 400, 500}
    BY <1>1
  <2> HIDE DEF d
  <2>2. AtMost(d, 400) \in {0, 100, 200, 300, 400}
    BY <2>1 DEF AtMost
  <2>3. AtMost(d, 400) \div 100 + 1 \in {1, 2, 3, 4, 5}
    BY <2>2
  <2>4. Norm(d) \in {0, 100, 141, 173, 200}
    BY <2>3 DEF Norm
  <2>5. Score(q, row) = 200 - Norm(d)
    BY <1>5 DEF Score, d
  <2> QED BY <2>4, <2>5
<1>6. CASE conf.eval = "onnx"
  <2> DEFINE d == Dist(q.store, row.store)
  <2>1. AtMost(d, 400) \in 0..400
    BY <1>1 DEF AtMost
  <2>2. AtMost(d, 400) \div 4 \in 0..100
    BY <2>1
  <2>3. Score(q, row) = 100 - AtMost(d, 400) \div 4
    BY <1>6 DEF Score, Predicted
  <2> HIDE DEF d
  <2> QED BY <2>2, <2>3
<1>7. CASE conf.eval = "time"
  BY <1>2, <1>7 DEF Score, Timed
<1> QED BY <1>3, <1>4, <1>5, <1>6, <1>7 DEF Evaluations

\* The same text has the best score.
LEMMA BestScore ==
    ASSUME conf \in Configs, conf.eval \in Evaluations, NEW q, NEW row,
           row.embed = q.embed, row.store = q.store,
           conf.eval = "time" => ~(clock - row.at > TimeRange)
    PROVE  Score(q, row) >= RankThreshold
<1>1. Dist(q.embed, row.embed) = 0 /\ Dist(q.store, row.store) = 0
  BY Distances
<1>2. Score(q, row) = Range100(conf.eval)
  <2>1. Distance(0) = 400
    BY DEF Distance, AtMost, MaxDistance
  <2>2. Norm(0) = 0
    <3>1. AtMost(0, 400) = 0 /\ 0 \div 100 + 1 = 1
      BY DEF AtMost
    <3> QED BY <3>1 DEF Norm
  <2>3. Predicted(q.store, row.store) = 100
    <3>1. AtMost(0, 400) = 0 /\ 0 \div 4 = 0
      BY DEF AtMost
    <3> QED BY <1>1, <3>1 DEF Predicted
  <2>4. CASE conf.eval = "distance"
    BY <1>1, <2>1, <2>4, Thresholds DEF Score
  <2>5. CASE conf.eval = "exact"
    BY <2>5, Thresholds DEF Score
  <2>6. CASE conf.eval = "np"
    BY <1>1, <2>2, <2>6, Thresholds DEF Score
  <2>7. CASE conf.eval = "onnx"
    BY <2>3, <2>7, Thresholds DEF Score
  <2>8. CASE conf.eval = "time"
    BY <1>1, <2>1, <2>8, Thresholds DEF Score, Timed
  <2> QED BY <2>4, <2>5, <2>6, <2>7, <2>8 DEF Evaluations
<1> QED BY <1>2, Thresholds

\* Of some accepted rows, the post-processors but the verifier pick one.
LEMMA SomePicked ==
    ASSUME conf \in Configs, conf.eval \in Evaluations, conf.post # "LlmVerifier",
           NEW q, NEW accepted, accepted # {}
    PROVE  Picked(conf.post, q, accepted) # {}
<1>1. conf.post \in {"first", "random_one"}
  BY ConfigsAssumption DEF Posts
<1>2. CASE conf.post = "random_one"
  BY <1>2 DEF Picked
<1>3. CASE conf.post = "first"
  <2> DEFINE short == {400 - Score(q, r) : r \in accepted}
  <2>1. \A r \in accepted : Score(q, r) \in 0..400
    BY Scores
  <2>2. short \in SUBSET Nat /\ short # {}
    BY <2>1
  <2>3. PICK m \in short : \A k \in short : m <= k
    <3> HIDE DEF short
    <3> QED BY <2>2, Least
  <2>4. PICK r \in accepted : m = 400 - Score(q, r)
    OBVIOUS
  <2>5. \A o \in accepted : Score(q, o) <= Score(q, r)
    <3>1. ASSUME NEW o \in accepted PROVE Score(q, o) <= Score(q, r)
      <4>1. m <= 400 - Score(q, o)
        BY <2>3
      <4>2. Score(q, o) \in 0..400 /\ Score(q, r) \in 0..400
        BY <2>1
      <4>3. \A x, y \in 0..400 : 400 - y <= 400 - x => x <= y
        OBVIOUS
      <4> HIDE DEF short
      <4>4. 400 - Score(q, r) <= 400 - Score(q, o)
        BY <2>4, <4>1
      <4> QED BY <4>2, <4>3, <4>4
    <3> QED BY <3>1
  <2> QED BY <1>3, <2>5 DEF Picked
<1> QED BY <1>1, <1>2, <1>3

\* SequenceMatchEvaluation adds up weights, which is left to the runs.
NoSequenceMatch == \A c \in Configs : c.eval # "sequence_match"

\* What TimeEvaluation takes for too old is so by the time the store wrote.
LEMMA ReadAge ==
    ASSUME PipeInv, NEW r \in rows, conf.eval = "time", ~TakenForOld(r)
    PROVE  ~(clock - r.at > TimeRange)
<1>1. /\ clock \in Nat /\ TimeRange \in Nat /\ UtcAhead \in Int
      /\ r.saved \in Nat /\ r.at = Stamped(r.saved) /\ conf.stamp \in Stamps
  BY ConfigsAssumption, BoundsAssumption DEF PipeInv, TypeOK
<1>2. CASE conf.stamp = "local"
  BY <1>1, <1>2 DEF Stamped, Ahead, TakenForOld
<1>3. CASE conf.stamp = "utc"
  BY <1>1, <1>3 DEF Stamped, Ahead, TakenForOld
<1>4. CASE conf.stamp = "built"
  BY <1>1, <1>4 DEF Stamped, Ahead, TakenForOld
<1> QED BY <1>1, <1>2, <1>3, <1>4 DEF Stamps

\* With the other evaluations, a text that was saved before is answered from the
\* cache, whatever the rows around it, but for cache_skip, time_range and the
\* two that cannot.
THEOREM RepeatCorrect ==
    ASSUME NoSequenceMatch
    PROVE  Spec => RepeatServed
<1>0. NoSequenceMatch
  OBVIOUS
<1>1. ASSUME PipeInv, [Next]_vars, NEW t \in Threads,
             pc[t] = "search", pc'[t] = "save", ~skip[t],
             conf.eval # "kreciprocal", conf.post # "LlmVerifier"
      PROVE  LET same == {r \in rows : r.embed = text[t].embed}
             IN  \/ same = {}
                 \/ \E r \in same : r.store # text[t].store
                 \/ \E r \in same : TakenForOld(r)
  <2> DEFINE same == {r \in rows : r.embed = text[t].embed}
  <2>1. conf \in Configs /\ IsFiniteSet(rows) /\ DOMAIN pc = Threads
    BY <1>1 DEF PipeInv, TypeOK
  <2>2. conf.eval \in Evaluations
    BY <1>0, <1>1, <2>1, ConfigsAssumption DEF NoSequenceMatch, Evals, Evaluations
  <2>3. Miss(t)
    <3>1. pc'[t] # pc[t]
      BY <1>1
    <3>2. ~Tick /\ ~Done /\ ~UNCHANGED vars /\ \A u \in Threads : ~Summarizing(u)
      BY <3>1 DEF Tick, Done, vars, Summarizing
    <3>3. \A u \in Threads : u # t =>
             /\ \A r \in Requests, v \in CacheSkips : ~Arrive(u, r, v)
             /\ ~Format(u) /\ ~Process(u) /\ ~Serialize(u) /\ ~Pre(u) /\ ~PreRaises(u)
             /\ ~Answer(u) /\ ~Miss(u) /\ ~EvaluationRaises(u) /\ ~Save(u)
      BY <2>1, <3>1 DEF Arrive, Format, Process, Serialize, Pre, PreRaises, Answer, Miss,
                        EvaluationRaises, Save, Goto
    <3>4. /\ \A r \in Requests, v \in CacheSkips : ~Arrive(t, r, v)
          /\ ~Format(t) /\ ~Process(t) /\ ~Serialize(t) /\ ~Pre(t) /\ ~PreRaises(t)
          /\ ~Answer(t) /\ ~EvaluationRaises(t) /\ ~Save(t)
      BY <1>1, <2>1 DEF Arrive, Format, Process, Serialize, Pre, PreRaises, Answer,
                        EvaluationRaises, Save, Goto
    <3> QED BY <1>1, <3>2, <3>3, <3>4 DEF Next
  <2>4. PICK found \in Nearest(text[t]) :
            Picked(conf.post, text[t], Accepted(text[t], found)) = {}
    BY <1>1, <2>3 DEF Miss
  <2>5. SUFFICES ASSUME NEW r0 \in same, \A r \in same : r.store = text[t].store,
                        \A r \in same : ~TakenForOld(r)
                 PROVE  FALSE
    BY Zenon
  <2>6. PICK r \in found : r.embed = text[t].embed
    BY <2>1, <2>5, SameFound
  <2>7. r \in same
    BY <2>6 DEF Nearest
  <2>8. Score(text[t], r) >= RankThreshold
    <3>1. conf.eval = "time" => ~(clock - r.at > TimeRange)
      BY <1>1, <2>5, <2>7, ReadAge
    <3> QED BY <2>1, <2>2, <2>5, <2>6, <2>7, <3>1, BestScore
  <2>9. Accepted(text[t], found) # {}
    BY <2>6, <2>8 DEF Accepted
  <2> QED BY <1>1, <2>1, <2>2, <2>4, <2>9, SomePicked
<1>2. PipeInv /\ [Next]_vars =>
        [\A t \in Threads :
          /\ pc[t] = "search" /\ pc'[t] = "save" /\ ~skip[t]
          /\ conf.eval # "kreciprocal" /\ conf.post # "LlmVerifier"
          => LET same == {r \in rows : r.embed = text[t].embed}
             IN  \/ same = {}
                 \/ \E r \in same : r.store # text[t].store
                 \/ \E r \in same : TakenForOld(r)]_vars
  BY <1>1
<1> QED BY <1>2, PipelineCorrect, PTL DEF Spec, RepeatServed

-----------------------------------------------------------------------------
(* Texts that are put together from parts.                                 *)

\* Sequences as functions: what \o does.
LEMMA Joint ==
    ASSUME NEW S, NEW s \in Seq(S), NEW u \in Seq(S)
    PROVE  /\ s \o u \in Seq(S) /\ Len(s \o u) = Len(s) + Len(u)
           /\ \A p \in 1..Len(s) : (s \o u)[p] = s[p]
           /\ \A p \in 1..Len(u) : (s \o u)[Len(s) + p] = u[p]
OBVIOUS

\* There is a function of the prefixes, the sequences up to each one.
LEMMA Flattened ==
    ASSUME NEW S, NEW s \in Seq(Seq(S))
    PROVE  \E f \in [0..Len(s) -> Seq(S)] :
              /\ f[0] = <<>>
              /\ \A i \in 1..Len(s) : f[i] = f[i - 1] \o s[i]
              /\ FlattenSeq(s) = f[Len(s)]
<1>0. Len(s) \in Nat /\ \A i \in 1..Len(s) : s[i] \in Seq(S)
  OBVIOUS
<1> DEFINE N == Len(s)
           Upto(f, k) == /\ f \in [0..k -> Seq(S)] /\ f[0] = <<>>
                         /\ \A i \in 1..k : f[i] = f[i - 1] \o s[i]
           Bad == {k \in 0..N : ~\E f : Upto(f, k)}
<1>1. Bad = {}
  <2> SUFFICES ASSUME Bad # {} PROVE FALSE
    OBVIOUS
  <2>1. PICK m \in Bad : \A k \in Bad : m <= k
    <3>1. Bad \in SUBSET Nat
      <4> HIDE DEF Upto
      <4>1. 0..N \subseteq Nat
        BY <1>0
      <4> QED BY <4>1
    <3> HIDE DEF Bad
    <3> QED BY <3>1, Least
  <2>2. m \in 0..N /\ m \in Nat
    BY <1>0
  <2>3. CASE m = 0
    <3>1. Upto([i \in 0..0 |-> <<>>], 0)
      OBVIOUS
    <3> QED BY <2>1, <2>3, <3>1
  <2>4. CASE m # 0
    <3>1. m - 1 \in 0..N /\ m - 1 \notin Bad /\ m \in 1..N
      <4> HIDE DEF Bad
      <4> QED BY <1>0, <2>1, <2>2, <2>4
    <3>2. PICK f : Upto(f, m - 1)
      BY <3>1
    <3> DEFINE g == [i \in 0..m |-> IF i = m THEN f[m - 1] \o s[m] ELSE f[i]]
    <3>3. f[m - 1] \in Seq(S) /\ s[m] \in Seq(S)
      BY <1>0, <2>2, <3>1, <3>2
    <3>4. g[m] = f[m - 1] \o s[m] /\ g[m] \in Seq(S)
      <4>1. m \in 0..m
        BY <2>2
      <4>2. g[m] = f[m - 1] \o s[m]
        BY <4>1
      <4> QED BY <3>3, <4>2, Joint
    <3>5. \A i \in 0..(m - 1) : g[i] = f[i] /\ i # m
      BY <2>2
    <3>6. \A i \in 0..m : i = m \/ i \in 0..(m - 1)
      BY <2>2
    <3>7. DOMAIN g = 0..m
      OBVIOUS
    <3>8. \A i \in 0..(m - 1) : g[i] \in Seq(S)
      BY <3>2, <3>5
    <3>8a. g = [i \in 0..m |-> g[i]]
      OBVIOUS
    <3> HIDE DEF g
    <3>9. g \in [0..m -> Seq(S)]
      BY <3>4, <3>6, <3>8, <3>8a
    <3>10. g[0] = <<>>
      BY <2>2, <2>4, <3>2, <3>5
    <3>11. ASSUME NEW i \in 1..m PROVE g[i] = g[i - 1] \o s[i]
      <4>1. CASE i = m
        <5>1. m - 1 \in 0..(m - 1)
          BY <2>2, <2>4
        <5> QED BY <3>4, <3>5, <4>1, <5>1
      <4>2. CASE i # m
        <5>1. i \in 1..(m - 1) /\ i \in 0..(m - 1) /\ i - 1 \in 0..(m - 1)
          BY <2>2, <4>2
        <5> QED BY <3>2, <3>5, <5>1
      <4> QED BY <4>1, <4>2
    <3>12. Upto(g, m)
      BY <3>9, <3>10, <3>11
    <3> QED BY <2>1, <3>12
  <2> QED BY <2>3, <2>4
<1>2. PICK f : Upto(f, N)
  <2>1. N \in 0..N
    BY <1>0
  <2> QED BY <1>1, <2>1
<1>3. CASE N = 0
  <2>1. FlattenSeq(s) = s /\ s = <<>>
    BY <1>3 DEF FlattenSeq
  <2> QED BY <1>2, <1>3, <2>1
<1>4. CASE N # 0
  <2> DEFINE Body(h) == [i \in 1..N |-> IF i = 1 THEN s[i] ELSE h[i - 1] \o s[i]]
             flat == CHOOSE h : h = Body(h)
             f1 == [i \in 1..N |-> f[i]]
  <2>1. FlattenSeq(s) = flat[N]
    BY <1>4 DEF FlattenSeq
  <2>2. f1 = Body(f1)
    <3>1. ASSUME NEW i \in 1..N PROVE f[i] = IF i = 1 THEN s[i] ELSE f1[i - 1] \o s[i]
      <4>1. f[i] = f[i - 1] \o s[i]
        BY <1>2
      <4>2. CASE i = 1
        <5>1. f[i] = <<>> \o s[i] /\ s[i] \in Seq(S)
          BY <1>0, <1>2, <4>1, <4>2
        <5> QED BY <4>2, <5>1
      <4>3. CASE i # 1
        <5>1. i - 1 \in 1..N
          BY <1>0, <4>3
        <5> QED BY <4>1, <4>3, <5>1
      <4> QED BY <4>2, <4>3
    <3> QED BY <3>1
  <2>3. flat = Body(flat)
    <3> HIDE DEF Body, f1
    <3> QED BY <2>2
  <2>4. \A i \in 1..N : flat[i] = IF i = 1 THEN s[i] ELSE flat[i - 1] \o s[i]
    <3> HIDE DEF flat
    <3>1. \A i \in 1..N : Body(flat)[i] = IF i = 1 THEN s[i] ELSE flat[i - 1] \o s[i]
      OBVIOUS
    <3> QED BY <2>3, <3>1
  <2> HIDE DEF flat, Body
  <2> DEFINE Off == {i \in 1..N : flat[i] # f[i]}
  <2>5. Off = {}
    <3> SUFFICES ASSUME Off # {} PROVE FALSE
      OBVIOUS
    <3>1. PICK m \in Off : \A k \in Off : m <= k
      <4>1. Off \in SUBSET Nat
        BY <1>0
      <4> HIDE DEF Off
      <4> QED BY <4>1, Least
    <3>2. m \in 1..N /\ flat[m] # f[m] /\ f[m] = f[m - 1] \o s[m] /\ s[m] \in Seq(S)
      BY <1>0, <1>2, <3>1
    <3>3. CASE m = 1
      <4>0. m - 1 = 0
        BY <3>3
      <4>1. f[m] = <<>> \o s[m]
        BY <1>2, <3>2, <4>0
      <4>2. f[m] = s[m]
        BY <3>2, <4>1
      <4> QED BY <2>4, <3>2, <3>3, <4>2
    <3>4. CASE m # 1
      <4>1. m - 1 \in 1..N /\ m - 1 \notin Off
        <5> HIDE DEF Off
        <5> QED BY <1>0, <3>1, <3>2, <3>4
      <4>2. flat[m - 1] = f[m - 1]
        BY <4>1
      <4> QED BY <2>4, <3>2, <3>4, <4>2
    <3> QED BY <3>3, <3>4
  <2>6. N \in 1..N
    BY <1>0, <1>4
  <2> QED BY <1>2, <2>1, <2>5, <2>6
<1> QED BY <1>3, <1>4

\* The sequences up to each one, as far as the whole text t.
PrefixesTo(S, s, f, t) ==
    /\ f \in [0..Len(s) -> Seq(S)] /\ f[0] = <<>> /\ f[Len(s)] = t
    /\ \A i \in 1..Len(s) : f[i] = f[i - 1] \o s[i]

\* Each is the beginning of the text.
LEMMA Beginnings ==
    ASSUME NEW S, NEW s \in Seq(Seq(S)), NEW f, NEW t, PrefixesTo(S, s, f, t),
           NEW i \in 0..Len(s)
    PROVE  /\ Len(f[i]) \in Nat /\ Len(t) \in Nat /\ Len(f[i]) <= Len(t)
           /\ \A p \in 1..Len(f[i]) : t[p] = f[i][p]
<1> DEFINE N == Len(s)
           Begins(j) == Len(f[i]) <= Len(f[j]) /\ \A p \in 1..Len(f[i]) : f[j][p] = f[i][p]
           Bad == {j \in i..N : ~Begins(j)}
<1>1. N \in Nat /\ i \in Nat /\ i <= N /\ \A j \in 0..N : f[j] \in Seq(S) /\ Len(f[j]) \in Nat
  BY DEF PrefixesTo
<1>2. Bad = {}
  <2> SUFFICES ASSUME Bad # {} PROVE FALSE
    OBVIOUS
  <2>1. PICK m \in Bad : \A k \in Bad : m <= k
    <3>1. Bad \in SUBSET Nat
      <4> HIDE DEF Begins
      <4>1. i..N \subseteq Nat
        BY <1>1
      <4> QED BY <4>1
    <3> HIDE DEF Bad
    <3> QED BY <3>1, Least
  <2>2. m \in i..N /\ m \in Nat /\ i <= m /\ m <= N /\ ~Begins(m)
    <3> HIDE DEF Begins
    <3> QED BY <1>1, <2>1
  <2>3. m # i
    BY <1>1, <2>2
  <2>4. m - 1 \in i..N /\ m - 1 \notin Bad /\ m \in 1..N /\ m - 1 \in 0..N
    <3> HIDE DEF Bad, Begins
    <3> QED BY <1>1, <2>1, <2>2, <2>3
  <2>5. Begins(m - 1)
    <3> HIDE DEF Begins
    <3> QED BY <2>4
  <2>6. f[m] = f[m - 1] \o s[m] /\ s[m] \in Seq(S) /\ f[m - 1] \in Seq(S)
    <3> HIDE DEF Bad, Begins
    <3>1. s[m] \in Seq(S)
      BY <2>4
    <3>2. f[m] = f[m - 1] \o s[m]
      BY <2>4 DEF PrefixesTo
    <3>3. f[m - 1] \in Seq(S)
      BY <1>1, <2>4
    <3> QED BY <3>1, <3>2, <3>3
  <2>7. /\ Len(f[m]) = Len(f[m - 1]) + Len(s[m]) /\ Len(s[m]) \in Nat
        /\ \A p \in 1..Len(f[m - 1]) : f[m][p] = f[m - 1][p]
    <3> DEFINE P == f[m - 1]
               Q == s[m]
    <3>1. f[m] = P \o Q /\ P \in Seq(S) /\ Q \in Seq(S)
      BY <2>6
    <3> HIDE DEF Bad, Begins, P, Q
    <3>2. /\ Len(P \o Q) = Len(P) + Len(Q) /\ Len(Q) \in Nat
          /\ \A p \in 1..Len(P) : (P \o Q)[p] = P[p]
      BY <3>1, Joint
    <3>3. /\ Len(f[m]) = Len(P) + Len(Q) /\ Len(Q) \in Nat
          /\ \A p \in 1..Len(P) : f[m][p] = P[p]
      BY <3>1, <3>2
    <3> USE DEF P, Q
    <3> QED BY <3>3
  <2>8. Len(f[i]) \in Nat /\ Len(f[m - 1]) \in Nat
    BY <1>1, <2>4
  <2>9. Begins(m)
    <3> DEFINE L == Len(f[i])
               M == Len(f[m - 1])
    <3>1. L <= M /\ \A p \in 1..L : f[m - 1][p] = f[i][p]
      BY <2>5
    <3>2. L \in Nat /\ M \in Nat /\ Len(f[m]) = M + Len(s[m]) /\ Len(s[m]) \in Nat
          /\ \A p \in 1..M : f[m][p] = f[m - 1][p]
      BY <2>7, <2>8
    <3> SUFFICES L <= Len(f[m]) /\ \A p \in 1..L : f[m][p] = f[i][p]
      OBVIOUS
    <3> HIDE DEF L, M, Bad, Begins
    <3> QED BY <3>1, <3>2
  <2> QED BY <2>2, <2>9
<1>3. Begins(N)
  <2>1. N \in i..N
    BY <1>1
  <2> HIDE DEF Begins
  <2> QED BY <1>2, <2>1
<1>4. f[N] = t /\ i \in 0..N /\ N \in 0..N
  BY <1>1 DEF PrefixesTo
<1> QED BY <1>1, <1>3, <1>4

\* Two texts, put together from the parts a and b that end with the mark: the
\* parts can be told apart, if the mark is in none of them and either both
\* texts, or neither, have one at the end, or no part is empty.
Marked(S, mark, a, s) ==
    /\ a \in Seq(Seq(S)) /\ s \in Seq(Seq(S)) /\ Len(s) = Len(a) /\ Len(a) # 0
    /\ \A i \in 1..Len(a) : mark \notin {a[i][p] : p \in 1..Len(a[i])}
    /\ \A i \in 1..Len(a) : s[i] = a[i] \o <<mark>> \/ (i = Len(a) /\ s[i] = a[i])

\* A part x stands in a text after P elements, up to a mark or the end.
Stands(S, mark, x, t, P) ==
    /\ P \in Nat /\ Len(t) \in Nat /\ x \in Seq(S) /\ P + Len(x) <= Len(t)
    /\ \A p \in 1..Len(x) : t[P + p] = x[p] /\ x[p] # mark
    /\ \/ P + Len(x) + 1 <= Len(t) /\ t[P + Len(x) + 1] = mark
       \/ P + Len(x) = Len(t)

LEMMA StandsOnce ==
    ASSUME NEW S, NEW mark, NEW x, NEW y, NEW t, NEW P,
           Stands(S, mark, x, t, P), Stands(S, mark, y, t, P)
    PROVE  x = y
<1> DEFINE A == Len(x)
           B == Len(y)
           T == Len(t)
<1>1. /\ P \in Nat /\ A \in Nat /\ T \in Nat /\ x \in Seq(S) /\ P + A <= T
      /\ \A p \in 1..A : t[P + p] = x[p] /\ x[p] # mark
      /\ (P + A + 1 <= T /\ t[P + A + 1] = mark) \/ P + A = T
  BY DEF Stands
<1>2. /\ B \in Nat /\ y \in Seq(S) /\ P + B <= T
      /\ \A p \in 1..B : t[P + p] = y[p] /\ y[p] # mark
      /\ (P + B + 1 <= T /\ t[P + B + 1] = mark) \/ P + B = T
  BY DEF Stands
<1> HIDE DEF T
<1>3. A = B
  <2> HIDE DEF A, B
  <2>1. CASE A < B
    <3>1. A + 1 \in 1..B /\ P + (A + 1) = P + A + 1 /\ P + A # T
      BY <1>1, <1>2, <2>1
    <3> QED BY <1>1, <1>2, <3>1
  <2>2. CASE B < A
    <3>1. B + 1 \in 1..A /\ P + (B + 1) = P + B + 1 /\ P + B # T
      BY <1>1, <1>2, <2>2
    <3> QED BY <1>1, <1>2, <3>1
  <2> QED BY <1>1, <1>2, <2>1, <2>2
<1>4. \A p \in 1..A : x[p] = y[p]
  BY <1>1, <1>2, <1>3
<1> QED BY <1>1, <1>2, <1>3, <1>4

\* What comes after the i-th part
Advances(mark, a, s, f, t, i) ==
    \/ /\ s[i] = a[i] \o <<mark>> /\ Len(f[i]) <= Len(t)
       /\ Len(f[i]) = Len(f[i - 1]) + Len(a[i]) + 1
    \/ s[i] = a[i] /\ i = Len(a) /\ Len(t) = Len(f[i - 1]) + Len(a[i])

LEMMA Following ==
    ASSUME NEW S, NEW mark \in S, NEW a, NEW s, NEW f, NEW t,
           Marked(S, mark, a, s), PrefixesTo(S, s, f, t), NEW i \in 1..Len(a)
    PROVE  /\ Stands(S, mark, a[i], t, Len(f[i - 1]))
           /\ Advances(mark, a, s, f, t, i)
<1> DEFINE F == f[i - 1]
           L == Len(F)
           A == Len(a[i])
           K == Len(s[i])
           T == Len(t)
<1>1. /\ Len(a) \in Nat /\ Len(s) = Len(a) /\ i \in 1..Len(s) /\ i \in 0..Len(s) /\ i - 1 \in 0..Len(s)
      /\ s \in Seq(Seq(S)) /\ a[i] \in Seq(S) /\ s[i] \in Seq(S) /\ A \in Nat /\ i - 1 \in Nat
  BY DEF Marked
<1>2. F \in Seq(S) /\ f[i] \in Seq(S) /\ f[i] = F \o s[i] /\ L \in Nat
  <2>1. F \in Seq(S) /\ f[i] \in Seq(S)
    BY <1>1 DEF PrefixesTo
  <2>2. f[i] = f[i - 1] \o s[i]
    BY <1>1 DEF PrefixesTo
  <2>3. F = f[i - 1]
    OBVIOUS
  <2> HIDE DEF F
  <2> QED BY <2>1, <2>2, <2>3
<1>3. /\ Len(f[i]) = L + K /\ K \in Nat
      /\ \A p \in 1..K : f[i][L + p] = s[i][p]
  <2> HIDE DEF F
  <2> QED BY <1>1, <1>2, Joint
<1>4. /\ T \in Nat /\ Len(f[i]) <= T
      /\ \A p \in 1..Len(f[i]) : t[p] = f[i][p]
  BY <1>1, Beginnings
<1>5. \A p \in 1..Len(a[i]) : a[i][p] # mark
  BY DEF Marked
<1>6. CASE s[i] = a[i] \o <<mark>>
  <2>1. K = A + 1 /\ s[i][A + 1] = mark /\ \A p \in 1..A : s[i][p] = a[i][p]
    BY <1>1, <1>6
  <2> HIDE DEF F, L, A, K, T
  <2>2. /\ L + A <= T /\ L + A + 1 <= T /\ Len(f[i]) = L + A + 1
        /\ A + 1 \in 1..K /\ L + (A + 1) = L + A + 1 /\ L + A + 1 \in 1..Len(f[i])
    BY <1>1, <1>2, <1>3, <1>4, <2>1
  <2>3. t[L + A + 1] = mark
    BY <1>3, <1>4, <2>1, <2>2
  <2>4. ASSUME NEW p \in 1..A PROVE t[L + p] = a[i][p]
    <3>1. p \in 1..K /\ L + p \in 1..Len(f[i])
      BY <1>1, <1>2, <1>3, <2>1
    <3> QED BY <1>3, <1>4, <2>1, <3>1
  <2> USE DEF F, L, A, K, T
  <2> QED BY <1>1, <1>2, <1>4, <1>5, <1>6, <2>2, <2>3, <2>4 DEF Stands, Advances
<1>7. CASE s[i] = a[i] /\ i = Len(a)
  <2>1. f[i] = t
    BY <1>1, <1>7 DEF PrefixesTo
  <2>2. K = A
    BY <1>7
  <2> HIDE DEF F, L, A, K, T
  <2>3. T = L + A /\ L + A <= T
    <3>1. T = Len(f[i])
      BY <2>1 DEF T
    <3> QED BY <1>1, <1>2, <1>3, <2>2, <3>1
  <2>4. ASSUME NEW p \in 1..A PROVE t[L + p] = a[i][p]
    BY <1>3, <1>7, <2>1, <2>2
  <2> USE DEF F, L, A, K, T
  <2> QED BY <1>1, <1>2, <1>4, <1>5, <1>7, <2>3, <2>4 DEF Stands, Advances
<1> QED BY <1>6, <1>7 DEF Marked

\* How the texts of both end: with or without a mark, or no part is empty.
Ends(mark, a, s, b, u) ==
    \/ s[Len(a)] = a[Len(a)] \o <<mark>> <=> u[Len(b)] = b[Len(b)] \o <<mark>>
    \/ (\A i \in 1..Len(a) : a[i] # <<>>) /\ (\A i \in 1..Len(b) : b[i] # <<>>)

LEMMA DecodedOneWay ==
    ASSUME NEW S, NEW mark \in S, NEW a, NEW s, NEW f, NEW b, NEW u, NEW g, NEW t,
           Marked(S, mark, a, s), PrefixesTo(S, s, f, t),
           Marked(S, mark, b, u), PrefixesTo(S, u, g, t), Ends(mark, a, s, b, u)
    PROVE  Len(a) <= Len(b) /\ \A i \in 1..Len(a) : a[i] = b[i]
<1> DEFINE Same(i) == i <= Len(b) /\ Len(f[i - 1]) = Len(g[i - 1]) /\ a[i] = b[i]
           Bad == {i \in 1..Len(a) : ~Same(i)}
<1>0. /\ Len(a) \in Nat /\ Len(b) \in Nat /\ Len(a) # 0 /\ Len(b) # 0
      /\ Len(s) = Len(a) /\ Len(u) = Len(b)
  BY DEF Marked
<1>1. ASSUME NEW m \in 1..Len(a), m <= Len(b), Len(f[m - 1]) = Len(g[m - 1])
      PROVE  a[m] = b[m]
  <2>1. m \in 1..Len(b)
    BY <1>0, <1>1
  <2>2. Stands(S, mark, a[m], t, Len(f[m - 1]))
    BY Following
  <2>3. Stands(S, mark, b[m], t, Len(f[m - 1]))
    BY <1>1, <2>1, Following
  <2> QED BY <2>2, <2>3, StandsOnce
<1>2. Bad = {}
  <2> SUFFICES ASSUME Bad # {} PROVE FALSE
    OBVIOUS
  <2>1. PICK m \in Bad : \A k \in Bad : m <= k
    <3>1. Bad \in SUBSET Nat
      <4> HIDE DEF Same
      <4>1. 1..Len(a) \subseteq Nat
        BY <1>0
      <4> QED BY <4>1
    <3> HIDE DEF Bad
    <3> QED BY <3>1, Least
  <2>2. m \in 1..Len(a) /\ ~Same(m)
    <3> HIDE DEF Same
    <3> QED BY <2>1
  <2> HIDE DEF Bad
  <2>3. CASE m = 1
    <3>1. f[m - 1] = <<>> /\ g[m - 1] = <<>>
      BY <2>3 DEF PrefixesTo
    <3>2. m <= Len(b)
      BY <1>0, <2>3
    <3> QED BY <1>1, <2>2, <3>1, <3>2
  <2>4. CASE m # 1
    <3> DEFINE k == m - 1
    <3>1. k \in 1..Len(a) /\ k \notin Bad /\ k < m /\ m = k + 1 /\ k # Len(a)
      BY <1>0, <2>1, <2>2, <2>4
    <3>2. Same(k)
      <4> HIDE DEF Same, k
      <4> QED BY <3>1 DEF Bad
    <3> HIDE DEF k
    <3>3. k \in 1..Len(b) /\ Len(f[k - 1]) = Len(g[k - 1]) /\ a[k] = b[k]
      BY <1>0, <3>1, <3>2
    <3>4. /\ Len(f[k]) <= Len(t) /\ Len(f[k]) = Len(f[k - 1]) + Len(a[k]) + 1
          /\ Stands(S, mark, a[k], t, Len(f[k - 1]))
      <4> HIDE DEF Same
      <4>1. Stands(S, mark, a[k], t, Len(f[k - 1])) /\ Advances(mark, a, s, f, t, k)
        BY <3>1, Following
      <4> QED BY <3>1, <4>1 DEF Advances
    <3>5. \/ /\ u[k] = b[k] \o <<mark>> /\ Len(g[k]) <= Len(t)
             /\ Len(g[k]) = Len(g[k - 1]) + Len(b[k]) + 1
          \/ u[k] = b[k] /\ k = Len(b) /\ Len(t) = Len(g[k - 1]) + Len(b[k])
      <4> HIDE DEF Same
      <4>1. Advances(mark, b, u, g, t, k)
        BY <3>3, Following
      <4> QED BY <4>1 DEF Advances
    <3>6. Len(f[k - 1]) \in Nat /\ Len(a[k]) \in Nat /\ Len(t) \in Nat
      BY <3>4 DEF Stands
    <3>7. Len(g[k]) = Len(f[k]) /\ u[k] = b[k] \o <<mark>>
      <4> DEFINE X == Len(f[k - 1]) + Len(a[k])
                 T == Len(t)
      <4>1. X \in Nat /\ T \in Nat /\ X + 1 <= T
        <5>1. Len(f[k]) <= T /\ Len(f[k]) = X + 1
          BY <3>4
        <5>2. X \in Nat /\ T \in Nat
          <6> DEFINE P == Len(f[k - 1])
                     A == Len(a[k])
          <6>1. P \in Nat /\ A \in Nat /\ T \in Nat
            BY <3>6
          <6> HIDE DEF P, A, T
          <6>2. P + A \in Nat
            BY <6>1
          <6> USE DEF P, A
          <6> QED BY <6>1, <6>2
        <5> HIDE DEF X, T
        <5> QED BY <5>1, <5>2
      <4>2. T = X => FALSE
        <5> HIDE DEF X, T
        <5> QED BY <4>1
      <4>3. Len(g[k - 1]) + Len(b[k]) = X
        BY <3>3
      <4> QED BY <3>4, <3>5, <4>2, <4>3
    <3>8. k # Len(b)
      <4> SUFFICES ASSUME k = Len(b) PROVE FALSE
        OBVIOUS
      <4> HIDE DEF Same
      <4>1. Len(t) = Len(f[k])
        BY <1>0, <3>7 DEF PrefixesTo
      <4>2. /\ Stands(S, mark, a[m], t, Len(f[m - 1]))
            /\ \/ /\ s[m] = a[m] \o <<mark>> /\ Len(f[m]) <= Len(t)
                  /\ Len(f[m]) = Len(f[m - 1]) + Len(a[m]) + 1
               \/ s[m] = a[m] /\ m = Len(a) /\ Len(t) = Len(f[m - 1]) + Len(a[m])
        <5>1. Stands(S, mark, a[m], t, Len(f[m - 1])) /\ Advances(mark, a, s, f, t, m)
          BY <2>2, Following
        <5> QED BY <5>1 DEF Advances
      <4>3. m - 1 = k
        BY <1>0, <2>2, <3>1
      <4> DEFINE T == Len(t)
                 A == Len(a[m])
                 M == Len(f[m])
      <4>0. T = Len(f[m - 1])
        BY <4>1, <4>3
      <4>4. /\ T \in Nat /\ A \in Nat /\ a[m] \in Seq(S)
            /\ T + A + 1 <= T \/ (s[m] = a[m] /\ m = Len(a) /\ T = T + A)
        <5>1. T \in Nat /\ A \in Nat /\ a[m] \in Seq(S)
          BY <4>2 DEF Stands
        <5>2. (M <= T /\ M = T + A + 1) \/ (s[m] = a[m] /\ m = Len(a) /\ T = T + A)
          BY <4>0, <4>2
        <5> HIDE DEF T, A, M
        <5> QED BY <5>1, <5>2
      <4>5. s[m] = a[m] /\ m = Len(a) /\ A = 0
        <5> HIDE DEF T, A
        <5> QED BY <4>4
      <4>6. a[m] = <<>>
        BY <4>4, <4>5
      <4>7. a[m] \o <<mark>> # a[m]
        BY <4>6
      <4> QED BY <2>2, <3>7, <4>5, <4>6, <4>7 DEF Ends
    <3>9. m <= Len(b) /\ Len(f[m - 1]) = Len(g[m - 1])
      BY <1>0, <2>2, <3>1, <3>3, <3>7, <3>8
    <3> QED BY <1>1, <2>2, <3>9
  <2> QED BY <2>3, <2>4
<1>3. \A i \in 1..Len(a) : Same(i)
  <2> HIDE DEF Same
  <2> QED BY <1>2
<1>4. Len(a) \in 1..Len(a)
  BY <1>0
<1> QED BY <1>3, <1>4

LEMMA Decoded ==
    ASSUME NEW S, NEW mark \in S, NEW a, NEW s, NEW f, NEW b, NEW u, NEW g, NEW t,
           Marked(S, mark, a, s), PrefixesTo(S, s, f, t),
           Marked(S, mark, b, u), PrefixesTo(S, u, g, t), Ends(mark, a, s, b, u)
    PROVE  a = b
<1>1. Len(a) <= Len(b) /\ \A i \in 1..Len(a) : a[i] = b[i]
  BY DecodedOneWay
<1>2. Ends(mark, b, u, a, s)
  BY DEF Ends
<1>3. Len(b) <= Len(a)
  BY <1>2, DecodedOneWay
<1>4. a \in Seq(Seq(S)) /\ b \in Seq(Seq(S)) /\ Len(a) \in Nat /\ Len(b) \in Nat
  BY DEF Marked
<1>5. Len(a) = Len(b)
  BY <1>1, <1>3, <1>4
<1> QED BY <1>1, <1>4, <1>5

\* Two texts of parts that end with the mark are of the same parts.
LEMMA SameParts ==
    ASSUME NEW S, NEW mark \in S, NEW a, NEW s, NEW b, NEW u,
           Marked(S, mark, a, s), Marked(S, mark, b, u), Ends(mark, a, s, b, u),
           FlattenSeq(s) = FlattenSeq(u)
    PROVE  a = b
<1>1. s \in Seq(Seq(S)) /\ u \in Seq(Seq(S))
  BY DEF Marked
<1>2. PICK f : PrefixesTo(S, s, f, FlattenSeq(s))
  <2>1. \E f \in [0..Len(s) -> Seq(S)] :
           /\ f[0] = <<>>
           /\ \A i \in 1..Len(s) : f[i] = f[i - 1] \o s[i]
           /\ FlattenSeq(s) = f[Len(s)]
    BY <1>1, Flattened
  <2> QED BY <2>1 DEF PrefixesTo
<1>3. PICK g : PrefixesTo(S, u, g, FlattenSeq(s))
  <2>1. \E h \in [0..Len(u) -> Seq(S)] :
           /\ h[0] = <<>>
           /\ \A i \in 1..Len(u) : h[i] = h[i - 1] \o u[i]
           /\ FlattenSeq(u) = h[Len(u)]
    BY <1>1, Flattened
  <2> QED BY <2>1 DEF PrefixesTo
<1> QED BY <1>2, <1>3, Decoded

\* How many of a set of positions are up to i
Count(S, i) == Cardinality({j \in S : j <= i})

\* Of a set of positions, no two are the k-th.
LEMMA CountedOnce ==
    ASSUME NEW n0 \in Nat, NEW S \in SUBSET (1..n0), NEW i \in S, NEW j \in S,
           Count(S, i) = Count(S, j)
    PROVE  i = j
<1> DEFINE Below(q) == {p \in S : p <= q}
<1>0. IsFiniteSet(S) /\ \A q \in S : q \in Nat
  <2>1. IsFiniteSet(1..n0)
    BY FS_Interval
  <2>2. IsFiniteSet(S)
    BY <2>1, FS_Subset
  <2> QED BY <2>2
<1>1. ASSUME NEW p \in S, NEW q \in S, p < q PROVE Cardinality(Below(p)) < Cardinality(Below(q))
  <2>1. Below(p) \subseteq Below(q) /\ q \in Below(q) /\ q \notin Below(p) /\ Below(q) \subseteq S
    <3>1. \A r \in S : r <= p => r <= q
      BY <1>0, <1>1
    <3>2. q <= q /\ ~(q <= p)
      BY <1>0, <1>1
    <3> QED BY <3>1, <3>2
  <2> HIDE DEF Below
  <2>2. IsFiniteSet(Below(q))
    BY <1>0, <2>1, FS_Subset
  <2>3. Cardinality(Below(p)) <= Cardinality(Below(q))
        /\ (Cardinality(Below(p)) = Cardinality(Below(q)) => Below(p) = Below(q))
    BY <2>1, <2>2, FS_Subset
  <2>4. Cardinality(Below(p)) \in Nat /\ Cardinality(Below(q)) \in Nat
    BY <2>1, <2>2, FS_Subset, FS_CardinalityType
  <2> QED BY <2>1, <2>3, <2>4
<1>2. Cardinality(Below(i)) = Cardinality(Below(j))
  BY DEF Count
<1>3. /\ Cardinality(Below(i)) \in Nat
  <2>1. Below(i) \subseteq S
    OBVIOUS
  <2> HIDE DEF Below
  <2> QED BY <1>0, <2>1, FS_Subset, FS_CardinalityType
<1> HIDE DEF Below
<1>4. ~(i < j) /\ ~(j < i)
  <2>1. i < j => Cardinality(Below(i)) < Cardinality(Below(j))
    BY <1>1
  <2>2. j < i => Cardinality(Below(j)) < Cardinality(Below(i))
    BY <1>1
  <2> QED BY <1>2, <1>3, <2>1, <2>2
<1> QED BY <1>0, <1>4

\* What stands in a subsequence, and where.
LEMMA Subsequences ==
    ASSUME NEW T, NEW s \in Seq(T), NEW S \in SUBSET DOMAIN s
    PROVE  LET w == Subsequence(s, S)
           IN  /\ w \in Seq(T) /\ Len(w) = Cardinality(S) /\ Cardinality(S) \in Nat
               /\ \A i \in S : Count(S, i) \in 1..Len(w) /\ w[Count(S, i)] = s[i]
               /\ \A k \in 1..Len(w) : \E i \in S : k = Count(S, i) /\ w[k] = s[i]
<1> DEFINE From(k) == CHOOSE i \in S : Cardinality({j \in S : j <= i}) = k
           w == Subsequence(s, S)
           C == Cardinality(S)
<1>0. Len(s) \in Nat /\ S \in SUBSET (1..Len(s)) /\ DOMAIN s = 1..Len(s)
  OBVIOUS
<1>1. IsFiniteSet(S) /\ C \in Nat /\ \A i \in S : i \in Nat
  <2>1. IsFiniteSet(1..Len(s))
    BY <1>0, FS_Interval
  <2>2. IsFiniteSet(S)
    BY <1>0, <2>1, FS_Subset
  <2> QED BY <1>0, <2>2, FS_CardinalityType
<1>2. w = [k \in 1..C |-> s[From(k)]]
  BY DEF Subsequence
<1>3. ASSUME NEW k \in 1..C PROVE From(k) \in S /\ Count(S, From(k)) = k
  <2>1. \E i \in S : Cardinality({j \in S : j <= i}) = k
    BY <1>0, Enumerated
  <2> QED BY <2>1 DEF Count
<1>4. ASSUME NEW i \in S PROVE Count(S, i) \in 1..C
  <2> DEFINE Below == {j \in S : j <= i}
  <2>1. Below \subseteq S /\ i \in Below /\ Count(S, i) = Cardinality(Below)
    BY <1>1 DEF Count
  <2> HIDE DEF Below
  <2>2. IsFiniteSet(Below) /\ Count(S, i) \in Nat /\ Count(S, i) <= C
    BY <1>1, <2>1, FS_Subset, FS_CardinalityType
  <2>3. Count(S, i) # 0
    BY <2>1, <2>2, FS_EmptySet
  <2> QED BY <1>1, <2>2, <2>3
<1>5. \A k \in 1..C : w[k] = s[From(k)] /\ s[From(k)] \in T
  <2> HIDE DEF From, w
  <2> QED BY <1>0, <1>2, <1>3
<1>6. w \in Seq(T) /\ Len(w) = C
  <2> HIDE DEF From
  <2>1. w \in [1..C -> T]
    BY <1>2, <1>5
  <2> HIDE DEF w, C
  <2> QED BY <1>1, <2>1
<1>7. ASSUME NEW i \in S PROVE w[Count(S, i)] = s[i]
  <2> DEFINE k == Count(S, i)
  <2>1. k \in 1..C
    BY <1>4
  <2>2. From(k) \in S /\ Count(S, From(k)) = k
    <3> HIDE DEF From, k
    <3> QED BY <1>3, <2>1
  <2>3. From(k) = i
    <3> HIDE DEF From
    <3> DEFINE j == From(k)
    <3>1. j \in S /\ Count(S, j) = Count(S, i)
      BY <2>2
    <3> HIDE DEF j
    <3>2. j = i
      BY <1>0, <3>1, CountedOnce
    <3> QED BY <3>2 DEF j
  <2> HIDE DEF From, w
  <2> QED BY <1>5, <2>1, <2>3
<1> HIDE DEF From, w
<1>8. \A i \in S : Count(S, i) \in 1..Len(w) /\ w[Count(S, i)] = s[i]
  BY <1>4, <1>6, <1>7
<1>9. \A k \in 1..Len(w) : \E i \in S : k = Count(S, i) /\ w[k] = s[i]
  <2>1. ASSUME NEW k \in 1..C PROVE \E i \in S : k = Count(S, i) /\ w[k] = s[i]
    <3>1. From(k) \in S /\ Count(S, From(k)) = k /\ w[k] = s[From(k)]
      BY <1>3, <1>5
    <3> QED BY <3>1
  <2> QED BY <1>6, <2>1
<1>10. w \in Seq(T) /\ Len(w) = Cardinality(S) /\ Cardinality(S) \in Nat
  BY <1>1, <1>6
<1> QED BY <1>8, <1>9, <1>10 DEF w

LEMMA CountSteps ==
    ASSUME NEW n0 \in Nat, NEW S \in SUBSET (1..n0)
    PROVE  /\ Count(S, 0) = 0 /\ Count(S, n0) = Cardinality(S)
           /\ \A i \in 1..n0 : /\ i \in S => Count(S, i) = Count(S, i - 1) + 1
                               /\ i \notin S => Count(S, i) = Count(S, i - 1)
<1> DEFINE Below(i) == {j \in S : j <= i}
<1>0. \A i \in 1..n0 : i \in Nat /\ 1 <= i /\ i <= n0
  OBVIOUS
<1>1. IsFiniteSet(S)
  <2>1. IsFiniteSet(1..n0)
    BY FS_Interval
  <2> QED BY <2>1, FS_Subset
<1>2. Below(0) = {} /\ Below(n0) = S
  <2>1. \A j \in S : ~(j <= 0) /\ j <= n0
    BY <1>0
  <2> QED BY <2>1
<1>3. ASSUME NEW i \in 1..n0
      PROVE  /\ i \in S => Count(S, i) = Count(S, i - 1) + 1
             /\ i \notin S => Count(S, i) = Count(S, i - 1)
  <2>1. \A j \in S : j <= i <=> (j <= i - 1 \/ j = i)
    BY <1>0
  <2>2. ~(i <= i - 1)
    BY <1>0
  <2>3. Below(i) = Below(i - 1) \cup ({i} \cap S) /\ i \notin Below(i - 1)
    BY <2>1, <2>2
  <2>4. Below(i - 1) \subseteq S /\ Count(S, i) = Cardinality(Below(i))
        /\ Count(S, i - 1) = Cardinality(Below(i - 1))
    BY DEF Count
  <2>5. i \notin S => Below(i) = Below(i - 1)
    BY <2>3
  <2>6. i \in S => Below(i) = Below(i - 1) \cup {i}
    BY <2>3
  <2> HIDE DEF Below
  <2>7. IsFiniteSet(Below(i - 1))
    BY <1>1, <2>4, FS_Subset
  <2>8. Cardinality(Below(i - 1) \cup {i}) = Cardinality(Below(i - 1)) + 1
    BY <2>3, <2>7, FS_AddElement
  <2> QED BY <2>4, <2>5, <2>6, <2>8
<1>4. Count(S, 0) = 0 /\ Count(S, n0) = Cardinality(S)
  <2>1. Count(S, 0) = Cardinality(Below(0)) /\ Count(S, n0) = Cardinality(Below(n0))
    BY DEF Count
  <2> HIDE DEF Below
  <2> QED BY <1>2, <2>1, FS_EmptySet
<1> QED BY <1>3, <1>4

\* Empty parts are nothing in a text.
LEMMA Skipped ==
    ASSUME NEW S, NEW s \in Seq(Seq(S)), NEW K \in SUBSET DOMAIN s,
           \A i \in DOMAIN s \ K : s[i] = <<>>
    PROVE  FlattenSeq(s) = FlattenSeq(Subsequence(s, K))
<1> DEFINE u == Subsequence(s, K)
           N == Len(s)
<1>0. N \in Nat /\ DOMAIN s = 1..N /\ K \in SUBSET (1..N)
  OBVIOUS
<1>1. /\ u \in Seq(Seq(S)) /\ Len(u) = Cardinality(K) /\ Len(u) \in Nat
      /\ \A i \in K : Count(K, i) \in 1..Len(u) /\ u[Count(K, i)] = s[i]
  <2> DEFINE T == Seq(S)
  <2>1. s \in Seq(T)
    OBVIOUS
  <2> HIDE DEF T
  <2>2. /\ u \in Seq(T) /\ Len(u) = Cardinality(K) /\ Cardinality(K) \in Nat
        /\ \A i \in K : Count(K, i) \in 1..Len(u) /\ u[Count(K, i)] = s[i]
    BY <2>1, Subsequences
  <2> QED BY <2>2 DEF T
<1> HIDE DEF u
<1>2. PICK f \in [0..N -> Seq(S)] : /\ f[0] = <<>> /\ FlattenSeq(s) = f[N]
                                    /\ \A i \in 1..N : f[i] = f[i - 1] \o s[i]
  BY Flattened
<1>3. PICK h \in [0..Len(u) -> Seq(S)] : /\ h[0] = <<>> /\ FlattenSeq(u) = h[Len(u)]
                                         /\ \A i \in 1..Len(u) : h[i] = h[i - 1] \o u[i]
  BY <1>1, Flattened
<1>4. /\ Count(K, 0) = 0 /\ Count(K, N) = Len(u)
      /\ \A i \in 1..N : /\ i \in K => Count(K, i) = Count(K, i - 1) + 1
                         /\ i \notin K => Count(K, i) = Count(K, i - 1)
  BY <1>0, <1>1, CountSteps
<1> HIDE DEF N
<1> DEFINE Bad == {i \in 0..N : f[i] # h[Count(K, i)]}
<1>5. Bad = {}
  <2> SUFFICES ASSUME Bad # {} PROVE FALSE
    OBVIOUS
  <2>1. PICK m \in Bad : \A k \in Bad : m <= k
    <3>1. Bad \in SUBSET Nat
      BY <1>0
    <3> HIDE DEF Bad
    <3> QED BY <3>1, Least
  <2>2. m \in 0..N /\ f[m] # h[Count(K, m)]
    BY <2>1
  <2> HIDE DEF Bad
  <2>3. m # 0
    BY <1>2, <1>3, <1>4, <2>2
  <2>4. m \in 1..N /\ m - 1 \in 0..N /\ m - 1 \notin Bad
    BY <1>0, <2>1, <2>2, <2>3
  <2>5. f[m - 1] = h[Count(K, m - 1)] /\ f[m] = f[m - 1] \o s[m] /\ f[m - 1] \in Seq(S)
    BY <1>2, <2>4 DEF Bad
  <2>6. CASE m \in K
    <3> DEFINE c == Count(K, m)
    <3>1. c \in 1..Len(u) /\ u[c] = s[m]
      BY <1>1, <2>6
    <3>2. c = Count(K, m - 1) + 1
      BY <1>4, <2>4, <2>6
    <3>3. m \in Nat /\ m - 1 \in Nat
      BY <1>0, <2>4
    <3>4. Count(K, m - 1) \in Int => Count(K, m - 1) = c - 1
      <4> DEFINE d == Count(K, m - 1)
      <4>1. c = d + 1
        BY <3>2
      <4> HIDE DEF c, d
      <4>2. d \in Int => d = c - 1
        BY <4>1
      <4> QED BY <4>2 DEF d
    <3>5. Count(K, m - 1) \in Int
      <4> DEFINE B == {j \in K : j <= m - 1}
      <4>1. B \subseteq 1..N /\ Count(K, m - 1) = Cardinality(B)
        BY <1>0 DEF Count
      <4> HIDE DEF B
      <4>2. IsFiniteSet(1..N)
        BY <1>0, FS_Interval
      <4>3. IsFiniteSet(B)
        BY <4>1, <4>2, FS_Subset
      <4> QED BY <4>1, <4>3, FS_CardinalityType
    <3>6. f[m - 1] = h[c - 1]
      BY <2>5, <3>4, <3>5
    <3> HIDE DEF c
    <3>7. h[c] = h[c - 1] \o u[c]
      BY <1>3, <3>1
    <3>8. h[c] = f[m]
      BY <2>5, <3>1, <3>6, <3>7
    <3> QED BY <2>2, <3>8 DEF c
  <2>7. CASE m \notin K
    <3>1. s[m] = <<>>
      BY <1>0, <2>4, <2>7
    <3>2. f[m] = f[m - 1]
      <4> DEFINE P == f[m - 1]
      <4>1. P \in Seq(S) /\ f[m] = P \o <<>>
        BY <2>5, <3>1
      <4> HIDE DEF P
      <4>2. P \o <<>> = P
        BY <4>1
      <4> QED BY <4>1, <4>2 DEF P
    <3> QED BY <1>4, <2>2, <2>4, <2>5, <2>7, <3>2
  <2> QED BY <2>6, <2>7
<1>6. N \in 0..N
  BY <1>0
<1>7. f[N] = h[Count(K, N)]
  BY <1>5, <1>6
<1> QED BY <1>2, <1>3, <1>4, <1>7 DEF u

-----------------------------------------------------------------------------
(* Whether a text says of which messages it was made.                      *)

\* A sequence that something is put before
LEMMA Led ==
    ASSUME NEW S, NEW r \in S, NEW c \in Seq(S)
    PROVE  /\ <<r>> \in Seq(S) /\ <<r>> \o c \in Seq(S) /\ Len(c) \in Nat
           /\ Len(<<r>> \o c) = 1 + Len(c) /\ (<<r>> \o c)[1] = r
           /\ \A p \in 1..Len(c) : (<<r>> \o c)[1 + p] = c[p]
<1>1. <<r>> \in Seq(S) /\ Len(c) \in Nat
  OBVIOUS
<1>2. /\ <<r>> \o c \in Seq(S) /\ Len(<<r>> \o c) = 1 + Len(c) /\ (<<r>> \o c)[1] = r
      /\ \A p \in 1..Len(c) : (<<r>> \o c)[1 + p] = c[p]
  OBVIOUS
<1> QED BY <1>1, <1>2

\* Words and the line break; that a literal is in STRING no backend knows
Tokens == STRING \cup {"\n"}

LEMMA TokensHas ==
    /\ "\n" \in Tokens /\ \A r \in STRING : r \in Tokens
    /\ \A c \in Seq(STRING) : c \in Seq(Tokens)
BY DEF Tokens

\* The words of a message, its role first
Words(m) == [i \in DOMAIN m |-> <<m[i].role>> \o m[i].content]

LEMMA SameMessages ==
    ASSUME NEW m \in Seq(Message), NEW w \in Seq(Message), Words(m) = Words(w)
    PROVE  m = w
<1>1. /\ DOMAIN m = 1..Len(m) /\ DOMAIN w = 1..Len(w) /\ Len(m) \in Nat /\ Len(w) \in Nat
      /\ \A i \in DOMAIN m : m[i] \in Message
      /\ \A i \in DOMAIN w : w[i] \in Message
  OBVIOUS
<1>2. DOMAIN Words(m) = DOMAIN m /\ DOMAIN Words(w) = DOMAIN w
  BY DEF Words
<1>3. ASSUME NEW x \in Message, NEW y \in Message,
             <<x.role>> \o x.content = <<y.role>> \o y.content
      PROVE  x = y
  <2> DEFINE p == x.content
             q == y.content
  <2>1. p \in Seq(STRING) /\ q \in Seq(STRING) /\ x.role \in STRING /\ y.role \in STRING
    BY DEF Message
  <2>2. <<x.role>> \in Seq(STRING) /\ <<y.role>> \in Seq(STRING)
    BY <2>1
  <2> HIDE DEF p, q
  <2>3. /\ (<<x.role>> \o p)[1] = x.role /\ (<<y.role>> \o q)[1] = y.role
        /\ Len(<<x.role>> \o p) = 1 + Len(p) /\ Len(<<y.role>> \o q) = 1 + Len(q)
        /\ \A i \in 1..Len(p) : (<<x.role>> \o p)[1 + i] = p[i]
        /\ \A i \in 1..Len(q) : (<<y.role>> \o q)[1 + i] = q[i]
    BY <2>1, <2>2
  <2>4. <<x.role>> \o p = <<y.role>> \o q
    BY <1>3 DEF p, q
  <2>5. x.role = y.role /\ Len(p) = Len(q)
    BY <2>1, <2>3, <2>4
  <2>6. \A i \in 1..Len(p) : p[i] = q[i]
    BY <2>3, <2>4, <2>5
  <2>7. p = q
    BY <2>1, <2>5, <2>6
  <2>8. x = [role |-> x.role, content |-> x.content] /\ y = [role |-> y.role, content |-> y.content]
    BY DEF Message
  <2> QED BY <2>5, <2>7, <2>8 DEF p, q
<1>4. DOMAIN m = DOMAIN w
  BY <1>2
<1>5. ASSUME NEW i \in DOMAIN m PROVE m[i] = w[i]
  <2>1. Words(m)[i] = <<m[i].role>> \o m[i].content /\ Words(w)[i] = <<w[i].role>> \o w[i].content
    BY <1>4 DEF Words
  <2>2. m[i] \in Message /\ w[i] \in Message
    BY <1>1, <1>4
  <2>3. <<m[i].role>> \o m[i].content = <<w[i].role>> \o w[i].content
    BY <2>1
  <2> QED BY <1>3, <2>2, <2>3
<1>6. Len(m) = Len(w)
  <2>1. 1..Len(m) = 1..Len(w)
    BY <1>1, <1>4
  <2> DEFINE a == Len(m)
             b == Len(w)
  <2>2. a \in Nat /\ b \in Nat /\ 1..a = 1..b
    BY <1>1, <2>1
  <2> HIDE DEF a, b
  <2>3. a = b
    BY <2>2
  <2> QED BY <2>3 DEF a, b
<1> QED BY <1>1, <1>5, <1>6

\* The words are those of the message, and the line break is none of them.
LEMMA WordsOf ==
    ASSUME NEW m \in Seq(Message)
    PROVE  /\ Words(m) \in Seq(Seq(Tokens)) /\ Len(Words(m)) = Len(m) /\ Len(m) \in Nat
           /\ \A i \in 1..Len(m) :
                 /\ Words(m)[i] = <<m[i].role>> \o m[i].content
                 /\ Words(m)[i] \in Seq(Tokens) /\ Words(m)[i] # <<>>
                 /\ "\n" \notin {m[i].role} \cup ToSet(m[i].content)
                    => "\n" \notin {Words(m)[i][p] : p \in 1..Len(Words(m)[i])}
<1>1. /\ DOMAIN m = 1..Len(m) /\ Len(m) \in Nat /\ \A i \in 1..Len(m) : m[i] \in Message
  OBVIOUS
<1>2. ASSUME NEW i \in 1..Len(m)
      PROVE  /\ Words(m)[i] = <<m[i].role>> \o m[i].content
             /\ Words(m)[i] \in Seq(Tokens) /\ Words(m)[i] # <<>>
             /\ "\n" \notin {m[i].role} \cup ToSet(m[i].content)
                => "\n" \notin {Words(m)[i][p] : p \in 1..Len(Words(m)[i])}
  <2> DEFINE c == m[i].content
             r == m[i].role
             x == <<r>> \o c
  <2>1. Words(m)[i] = x
    BY <1>1 DEF Words
  <2>2. c \in Seq(Tokens) /\ r \in Tokens
    <3>1. m[i].content \in Seq(STRING) /\ m[i].role \in STRING
      BY <1>1 DEF Message
    <3> QED BY <3>1, TokensHas
  <2> HIDE DEF c, r
  <2>4. x \in Seq(Tokens) /\ Len(x) = 1 + Len(c) /\ x[1] = r /\ Len(c) \in Nat
        /\ \A p \in 1..Len(c) : x[1 + p] = c[p]
    BY <2>2, Led
  <2>5. x # <<>>
    BY <2>4
  <2>6. ASSUME "\n" \notin {r} \cup ToSet(c), NEW p \in 1..Len(x) PROVE x[p] # "\n"
    <3>1. CASE p = 1
      BY <2>4, <2>6, <3>1
    <3>2. CASE p # 1
      <4> DEFINE q == p - 1
      <4>1. q \in 1..Len(c) /\ 1 + q = p
        BY <2>4, <3>2
      <4> HIDE DEF q, x
      <4>2. x[p] = c[q] /\ c[q] \in ToSet(c)
        BY <2>2, <2>4, <4>1 DEF ToSet
      <4> QED BY <2>6, <4>2
    <3> QED BY <3>1, <3>2
  <2> HIDE DEF x
  <2>7. "\n" \notin {r} \cup ToSet(c) => "\n" \notin {x[p] : p \in 1..Len(x)}
    BY <2>6
  <2>8. x = <<m[i].role>> \o m[i].content
    BY DEF x, c, r
  <2> QED BY <2>1, <2>4, <2>5, <2>7, <2>8 DEF c, r
<1>3. Words(m) \in Seq(Seq(Tokens)) /\ Len(Words(m)) = Len(m)
  <2>1. Words(m) = [i \in 1..Len(m) |-> <<m[i].role>> \o m[i].content]
    BY <1>1 DEF Words
  <2>2. \A i \in 1..Len(m) : <<m[i].role>> \o m[i].content \in Seq(Tokens)
    BY <1>2
  <2>3. Words(m) \in [1..Len(m) -> Seq(Tokens)]
    BY <2>1, <2>2
  <2> QED BY <1>1, <2>3
<1> QED BY <1>1, <1>2, <1>3

LEMMA SameDialogue ==
    ASSUME NEW m \in Seq(Message) \ {<<>>}, NEW w \in Seq(Message) \ {<<>>},
           Unbroken(m), Unbroken(w), Dialogue(m) = Dialogue(w)
    PROVE  m = w
<1> DEFINE Parts(r) == [i \in DOMAIN r |-> <<r[i].role>> \o r[i].content \o <<"\n">>]
<1>1. ASSUME NEW r \in Seq(Message) \ {<<>>}, Unbroken(r)
      PROVE  Marked(Tokens, "\n", Words(r), Parts(r))
             /\ \A i \in 1..Len(Words(r)) : Words(r)[i] # <<>>
  <2>1. /\ DOMAIN r = 1..Len(r) /\ Len(r) # 0
    OBVIOUS
  <2>2. \A i \in 1..Len(r) : "\n" \notin {Words(r)[i][p] : p \in 1..Len(Words(r)[i])}
    BY <1>1, <2>1, WordsOf DEF Unbroken
  <2>3. \A i \in 1..Len(r) : Parts(r)[i] = Words(r)[i] \o <<"\n">> /\ Parts(r)[i] \in Seq(Tokens)
    <3> TAKE i \in 1..Len(r)
    <3>1. Parts(r)[i] = <<r[i].role>> \o r[i].content \o <<"\n">>
      BY <2>1
    <3>2. Words(r)[i] = <<r[i].role>> \o r[i].content /\ Words(r)[i] \in Seq(Tokens)
      BY WordsOf
    <3>3. <<"\n">> \in Seq(Tokens)
      <4>1. "\n" \in Tokens
        BY TokensHas
      <4> QED BY <3>2, <4>1, Led
    <3> HIDE DEF Parts
    <3> QED BY <3>1, <3>2, <3>3
  <2>4. Parts(r) = [i \in 1..Len(r) |-> Parts(r)[i]]
    BY <2>1
  <2> HIDE DEF Parts
  <2>5. Parts(r) \in [1..Len(r) -> Seq(Tokens)]
    BY <2>3, <2>4
  <2>6. Parts(r) \in Seq(Seq(Tokens)) /\ Len(Parts(r)) = Len(r)
    <3>1. Len(r) \in Nat
      BY WordsOf
    <3> DEFINE k == Len(r)
               T == Seq(Tokens)
               p == Parts(r)
    <3>2. p \in [1..k -> T] /\ k \in Nat
      BY <2>5, <3>1
    <3> HIDE DEF k, T, p
    <3>3. p \in Seq(T) /\ Len(p) = k
      BY <3>2
    <3> QED BY <3>3 DEF p, k, T
  <2>7. Words(r) \in Seq(Seq(Tokens)) /\ Len(Words(r)) = Len(r)
        /\ \A i \in 1..Len(r) : Words(r)[i] # <<>>
    BY WordsOf
  <2> QED BY <2>1, <2>2, <2>3, <2>6, <2>7 DEF Marked
<1>2. Marked(Tokens, "\n", Words(m), Parts(m)) /\ \A i \in 1..Len(Words(m)) : Words(m)[i] # <<>>
  BY <1>1
<1>3. Marked(Tokens, "\n", Words(w), Parts(w)) /\ \A i \in 1..Len(Words(w)) : Words(w)[i] # <<>>
  BY <1>1
<1>4. FlattenSeq(Parts(m)) = FlattenSeq(Parts(w))
  BY DEF Dialogue
<1> HIDE DEF Parts
<1>5. Ends("\n", Words(m), Parts(m), Words(w), Parts(w))
  BY <1>2, <1>3 DEF Ends
<1>6. Words(m) = Words(w)
  <2>1. "\n" \in Tokens
    BY TokensHas
  <2> QED BY <1>2, <1>3, <1>4, <1>5, <2>1, SameParts
<1> QED BY <1>6, SameMessages

\* A sequence is not one with something more.
LEMMA Longer ==
    ASSUME NEW S, NEW x \in Seq(S), NEW e \in S
    PROVE  x \o <<e>> # x /\ Append(x, e) = x \o <<e>> /\ x \o <<e>> \in Seq(S)
<1>1. Len(x) \in Nat /\ Len(x \o <<e>>) = Len(x) + 1
  OBVIOUS
<1>2. Append(x, e) = x \o <<e>> /\ x \o <<e>> \in Seq(S)
  OBVIOUS
<1>3. Len(x) + 1 # Len(x)
  BY <1>1
<1> QED BY <1>1, <1>2, <1>3

Contents(m) == [i \in DOMAIN m |-> m[i].content]

LEMMA SameContents ==
    ASSUME NEW m \in Seq(Message) \ {<<>>}, NEW w \in Seq(Message) \ {<<>>},
           Unbroken(m), Unbroken(w), AllContent(m) = AllContent(w)
    PROVE  Contents(m) = Contents(w)
<1> DEFINE Part(r, i) == IF i = Len(r) THEN r[i].content ELSE Append(r[i].content, "\n")
           Parts(r) == [i \in DOMAIN r |-> Part(r, i)]
<1>1. ASSUME NEW r \in Seq(Message) \ {<<>>}, Unbroken(r)
      PROVE  /\ Marked(Tokens, "\n", Contents(r), Parts(r))
             /\ Parts(r)[Len(Contents(r))] # Contents(r)[Len(Contents(r))] \o <<"\n">>
  <2> DEFINE k == Len(r)
             T == Seq(Tokens)
             c(i) == r[i].content
  <2>1. /\ DOMAIN r = 1..k /\ k \in Nat /\ k # 0 /\ \A i \in 1..k : r[i] \in Message
    OBVIOUS
  <2>2. \A i \in 1..k : c(i) \in T
    <3>1. \A i \in 1..k : r[i].content \in Seq(STRING)
      BY <2>1 DEF Message
    <3> QED BY <3>1, TokensHas
  <2>3. \A i \in 1..k : "\n" \notin {c(i)[p] : p \in 1..Len(c(i))}
    <3> TAKE i \in 1..k
    <3>1. "\n" \notin ToSet(c(i))
      BY <1>1, <2>1 DEF Unbroken
    <3>2. DOMAIN c(i) = 1..Len(c(i))
      BY <2>2
    <3> QED BY <3>1, <3>2 DEF ToSet
  <2>4. \A i \in 1..k : /\ Part(r, i) = IF i = k THEN c(i) ELSE c(i) \o <<"\n">>
                        /\ Part(r, i) \in T /\ c(i) \o <<"\n">> # c(i)
    <3> TAKE i \in 1..k
    <3>1. c(i) \in Seq(Tokens)
      BY <2>2
    <3>2. Append(c(i), "\n") = c(i) \o <<"\n">> /\ c(i) \o <<"\n">> \in Seq(Tokens)
          /\ c(i) \o <<"\n">> # c(i)
      <4> HIDE DEF c
      <4> QED BY <3>1, TokensHas, Longer
    <3> QED BY <3>1, <3>2
  <2>5. Parts(r) = [i \in 1..k |-> Part(r, i)] /\ Contents(r) = [i \in 1..k |-> c(i)]
    BY <2>1 DEF Contents
  <2> HIDE DEF Part, c, T, k
  <2>6. Parts(r) \in [1..k -> T] /\ Contents(r) \in [1..k -> T]
    BY <2>2, <2>4, <2>5
  <2> DEFINE a == Contents(r)
             s == Parts(r)
  <2>7. a \in Seq(T) /\ s \in Seq(T) /\ Len(a) = k /\ Len(s) = k
    <3> HIDE DEF a, s
    <3>1. a \in [1..k -> T] /\ s \in [1..k -> T]
      BY <2>6 DEF a, s
    <3> QED BY <2>1, <3>1
  <2>8. \A i \in 1..k : a[i] = c(i) /\ s[i] = Part(r, i)
    BY <2>5
  <2>9. k \in 1..k
    BY <2>1
  <2> HIDE DEF a, s
  <2>10. s[k] # a[k] \o <<"\n">>
    BY <2>4, <2>8, <2>9
  <2>11. Marked(Tokens, "\n", a, s)
    <3>1. a \in Seq(Seq(Tokens)) /\ s \in Seq(Seq(Tokens)) /\ Len(a) = k /\ Len(s) = k /\ k # 0
      BY <2>1, <2>7 DEF T
    <3>2. \A i \in 1..k : "\n" \notin {a[i][p] : p \in 1..Len(a[i])}
      BY <2>3, <2>8
    <3>3. \A i \in 1..k : s[i] = a[i] \o <<"\n">> \/ (i = k /\ s[i] = a[i])
      BY <2>4, <2>8
    <3> QED BY <3>1, <3>2, <3>3 DEF Marked
  <2> QED BY <2>7, <2>10, <2>11 DEF a, s
<1>2. FlattenSeq(Parts(m)) = FlattenSeq(Parts(w))
  BY DEF AllContent
<1> HIDE DEF Parts
<1>3. /\ Marked(Tokens, "\n", Contents(m), Parts(m))
      /\ Marked(Tokens, "\n", Contents(w), Parts(w))
      /\ Ends("\n", Contents(m), Parts(m), Contents(w), Parts(w))
  BY <1>1 DEF Ends
<1> QED BY <1>2, <1>3, SameParts, TokensHas

LEMMA Windows ==
    ASSUME NEW m \in Seq(Message)
    PROVE  /\ Window(m) \in Seq(Message)
           /\ Unbroken(m) => Unbroken(Window(m))
<1> DEFINE k == Len(m)
           from == IF k > 2 * ContextLen THEN k - 2 * ContextLen + 1 ELSE 1
           w == SubSeq(m, from, k)
<1>1. k \in Nat /\ DOMAIN m = 1..k /\ \A i \in 1..k : m[i] \in Message
  OBVIOUS
<1>2. Window(m) = w
  BY DEF Window
<1>3. from \in Nat /\ from >= 1
  BY <1>1, BoundsAssumption
<1> HIDE DEF from, k
<1>4. w \in Seq(Message) /\ \A i \in DOMAIN w : from + i - 1 \in 1..k /\ w[i] = m[from + i - 1]
  BY <1>1, <1>3
<1> HIDE DEF w
<1>5. \A i \in DOMAIN w : \E j \in DOMAIN m : w[i] = m[j]
  BY <1>1, <1>4
<1>6. Unbroken(m) => Unbroken(w)
  BY <1>5 DEF Unbroken
<1> QED BY <1>2, <1>4, <1>6

LEMMA SameQueries ==
    ASSUME NEW m \in Seq(Message), NEW w \in Seq(Message),
           Unbroken(m), Unbroken(w),
           ConcatAllQueries(m) = ConcatAllQueries(w), ConcatAllQueries(m) # <<>>
    PROVE  Queries(m) = Queries(w)
<1> DEFINE Part(r, i) == IF r[i].role \in SkipList THEN <<>>
                         ELSE <<r[i].role>> \o r[i].content \o (IF i = Len(r) THEN <<>> ELSE <<"\n">>)
           Parts(r) == [i \in DOMAIN r |-> Part(r, i)]
           Asking(r) == {i \in DOMAIN r : r[i].role \notin SkipList}
           Asked(r) == Subsequence(r, Asking(r))
           Told(r) == Subsequence(Parts(r), Asking(r))
<1>1. ASSUME NEW r \in Seq(Message), Unbroken(r), FlattenSeq(Parts(r)) # <<>>
      PROVE  /\ FlattenSeq(Parts(r)) = FlattenSeq(Told(r)) /\ Asked(r) \in Seq(Message)
             /\ Marked(Tokens, "\n", Words(Asked(r)), Told(r))
             /\ \A i \in 1..Len(Words(Asked(r))) : Words(Asked(r))[i] # <<>>
  <2> DEFINE k == Len(r)
             T == Seq(Tokens)
             K == Asking(r)
             s == Parts(r)
             q == Asked(r)
             u == Told(r)
             word(i) == <<r[i].role>> \o r[i].content
  <2>1. /\ DOMAIN r = 1..k /\ k \in Nat /\ \A i \in 1..k : r[i] \in Message
        /\ K \in SUBSET (1..k)
    OBVIOUS
  <2>2. \A i \in 1..k : /\ Words(r)[i] = word(i) /\ word(i) \in T
                        /\ "\n" \notin {word(i)[p] : p \in 1..Len(word(i))}
    <3> TAKE i \in 1..k
    <3>1. "\n" \notin {r[i].role} \cup ToSet(r[i].content)
      BY <1>1, <2>1 DEF Unbroken
    <3>2. /\ Words(r)[i] = <<r[i].role>> \o r[i].content /\ Words(r)[i] \in Seq(Tokens)
          /\ "\n" \notin {Words(r)[i][p] : p \in 1..Len(Words(r)[i])}
      BY <3>1, WordsOf
    <3>3. Words(r)[i] = word(i)
      BY <3>2
    <3> HIDE DEF word
    <3> QED BY <3>2, <3>3
  <2> HIDE DEF word
  <2>3. \A i \in 1..k : /\ i \notin K => Part(r, i) = <<>>
                        /\ i \in K => \/ Part(r, i) = word(i) \o <<"\n">>
                                      \/ i = k /\ Part(r, i) = word(i)
                        /\ Part(r, i) \in T
    <3> TAKE i \in 1..k
    <3>1. i \notin K => Part(r, i) = <<>>
      BY <2>1
    <3>2. i \in K => Part(r, i) = word(i) \o (IF i = k THEN <<>> ELSE <<"\n">>)
      BY DEF word
    <3>3. word(i) \o <<>> = word(i) /\ word(i) \o <<"\n">> \in Seq(Tokens) /\ word(i) \in Seq(Tokens)
      <4> DEFINE x == word(i)
      <4>1. x \in Seq(Tokens)
        BY <2>2
      <4> HIDE DEF x
      <4>2. x \o <<>> = x /\ x \o <<"\n">> \in Seq(Tokens)
        BY <4>1, TokensHas, Longer
      <4> QED BY <4>1, <4>2 DEF x
    <3>4. <<>> \in Seq(Tokens)
      OBVIOUS
    <3> HIDE DEF Part, K, k, s, q, u
    <3>5. CASE i \notin K
      BY <3>1, <3>4, <3>5
    <3>6. CASE i \in K /\ i = k
      BY <3>2, <3>3, <3>6
    <3>7. CASE i \in K /\ i # k
      BY <3>2, <3>3, <3>7
    <3> QED BY <3>5, <3>6, <3>7
  <2>4. s = [i \in 1..k |-> Part(r, i)]
    BY <2>1
  <2> HIDE DEF Part, K, k, T
  <2>5. s \in Seq(T) /\ Len(s) = k /\ \A i \in 1..k : s[i] = Part(r, i)
    <3> HIDE DEF s
    <3>1. s \in [1..k -> T]
      BY <2>3, <2>4
    <3> QED BY <2>1, <2>4, <3>1
  <2> HIDE DEF s
  <2>6. DOMAIN s = 1..k
    BY <2>1, <2>5
  <2>7. q = Subsequence(r, K) /\ u = Subsequence(s, K)
    BY DEF K, s
  <2> HIDE DEF q, u
  <2>8. /\ q \in Seq(Message) /\ Len(q) = Cardinality(K) /\ Cardinality(K) \in Nat
        /\ \A i \in K : Count(K, i) \in 1..Len(q) /\ q[Count(K, i)] = r[i]
    <3>1. K \in SUBSET DOMAIN r
      BY <2>1
    <3> DEFINE z == Subsequence(r, K)
    <3>2. /\ z \in Seq(Message) /\ Len(z) = Cardinality(K) /\ Cardinality(K) \in Nat
          /\ \A i \in K : Count(K, i) \in 1..Len(z) /\ z[Count(K, i)] = r[i]
      BY <3>1, Subsequences
    <3> HIDE DEF z
    <3> QED BY <2>7, <3>2 DEF z
  <2>9. /\ u \in Seq(T) /\ Len(u) = Cardinality(K)
        /\ \A j \in 1..Len(u) : \E i \in K : j = Count(K, i) /\ u[j] = s[i]
    <3>1. K \in SUBSET DOMAIN s /\ s \in Seq(T)
      BY <2>1, <2>5, <2>6
    <3> DEFINE z == Subsequence(s, K)
    <3>2. /\ z \in Seq(T) /\ Len(z) = Cardinality(K)
          /\ \A j \in 1..Len(z) : \E i \in K : j = Count(K, i) /\ z[j] = s[i]
      BY <3>1, Subsequences
    <3> HIDE DEF z
    <3> QED BY <2>7, <3>2 DEF z
  <2>10. FlattenSeq(s) = FlattenSeq(u)
    <3>1. \A i \in DOMAIN s \ K : s[i] = <<>>
      BY <2>3, <2>5, <2>6
    <3>2. s \in Seq(Seq(Tokens))
      BY <2>5 DEF T
    <3> QED BY <2>1, <2>6, <2>7, <3>1, <3>2, Skipped
  <2>11. Len(u) # 0
    <3> SUFFICES ASSUME Len(u) = 0 PROVE FALSE
      OBVIOUS
    <3>1. u \in Seq(Seq(Tokens))
      BY <2>9 DEF T
    <3>2. FlattenSeq(u) = <<>>
      BY <3>1, Flattened
    <3> QED BY <1>1, <2>10, <3>2 DEF s
  <2>12. ASSUME NEW j \in 1..Len(u)
         PROVE  /\ "\n" \notin {Words(q)[j][p] : p \in 1..Len(Words(q)[j])}
                /\ u[j] = Words(q)[j] \o <<"\n">> \/ (j = Len(u) /\ u[j] = Words(q)[j])
    <3>1. PICK i \in K : j = Count(K, i) /\ u[j] = s[i]
      BY <2>9
    <3>2. i \in 1..k /\ q[j] = r[i] /\ j \in 1..Len(q)
      BY <2>1, <2>8, <3>1
    <3>3. Words(q)[j] = word(i)
      BY <2>8, <3>2, WordsOf DEF word
    <3>4. i = k => j = Len(u)
      BY <2>1, <2>9, <3>1, CountSteps
    <3> QED BY <2>2, <2>3, <2>5, <3>1, <3>2, <3>3, <3>4
  <2>13. /\ Words(q) \in Seq(Seq(Tokens)) /\ Len(Words(q)) = Len(u)
         /\ \A j \in 1..Len(q) : Words(q)[j] # <<>>
    BY <2>8, <2>9, WordsOf
  <2>14. Marked(Tokens, "\n", Words(q), u)
    <3>1. u \in Seq(Seq(Tokens))
      BY <2>9 DEF T
    <3> QED BY <2>11, <2>12, <2>13, <3>1 DEF Marked
  <2>15. \A j \in 1..Len(Words(q)) : Words(q)[j] # <<>>
    BY <2>8, <2>9, <2>13
  <2> QED BY <2>8, <2>10, <2>14, <2>15 DEF q, u, s
<1> DEFINE x == Window(m)
           y == Window(w)
<1>2. x \in Seq(Message) /\ y \in Seq(Message) /\ Unbroken(x) /\ Unbroken(y)
  BY Windows
<1>3. FlattenSeq(Parts(x)) = FlattenSeq(Parts(y)) /\ FlattenSeq(Parts(x)) # <<>>
  BY DEF ConcatAllQueries
<1>4. Queries(m) = Asked(x) /\ Queries(w) = Asked(y)
  BY DEF Queries
<1> HIDE DEF x, y, Parts, Told, Asked
<1>5. /\ FlattenSeq(Parts(x)) = FlattenSeq(Told(x)) /\ Asked(x) \in Seq(Message)
      /\ Marked(Tokens, "\n", Words(Asked(x)), Told(x))
      /\ \A i \in 1..Len(Words(Asked(x))) : Words(Asked(x))[i] # <<>>
  BY <1>1, <1>2, <1>3
<1>6. /\ FlattenSeq(Parts(y)) = FlattenSeq(Told(y)) /\ Asked(y) \in Seq(Message)
      /\ Marked(Tokens, "\n", Words(Asked(y)), Told(y))
      /\ \A i \in 1..Len(Words(Asked(y))) : Words(Asked(y))[i] # <<>>
  BY <1>1, <1>2, <1>3
<1>7. Ends("\n", Words(Asked(x)), Told(x), Words(Asked(y)), Told(y))
  BY <1>5, <1>6 DEF Ends
<1>8. FlattenSeq(Told(x)) = FlattenSeq(Told(y))
  BY <1>3, <1>5, <1>6
<1>9. Words(Asked(x)) = Words(Asked(y))
  BY <1>5, <1>6, <1>7, <1>8, SameParts, TokensHas
<1>10. Asked(x) = Asked(y)
  BY <1>5, <1>6, <1>9, SameMessages
<1> QED BY <1>4, <1>10

\* The requests that adapt gets, of which rows are made
Served == IF conf.pre \in Getters THEN Inputs ELSE Servable

\* What the server makes of a chat is a chat.
LEMMA StrippedChat ==
    ASSUME NEW r \in Chats
    PROVE  Stripped(r) \in Seq(Message) \ {<<>>}
<1>1. r \in Seq(Message) /\ r # <<>>
  BY RequestsAssumption
<1>2. Len(r) \in Nat /\ Len(r) # 0 /\ DOMAIN r = 1..Len(r) /\ \A i \in 1..Len(r) : r[i] \in Message
  BY <1>1
<1>3. ASSUME NEW m \in Message PROVE Unmarked(m) \in Message
  <2> DEFINE c == m.content
             K == {i \in DOMAIN c : c[i] \notin {Marker}}
             z == Subsequence(c, K)
  <2>1. c \in Seq(STRING) /\ K \in SUBSET DOMAIN c
    BY DEF Message
  <2>2. z \in Seq(STRING)
    <3> HIDE DEF c, K
    <3> QED BY <2>1, Subsequences
  <2>3. Unmarked(m) = [m EXCEPT !.content = z]
    BY DEF Unmarked, Without
  <2> HIDE DEF z
  <2> QED BY <2>2, <2>3 DEF Message
<1>4. ASSUME NEW i \in 1..Len(r)
      PROVE  [r EXCEPT ![i] = Unmarked(r[i])] \in Seq(Message) \ {<<>>}
  <2> DEFINE u == Unmarked(r[i])
  <2>1. u \in Message
    BY <1>2, <1>3
  <2> HIDE DEF u
  <2>2. [r EXCEPT ![i] = u] \in Seq(Message) /\ DOMAIN [r EXCEPT ![i] = u] = DOMAIN r
    BY <1>1, <2>1
  <2>3. i \in DOMAIN [r EXCEPT ![i] = u]
    BY <1>2, <2>2
  <2>4. [r EXCEPT ![i] = u] # <<>>
    BY <2>3
  <2> QED BY <2>2, <2>4 DEF u
<1>5. 1 \in 1..Len(r) /\ Len(r) \in 1..Len(r)
  BY <1>2
<1> QED BY <1>4, <1>5 DEF Stripped

\* The key of a request says what the pre-processor looks at.
LEMMA SameView ==
    ASSUME conf \in Configs, conf.pre # "last_content_without_template",
           NEW q \in Served, NEW r \in Served, Kept(q), Kept(r),
           OwnText(q).store = OwnText(r).store, OwnText(q).store # <<>>
    PROVE  View(q) = View(r)
<1>1. conf.pre \in Pres
  BY ConfigsAssumption
<1>2. CASE conf.pre \in Getters
  <2>1. conf.pre \notin Contexts
    BY <1>2 DEF Getters, Contexts
  <2>2. OwnText(q) = Both(Field(conf.pre, q)) /\ OwnText(r) = Both(Field(conf.pre, r))
    BY <1>2, <2>1 DEF OwnText, Text, Getters
  <2>3. Field(conf.pre, q) = Field(conf.pre, r)
    BY <2>2 DEF Both
  <2>4. CASE conf.pre = "get_file_bytes"
    <3>1. q.tail = 0 /\ r.tail = 0
      BY <2>4 DEF Kept
    <3>2. Field(conf.pre, q) = <<q.head>> /\ Field(conf.pre, r) = <<r.head>>
      BY <2>4 DEF Field, Peek
    <3>3. q.head = r.head
      <4> DEFINE h == q.head
                 i == r.head
      <4>1. <<h>> = <<i>>
        BY <2>3, <3>2
      <4> HIDE DEF h, i
      <4>2. h = i
        BY <4>1
      <4> QED BY <4>2 DEF h, i
    <3>4. View(q) = <<q.head, q.tail>> /\ View(r) = <<r.head, r.tail>>
      BY <2>4 DEF View, Getters, Contexts
    <3> QED BY <3>1, <3>3, <3>4
  <2>5. CASE conf.pre = "get_input_str"
    <3>1. q.tail = 0 /\ r.tail = 0
      BY <2>5 DEF Kept
    <3>2. /\ Field(conf.pre, q) = <<q.head, q.question>>
          /\ Field(conf.pre, r) = <<r.head, r.question>>
      BY <2>5 DEF Field, Peek
    <3>3. q.head = r.head /\ q.question = r.question
      <4> DEFINE h == q.head
                 i == r.head
                 d == q.question
                 e == r.question
      <4>1. <<h, d>> = <<i, e>>
        BY <2>3, <3>2
      <4> HIDE DEF h, i, d, e
      <4>2. h = i /\ d = e
        BY <4>1
      <4> QED BY <4>2 DEF h, i, d, e
    <3>4. View(q) = <<q.head, q.tail, q.question>> /\ View(r) = <<r.head, r.tail, r.question>>
      BY <2>5 DEF View, Getters, Contexts
    <3> QED BY <3>1, <3>3, <3>4
  <2>6. CASE conf.pre \in Getters \ {"get_file_bytes", "get_input_str"}
    BY <2>3, <2>6 DEF View, Getters, Contexts
  <2> QED BY <1>2, <2>4, <2>5, <2>6
<1>3. CASE conf.pre \notin Getters
  <2>1. q \in Seq(Message) \ {<<>>} /\ r \in Seq(Message) \ {<<>>}
    BY <1>3, StrippedChat, RequestsAssumption DEF Served, Servable
  <2>2. CASE conf.pre = "last_content"
    BY <2>2 DEF OwnText, Text, Both, View, Getters, Contexts
  <2>3. CASE conf.pre = "last_content_without_prompt"
    BY <2>3 DEF OwnText, Text, Both, View, Getters, Contexts
  <2>4. CASE conf.pre = "all_content"
    <3>1. AllContent(q) = AllContent(r)
      BY <2>4 DEF OwnText, Text, Both, Getters, Contexts
    <3>2. Unbroken(q) /\ Unbroken(r)
      BY <2>4 DEF Kept
    <3>3. Contents(q) = Contents(r)
      BY <2>1, <3>1, <3>2, SameContents
    <3> QED BY <2>4, <3>3 DEF View, Contents, Getters, Contexts
  <2>5. CASE conf.pre = "concat_all_queries"
    <3>1. ConcatAllQueries(q) = ConcatAllQueries(r) /\ ConcatAllQueries(q) # <<>>
      BY <2>5 DEF OwnText, Text, Both, Getters, Contexts
    <3>2. Unbroken(q) /\ Unbroken(r)
      BY <2>5 DEF Kept
    <3>3. Queries(q) = Queries(r)
      BY <2>1, <3>1, <3>2, SameQueries
    <3> QED BY <2>5, <3>3 DEF View, Getters, Contexts
  <2>6. CASE conf.pre \in Contexts
    <3>1. Dialogue(q) = Dialogue(r)
      <4>1. OwnText(q).store = Dialogue(q) /\ OwnText(r).store = Dialogue(r)
        BY <2>6 DEF OwnText, Processed, Contexts
      <4> QED BY <4>1
    <3>2. Unbroken(q) /\ Unbroken(r)
      BY <2>6 DEF Kept
    <3>3. q = r
      BY <2>1, <3>1, <3>2, SameDialogue
    <3> QED BY <3>3
  <2> QED BY <1>1, <1>3, <2>2, <2>3, <2>4, <2>5, <2>6 DEF Pres
<1> QED BY <1>2, <1>3

ViewInv ==
    /\ \A r \in rows : r.asked \in Served
    /\ \A t \in Threads :
          out[t].kind = "row" => req[t] \in Served /\ out[t].row.asked \in Served

LEMMA ViewNext == PipeInv /\ ViewInv /\ [Next]_vars => ViewInv'
<1> SUFFICES ASSUME PipeInv, ViewInv, [Next]_vars PROVE ViewInv'
  OBVIOUS
<1>1. /\ TypeOK /\ DOMAIN pc = Threads /\ DOMAIN out = Threads /\ DOMAIN req = Threads
      /\ \A t \in Threads : Step(t)
  BY DEF PipeInv
<1>2. \A t \in Threads : pc[t] # "idle" => req[t] \in Served
  <2>1. ASSUME NEW t \in Threads, pc[t] # "idle" PROVE req[t] \in Served
    <3>1. req[t] = Received(asked[t], given[t]) /\ asked[t] \in Requests
      BY <1>1, <2>1 DEF Step, TypeOK
    <3> QED BY <3>1, ReceivedChat DEF Received, Served, Requests
  <2> QED BY <2>1
<1>3. ASSUME conf' = conf PROVE Served' = Served
  BY <1>3 DEF Served, Servable
<1>4. ASSUME conf' = conf, rows' = rows, NEW t \in Threads,
             \A u \in Threads \ {t} : out'[u] = out[u] /\ req'[u] = req[u],
             out'[t].kind # "row"
      PROVE  ViewInv'
  BY <1>3, <1>4 DEF ViewInv
<1>5. ASSUME UNCHANGED <<conf, rows, out, req>> PROVE ViewInv'
  BY <1>3, <1>5 DEF ViewInv
<1>6. ASSUME NEW t \in Threads, NEW r \in Requests, NEW v \in CacheSkips, Arrive(t, r, v)
      PROVE  ViewInv'
  <2>1. /\ UNCHANGED <<conf, rows>> /\ out' = [out EXCEPT ![t] = Out("none", NoRow)]
        /\ \A u \in Threads \ {t} : req'[u] = req[u]
    BY <1>1, <1>6 DEF Arrive
  <2> QED BY <1>1, <1>4, <2>1 DEF Out
<1>7. ASSUME NEW t \in Threads, PreRaises(t) \/ EvaluationRaises(t) PROVE ViewInv'
  <2>1. /\ UNCHANGED <<conf, rows, req>> /\ out' = [out EXCEPT ![t] = Out("error", NoRow)]
    BY <1>7 DEF PreRaises, EvaluationRaises
  <2> QED BY <1>1, <1>4, <2>1 DEF Out
<1>8. ASSUME NEW t \in Threads, Answer(t) PROVE ViewInv'
  <2>1. PICK found \in Nearest(text[t]) :
            \E r \in Picked(conf.post, text[t], Accepted(text[t], found)) :
               out' = [out EXCEPT ![t] = Out("row", r)]
    BY <1>8 DEF Answer
  <2>2. PICK r \in Picked(conf.post, text[t], Accepted(text[t], found)) :
            out' = [out EXCEPT ![t] = Out("row", r)]
    BY <2>1
  <2>3. conf \in Configs
    BY <1>1 DEF TypeOK
  <2>4. r \in Accepted(text[t], found)
    BY <2>2, <2>3, ConfigsAssumption DEF Picked, Posts
  <2>5. r \in rows
    BY <2>1, <2>4 DEF Accepted, Nearest
  <2>6. /\ UNCHANGED <<conf, rows, req>> /\ pc[t] = "search"
        /\ out'[t].row = r /\ \A u \in Threads \ {t} : out'[u] = out[u]
    BY <1>1, <1>8, <2>2 DEF Answer, Out
  <2>7. req[t] \in Served /\ r.asked \in Served
    BY <1>2, <2>5, <2>6 DEF ViewInv
  <2> QED BY <1>3, <2>6, <2>7 DEF ViewInv
<1>9. ASSUME NEW t \in Threads, Save(t) PROVE ViewInv'
  <2>1. /\ UNCHANGED <<conf, req>> /\ pc[t] = "save"
        /\ rows' = rows \cup {Row(text[t], req[t], clock)}
        /\ out' = [out EXCEPT ![t] = Out("model", NoRow)]
    BY <1>9 DEF Save
  <2>2. Row(text[t], req[t], clock).asked \in Served
    BY <1>2, <2>1 DEF Row
  <2>3. out'[t].kind # "row" /\ \A u \in Threads \ {t} : out'[u] = out[u]
    BY <1>1, <2>1 DEF Out
  <2>4. \A r \in rows' : r.asked \in Served'
    BY <1>3, <2>1, <2>2 DEF ViewInv
  <2>5. \A u \in Threads : out'[u].kind = "row" => req'[u] \in Served' /\ out'[u].row.asked \in Served'
    BY <1>3, <2>1, <2>3 DEF ViewInv
  <2> QED BY <2>4, <2>5 DEF ViewInv
<1>10. ASSUME NEW t \in Threads,
              Format(t) \/ Process(t) \/ Serialize(t) \/ Summarizing(t) \/ Pre(t) \/ Miss(t)
       PROVE  ViewInv'
  BY <1>5, <1>10 DEF Format, Process, Serialize, Summarizing, Pre, Miss, vars
<1>11. CASE Tick \/ Done \/ UNCHANGED vars
  BY <1>5, <1>11 DEF Tick, Done, vars
<1> QED BY <1>6, <1>7, <1>8, <1>9, <1>10, <1>11 DEF Next

\* A request that is answered from a row with its own text was asked what the row
\* was asked, as far as the pre-processor is documented to look.  Prompts that
\* are compared by what a template was filled with are left to TLC: there the
\* key is what FoldLeft computes over the template.
THEOREM SameViewCorrect ==
    Spec => [](conf.pre # "last_content_without_template" => AnswerForSameView)
<1>1. Init => ViewInv
  <2> SUFFICES ASSUME Init PROVE ViewInv
    OBVIOUS
  <2>1. rows = {} /\ \A t \in Threads : out[t].kind # "row"
    BY DEF Init, Out
  <2> QED BY <2>1 DEF ViewInv
<1>2. PipeInv /\ ViewInv => (conf.pre # "last_content_without_template" => AnswerForSameView)
  <2> SUFFICES ASSUME PipeInv, ViewInv, conf.pre # "last_content_without_template",
                      NEW t \in Threads, out[t].kind = "row",
                      out[t].row.store = OwnText(req[t]).store,
                      out[t].row.store = OwnText(out[t].row.asked).store,
                      out[t].row.store # <<>>, Kept(req[t]), Kept(out[t].row.asked)
               PROVE  View(out[t].row.asked) = View(req[t])
    BY DEF AnswerForSameView
  <2>1. conf \in Configs
    BY DEF PipeInv, TypeOK
  <2>2. req[t] \in Served /\ out[t].row.asked \in Served
    BY DEF ViewInv
  <2> QED BY <2>1, <2>2, SameView
<1> QED BY <1>1, <1>2, PipelineCorrect, ViewNext, PTL DEF Spec

===============================================================================
