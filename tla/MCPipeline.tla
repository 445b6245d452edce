----------------------------- MODULE MCPipeline -----------------------------
(* Instance of Pipeline for TLC: short conversations of the words x and y,  *)
(* in a template that asks "tell _ about _", with p as a prompt.            *)
EXTENDS Pipeline, TLC

Says(role, words) == [role |-> role, content |-> words]

MCChats == {
    <<Says("user", <<"tell", "x", "about", "y">>)>>,
    <<Says("user", <<"tell", "y", "about", "x">>)>>,
    <<Says("user", <<"p", "x">>), Says("assistant", <<"y">>), Says("user", <<"x">>)>>,
    <<Says("user", <<"p", "x">>), Says("user", <<"y", "x">>)>>,
    <<Says("system", <<"m", "y">>), Says("user", <<"p", "x">>)>>,
    <<Says("user", <<"x">>), Says("user", <<"m", "p", "x">>)>>,
    <<Says("user", <<"x">>), Says("system", <<"y">>), Says("assistant", <<"x">>)>>}

MCInputs == [question : {"x", "y"}, name : {"f"}, head : {"h", "i"}, tail : {0, 1}]

Tell == <<[literal |-> <<"tell">>, field |-> TRUE], [literal |-> <<"about">>, field |-> TRUE]>>
Please == <<[literal |-> <<"tell">>, field |-> TRUE], [literal |-> <<"x">>, field |-> FALSE]>>

MCGiven == {<<Says("user", <<"x">>), Says("user", <<"m", "p", "x">>)>>} \X {"true", "null"}

Config(pre, eval, post) ==
    [pre |-> pre, eval |-> eval, post |-> post, template |-> Tell, stamp |-> "local"]

\* Every pre-processor with exact matching, every evaluation and post-processor
\* for the two texts they are made for
MCConfigs ==
    {Config(pre, "exact", "first") :
        pre \in Getters \cup Contexts \cup {"last_content", "last_content_without_prompt",
            "last_content_without_template", "all_content", "concat_all_queries"}}
    \cup {Config(pre, eval, post) : pre \in {"last_content", "concat_all_queries"},
            eval \in Evals, post \in {"first", "random_one", "LlmVerifier"}}
    \cup {[Config("last_content_without_template", "exact", "first") EXCEPT !.template = Please]}
    \cup {[Config("last_content", "time", "first") EXCEPT !.stamp = stamp] : stamp \in Stamps}

MCWeights == <<20, 30, 50>>

ThreadSymmetry == Permutations(Threads)
=============================================================================
