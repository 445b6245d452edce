--------------------------- MODULE MCLLMAdapters ---------------------------
(* Requests for the instances of LLMAdapters that TLC checks. *)
EXTENDS LLMAdapters, TLC

CONSTANTS K, L, A, B, t1, t2

Ask(api, ks, s) == [api |-> api, ks |-> ks, s |-> s, stream |-> FALSE, n |-> 1]

PassRequests == {
    Ask("ChatCompletion", <<K>>, A),
    [Ask("ChatCompletion", <<K>>, B) EXCEPT !.stream = TRUE],
    [Ask("Completion", <<K>>, NoSession) EXCEPT !.stream = TRUE],
    [Ask("StabilityInference", <<L>>, NoSession) EXCEPT !.stream = TRUE],
    Ask("LangChainLLMs", <<K, L>>, NoSession),
    Ask("LangChainLLMs", <<L>>, A),
    Ask("Moderation", <<L>>, NoSession),
    [Ask("Moderation", <<L>>, NoSession) EXCEPT !.n = 2]}

Symmetry == Permutations(Threads)
=============================================================================
