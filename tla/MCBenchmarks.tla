---------------------------- MODULE MCBenchmarks ----------------------------
(* Instance of Benchmarks for TLC. *)
EXTENDS Benchmarks, TLC

PromptSymmetry == Permutations(Prompts)
=============================================================================
