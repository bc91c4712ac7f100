----------------------------- MODULE MCBuildRun -----------------------------
(* A small instance of BuildRun for TLC. *)
EXTENDS BuildRun, TLC

(* Two parallel siblings. *)
ParallelDeps == [s \in 1 .. 2 |-> {}]

WorkerAndTokenSymmetry == Permutations(Tokens) \cup Permutations(Workers)
=============================================================================
