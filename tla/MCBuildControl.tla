--------------------------- MODULE MCBuildControl ---------------------------
(* A small instance of BuildControl for TLC. *)
EXTENDS BuildControl, TLC

(* The second step, and then the first, whose depends_on names it. *)
ForwardDeps == <<{2}, {}>>

(* Any permutation of the identities that no definition tells apart. *)
Symmetry == Permutations(Tokens) \cup Permutations(Workers) \cup Permutations(Preparers)
=============================================================================
