------------------------- MODULE MCStepCompletionTx -------------------------
(* A small instance of StepCompletionTx for TLC. *)
EXTENDS StepCompletionTx

(* Two parallel siblings, and two more behind the barrier they form. *)
GroupDeps == [s \in 1 .. 4 |-> IF s > 2 THEN {1, 2} ELSE {}]
=============================================================================
