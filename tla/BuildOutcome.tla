---------------------------- MODULE BuildOutcome ----------------------------
(***************************************************************************)
(* What the execution of a build promises to whoever looks at it: every    *)
(* step gets one outcome, after the steps it depends on have succeeded,    *)
(* and the build is a success from the moment all its steps are.  It fails *)
(* only with the outcome of some step, but not always with the one that    *)
(* leaves it without work, and a step in flight may finish after it.       *)
(* No worker, claim, lease, transaction or durable job appears here;       *)
(* BuildRun implements this specification with them.                       *)
(***************************************************************************)
EXTENDS Integers

CONSTANTS
    NumSteps,   \* steps of the build
    Deps        \* Deps[s]: the steps whose success step s waits for

VARIABLES
    build,      \* what the build shows: running, or how it ended
    outcome     \* how each step ended, or "open"

vars == <<build, outcome>>

Steps == 1 .. NumSteps

Init ==
    /\ build = "running"
    /\ outcome = [s \in Steps |-> "open"]

(* The step can still get an outcome: it waits for nothing. *)
Ready(o, s) == o[s] = "open" /\ \A d \in Deps[s] : o[d] = "success"

AllSucceeded(o) == \A s \in Steps : o[s] = "success"

(* The outcome of a step in a running build.  A completion that counts     *)
(* while another is open may fail the build early, or leave that undone.   *)
Finish(s, res) ==
    /\ build = "running"
    /\ Ready(outcome, s)
    /\ outcome' = [outcome EXCEPT ![s] = res]
    /\ IF AllSucceeded(outcome') THEN build' = "success" ELSE build' \in {"running", "failed"}

(* A step that was in flight when the build failed finishes, and the build *)
(* stays failed, even when all its steps are then successes.               *)
FinishLate(s, res) ==
    /\ build = "failed"
    /\ Ready(outcome, s)
    /\ outcome' = [outcome EXCEPT ![s] = res]
    /\ UNCHANGED build

(* A success or a failure that is already there outlives the cancellation. *)
Cancel ==
    /\ build = "running"
    /\ build' = "canceled"
    /\ outcome' = [s \in Steps |-> IF outcome[s] = "open" THEN "canceled" ELSE outcome[s]]

Next ==
    \/ \E s \in Steps, res \in {"success", "failed"} : Finish(s, res) \/ FinishLate(s, res)
    \/ Cancel

Spec == Init /\ [][Next]_vars
=============================================================================
