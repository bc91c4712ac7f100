------------------------------ MODULE Processes ------------------------------
(***************************************************************************)
(* What BuildAttempts and TriggerDelivery have in common: processes that   *)
(* are each at some place of their code, and faults that are counted.      *)
(***************************************************************************)
EXTENDS Integers

CONSTANTS
    MaxFaults,  \* bound on crashes, failed queries and lost leases
    None        \* nobody, nothing

VARIABLES
    pc,         \* where each process is
    faults      \* faults so far

At(p, here) == pc[p] = here
Goto(p, next) == pc' = [pc EXCEPT ![p] = next]
Fault == faults < MaxFaults /\ faults' = faults + 1
=============================================================================
