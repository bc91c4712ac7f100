-------------------------- MODULE StepCompletionTx --------------------------
(***************************************************************************)
(* Inside the transactions that finish a build: the statements of          *)
(* CompleteStep (build_step_completion_repository.go) and CancelBuild      *)
(* (build_cancel_repository.go) under PostgreSQL's READ COMMITTED.         *)
(*                                                                         *)
(* A statement reads what is committed when it starts, and what its own    *)
(* transaction wrote.  An UPDATE or SELECT FOR UPDATE waits for the row's  *)
(* lock and then looks at the row again; locks are held to the end of the  *)
(* transaction.  The database breaks a cycle of waits by aborting one of   *)
(* the transactions, and rolls back those of a process that dies.          *)
(*                                                                         *)
(* BuildRun has a completion statement by statement too, among claims and  *)
(* leases, but takes CancelBuild as one step.  This module leaves those    *)
(* out and has what is inside: the locks in the order they are taken, the  *)
(* deadlocks, and that the build ends.  A step is completed by the holder  *)
(* of its claim, so a transaction is named after its step.                 *)
(***************************************************************************)
EXTENDS Lifecycle, Integers

CONSTANTS
    NumSteps,    \* steps of the build
    Deps,        \* Deps[s]: the steps whose success step s waits for
    Results,     \* the results that executions may have
    MaxCrashes   \* bound on the transactions cut off by a crash

Steps == 1 .. NumSteps

ASSUME StepsAssumption == NumSteps \in Nat \ {0}

(* Dependencies have no cycle. *)
ASSUME DepsAssumption ==
    /\ Deps \in [Steps -> SUBSET Steps]
    /\ \A S \in SUBSET Steps : S # {} => \E s \in S : Deps[s] \cap S = {}

ASSUME ResultsAssumption == Results \subseteq StepResults /\ MaxCrashes \in Nat

Free == 0                  \* nobody holds the lock of the builds row
Canceler == NumSteps + 1   \* CancelBuild's transaction holds it

VARIABLES
    status,   \* builds.status, as committed
    steps,    \* build_steps.status, as committed
    claimed,  \* the steps whose job a worker has claimed
    tx,       \* the statement the completion of each step is at, or "none"
    result,   \* the uncommitted status each open completion wrote to its step
    lock,     \* who holds the lock of the builds row
    cancel,   \* the statement CancelBuild is at
    held,     \* the step rows that CancelBuild has locked and updated
    crashes   \* transactions that crashes have cut off

vars == <<status, steps, claimed, tx, result, lock, cancel, held, crashes>>

TypeOK ==
    /\ status \in BuildStatuses
    /\ steps \in [Steps -> StepStatuses]
    /\ claimed \subseteq Steps
    /\ tx \in [Steps -> {"none", "cursor", "stats", "runnable", "success", "failed", "commit"}]
    /\ result \in [Steps -> StepResults \cup {"none"}]
    /\ lock \in Steps \cup {Free, Canceler}
    /\ cancel \in {"idle", "build", "steps", "done"}
    /\ held \subseteq Steps
    /\ crashes \in 0 .. MaxCrashes

Init ==
    /\ status = "running"
    /\ steps = [s \in Steps |-> "pending"]
    /\ claimed = {}
    /\ tx = [s \in Steps |-> "none"]
    /\ result = [s \in Steps |-> "none"]
    /\ lock = Free
    /\ cancel = "idle"
    /\ held = {}
    /\ crashes = 0

(* What the transaction of step s reads: the committed rows and its own. *)
View(s) == [steps EXCEPT ![s] = IF tx[s] = "none" THEN steps[s] ELSE result[s]]

Runnable(r, s) == r[s] = "pending" /\ \A d \in Deps[s] : r[d] = "success"

RowLocked(s) == tx[s] # "none" \/ s \in held

Goto(s, next) == tx' = [tx EXCEPT ![s] = next]

(* The end of a completion transaction, which gives back its locks. *)
End(s) ==
    /\ Goto(s, "none")
    /\ result' = [result EXCEPT ![s] = "none"]
    /\ lock' = IF lock = s THEN Free ELSE lock

-----------------------------------------------------------------------------
(* Claims: single statements, outside the transactions *)

(* FOR UPDATE SKIP LOCKED on the job and on the build's row. *)
ClaimNextRunnableJob(s) ==
    /\ s \notin claimed
    /\ status = "running" /\ lock = Free
    /\ Runnable(steps, s)
    /\ claimed' = claimed \cup {s}
    /\ UNCHANGED <<status, steps, tx, result, lock, cancel, held, crashes>>

(* The mirror of the claim reads and locks the step's row only. *)
ClaimPendingStep(s) ==
    /\ s \in claimed
    /\ Runnable(steps, s) /\ ~RowLocked(s)
    /\ steps' = [steps EXCEPT ![s] = "running"]
    /\ UNCHANGED <<status, claimed, tx, result, lock, cancel, held, crashes>>

-----------------------------------------------------------------------------
(* CompleteStep *)

(* applyStepCompletionUpdateTx: the step's row, if it is still running. *)
ApplyStepCompletion(s, res) ==
    /\ tx[s] = "none"
    /\ steps[s] = "running" /\ ~RowLocked(s)
    /\ Goto(s, IF res = "success" THEN "cursor" ELSE "stats")
    /\ result' = [result EXCEPT ![s] = res]
    /\ UNCHANGED <<status, steps, claimed, lock, cancel, held, crashes>>

(* Mutant: the cursor is not written, and the builds row not locked. *)
AdvanceNothing(s) ==
    /\ tx[s] = "cursor"
    /\ Goto(s, "stats")
    /\ UNCHANGED <<status, steps, claimed, result, lock, cancel, held, crashes>>

(* advanceBuildCurrentStepTx: only a success writes to the builds row      *)
(* here, and so takes its lock; a build that is not running is passed by.  *)
AdvanceBuildCurrentStep(s) ==
    /\ tx[s] = "cursor"
    /\ \/ status = "running" /\ lock = Free /\ lock' = s
       \/ status # "running" /\ UNCHANGED lock
    /\ Goto(s, "stats")
    /\ UNCHANGED <<status, steps, claimed, result, cancel, held, crashes>>

(* Mutant: finished steps are counted, not successful ones. *)
LoadBuildStepProgressFinished(s) ==
    LET r == View(s)
        next == IF \A t \in Steps : IsTerminalStepStatus(r[t]) THEN "success"
                ELSE IF \E t \in Steps : r[t] = "running" THEN "commit"
                ELSE "runnable"
    IN  /\ tx[s] = "stats"
        /\ Goto(s, next)
        /\ UNCHANGED <<status, steps, claimed, result, lock, cancel, held, crashes>>

(* loadBuildStepProgressTx, and the decisions that need no other read.     *)
LoadBuildStepProgress(s) ==
    LET r == View(s)
        next == IF \A t \in Steps : r[t] = "success" THEN "success"
                ELSE IF \E t \in Steps : r[t] = "running" THEN "commit"
                ELSE IF \E t \in Steps : r[t] \in {"failed", "pending"} THEN "runnable"
                ELSE "commit"
    IN  /\ tx[s] = "stats"
        /\ Goto(s, next)
        /\ UNCHANGED <<status, steps, claimed, result, lock, cancel, held, crashes>>

(* hasRunnablePendingStepTx, a second read of the rows. *)
HasRunnablePendingStep(s) ==
    /\ tx[s] = "runnable"
    /\ Goto(s, IF \E t \in Steps : Runnable(View(s), t) THEN "commit" ELSE "failed")
    /\ UNCHANGED <<status, steps, claimed, result, lock, cancel, held, crashes>>

(* Mutant: the update has no guard on the status. *)
UpdateBuildUnguarded(s) ==
    /\ tx[s] \in {"success", "failed"}
    /\ lock \in {Free, s}
    /\ status' = tx[s]
    /\ steps' = View(s)
    /\ End(s)
    /\ UNCHANGED <<claimed, cancel, held, crashes>>

(* updateBuildSuccessTx or updateBuildFailedTx, and the commit: nothing    *)
(* the transaction could wait for comes between them.                      *)
UpdateBuild(s) ==
    /\ tx[s] \in {"success", "failed"}
    /\ status = "running" /\ lock \in {Free, s}
    /\ status' = tx[s]
    /\ steps' = View(s)
    /\ End(s)
    /\ UNCHANGED <<claimed, cancel, held, crashes>>

(* errGuardedBuildUpdateNoop: the build is not running any more, and the   *)
(* step's completion is rolled back with it.                               *)
UpdateBuildNoop(s) ==
    /\ tx[s] \in {"success", "failed"}
    /\ status # "running"
    /\ End(s)
    /\ UNCHANGED <<status, steps, claimed, cancel, held, crashes>>

(* The build goes on. *)
CommitStep(s) ==
    /\ tx[s] = "commit"
    /\ steps' = View(s)
    /\ End(s)
    /\ UNCHANGED <<status, claimed, cancel, held, crashes>>

-----------------------------------------------------------------------------
(* CancelBuild *)

(* The service has read a status that can be canceled. *)
RequestCancel ==
    /\ cancel = "idle" /\ CanCancelBuild(status)
    /\ cancel' = "build"
    /\ UNCHANGED <<status, steps, claimed, tx, result, lock, held, crashes>>

(* SELECT ... FOR UPDATE, and the check of the locked row. *)
LockBuild ==
    /\ cancel = "build" /\ lock = Free
    /\ \/ CanCancelBuild(status) /\ lock' = Canceler /\ cancel' = "steps"
       \/ ~CanCancelBuild(status) /\ UNCHANGED lock /\ cancel' = "done"
    /\ UNCHANGED <<status, steps, claimed, tx, result, held, crashes>>

(* The update of the step rows waits for each row in turn. *)
CancelStep(s) ==
    /\ cancel = "steps"
    /\ CanCancelStep(steps[s]) /\ ~RowLocked(s)
    /\ held' = held \cup {s}
    /\ UNCHANGED <<status, steps, claimed, tx, result, lock, cancel, crashes>>

(* Mutant: the update skips locked rows. *)
CommitCancelSkipLocked ==
    /\ cancel = "steps"
    /\ \A s \in Steps : CanCancelStep(steps[s]) => RowLocked(s)
    /\ steps' = [s \in Steps |-> IF s \in held THEN "canceled" ELSE steps[s]]
    /\ status' = "canceled"
    /\ lock' = Free /\ held' = {} /\ cancel' = "done"
    /\ UNCHANGED <<claimed, tx, result, crashes>>

(* The jobs, the build's row, and the commit. *)
CommitCancel ==
    /\ cancel = "steps"
    /\ \A s \in Steps : CanCancelStep(steps[s]) => s \in held
    /\ steps' = [s \in Steps |-> IF s \in held THEN "canceled" ELSE steps[s]]
    /\ status' = "canceled"
    /\ lock' = Free /\ held' = {} /\ cancel' = "done"
    /\ UNCHANGED <<claimed, tx, result, crashes>>

-----------------------------------------------------------------------------
(* The database's side *)

(* CancelBuild has the builds row and waits for a step's; the completion   *)
(* of that step has its row and waits for the builds row.                  *)
Deadlocked(s) ==
    /\ cancel = "steps" /\ tx[s] # "none" /\ CanCancelStep(steps[s])
    /\ status = "running" /\ tx[s] \in {"cursor", "success", "failed"}

AbortCompletion(s) ==
    /\ Deadlocked(s)
    /\ End(s)
    /\ UNCHANGED <<status, steps, claimed, cancel, held, crashes>>

AbortCancel ==
    /\ \E s \in Steps : Deadlocked(s)
    /\ lock' = Free /\ held' = {} /\ cancel' = "done"
    /\ UNCHANGED <<status, steps, claimed, tx, result, crashes>>

(* A worker dies in the middle of a completion.  Its lease runs out and    *)
(* another worker reclaims the step, which stays running all the while.    *)
Crash(s) ==
    /\ tx[s] # "none" /\ crashes < MaxCrashes
    /\ crashes' = crashes + 1
    /\ End(s)
    /\ UNCHANGED <<status, steps, claimed, cancel, held>>

-----------------------------------------------------------------------------

Statement(s) ==
    \/ ClaimNextRunnableJob(s)
    \/ ClaimPendingStep(s)
    \/ \E res \in Results : ApplyStepCompletion(s, res)
    \/ AdvanceBuildCurrentStep(s)
    \/ LoadBuildStepProgress(s)
    \/ HasRunnablePendingStep(s)
    \/ UpdateBuild(s)
    \/ UpdateBuildNoop(s)
    \/ CommitStep(s)

Next ==
    \/ \E s \in Steps : Statement(s) \/ CancelStep(s) \/ AbortCompletion(s) \/ Crash(s)
    \/ RequestCancel
    \/ LockBuild
    \/ CommitCancel
    \/ AbortCancel

(* Workers poll for ever, executions end (steps have timeouts) and the     *)
(* database serves the waiters of a lock in turn and looks for deadlocks.  *)
(* Nobody has to request a cancellation, and no process has to crash.      *)
Fairness ==
    /\ \A s \in Steps : SF_vars(Statement(s)) /\ SF_vars(CancelStep(s))
    /\ SF_vars(LockBuild) /\ WF_vars(CommitCancel)
    /\ WF_vars(AbortCancel \/ \E s \in Steps : AbortCompletion(s))

Spec == Init /\ [][Next]_vars /\ Fairness

-----------------------------------------------------------------------------
(* Properties *)

(* state-machine.md: build success is only valid when all required steps   *)
(* are successful, however the completions that count them interleave.     *)
SuccessIsEarned == status = "success" => \A s \in Steps : steps[s] = "success"

(* A committed cancellation has reached every step: none was claimed or    *)
(* completed behind the back of the statement that cancels them.           *)
CancelIsComplete == status = "canceled" => \A s \in Steps : IsTerminalStepStatus(steps[s])

(* state-machine.md: terminal states cannot be mutated.  Two completions,  *)
(* or a completion and a cancellation, that both decide the build's fate   *)
(* do not overwrite each other.                                            *)
TerminalBuildFinal == [][IsTerminalBuildStatus(status) => status' = status]_vars

(* A step has failed, and nobody will touch the build again: siblings     *)
(* that complete together, one of them failing, each count the other as    *)
(* running, because a failure takes no lock before it counts.              *)
Stranded ==
    /\ \E s \in Steps : steps[s] = "failed"
    /\ \A s \in Steps : steps[s] # "running" /\ ~Runnable(steps, s)

(* A running build always has something left to happen to it, or a step    *)
(* that failed: no interleaving of completions, each counting what it can  *)
(* see, commits the last step and leaves the build for nobody to finish.   *)
RunningHasWork ==
    status = "running" =>
        \E s \in Steps : steps[s] \in {"running", "failed"} \/ Runnable(steps, s)

(* Every build ends, unless it is stranded behind a failure: the lock that *)
(* a success takes makes concurrent completions count one after the other, *)
(* and no lock order, aborted transaction or crash leaves a build running  *)
(* for ever.                                                               *)
BuildTerminates == <>(IsTerminalBuildStatus(status) \/ Stranded)

-----------------------------------------------------------------------------
(* The inductive invariant *)

(* An open completion has the row of a running step, that CancelBuild has  *)
(* not; CancelBuild has the builds row while it locks the step rows.       *)
RowShape ==
    /\ \A s \in Steps : tx[s] # "none" =>
        steps[s] = "running" /\ result[s] \in StepResults /\ s \notin held
    /\ \A s \in Steps : tx[s] = "cursor" => result[s] = "success"
    /\ \A s \in held : CanCancelStep(steps[s])
    /\ held # {} => cancel = "steps"

(* Who holds the builds row keeps the build running. *)
LockShape ==
    /\ cancel = "steps" <=> lock = Canceler
    /\ lock # Free => status = "running"
    /\ lock \in Steps => tx[lock] \notin {"none", "cursor"}

(* A success that counts the steps of a running build has the builds row.  *)
CountingShape ==
    status = "running" =>
        \A s \in Steps : tx[s] \notin {"none", "cursor"} /\ result[s] = "success" => lock = s

(* What a completion decided from its count still holds when it commits.   *)
DecisionShape ==
    /\ \A s \in Steps : tx[s] = "success" => \A t \in Steps : View(s)[t] = "success"
    /\ status = "running" =>
        \A s \in Steps : tx[s] \in {"runnable", "commit"} => \E t \in Steps : View(s)[t] # "success"

(* The committed rows of the build and its steps agree. *)
OutcomeShape ==
    /\ status \in {"running", "success", "failed", "canceled"}
    /\ \A s \in Steps : steps[s] = "canceled" => status = "canceled"
    /\ status = "running" => \E s \in Steps : steps[s] # "success"

IndInv ==
    /\ TypeOK
    /\ RowShape
    /\ LockShape
    /\ CountingShape
    /\ DecisionShape
    /\ OutcomeShape
    /\ SuccessIsEarned
    /\ CancelIsComplete
=============================================================================
