------------------------------ MODULE BuildRun ------------------------------
(***************************************************************************)
(* The execution of one running build: its row in builds, its rows in      *)
(* build_steps and build_jobs, and the workers that claim, renew, execute  *)
(* and complete its steps (service/worker, service/build/completion.go,    *)
(* repository/postgres).                                                   *)
(*                                                                         *)
(* A worker is the sequence of statements it issues, and between two of    *)
(* them anything else may happen.  The completion of a step is a           *)
(* transaction of several statements at READ COMMITTED: each reads what is *)
(* committed when it runs, and the rows the transaction has written stay   *)
(* locked until it ends.  The other transactions of the repository write   *)
(* what they read under the locks of one statement, and are one action.    *)
(* StepCompletionTx adds the inside of CancelBuild and its deadlocks with  *)
(* completions; BuildControl adds the writers of the build's status that   *)
(* do not go through these transactions.                                   *)
(***************************************************************************)
EXTENDS Lifecycle, Integers, FiniteSets

CONSTANTS
    Workers,        \* worker processes polling the database
    NumSteps,       \* steps of the build, numbered from 1 in step_index order
    Deps,           \* Deps[s]: the steps whose success step s waits for
    Tokens,         \* claim tokens (uuid.NewString)
    NoToken,        \* a NULL claim_token
    Lease,          \* leaseDuration, in ticks
    MaxTime,        \* bound on the clock
    AtomicResults   \* results completed in one transaction with the job: {},
                    \* {"success"} with workspace revisions, or both with
                    \* RequireAtomicExecutionCompletion

Steps == 1 .. NumSteps

ASSUME StepsAssumption == NumSteps \in Nat \ {0}

(* validateStepDependencies: a step depends on steps of the build, written *)
(* before or after it, and never in a cycle: every set of steps has one    *)
(* that waits for none of the others.  A step without a node id waits for  *)
(* every step with a lower index.                                          *)
ASSUME DepsAssumption ==
    /\ Deps \in [Steps -> SUBSET Steps]
    /\ \A S \in SUBSET Steps : S # {} => \E s \in S : Deps[s] \cap S = {}

ASSUME TokenAssumption == NoToken \notin Tokens

ASSUME TimeAssumption == Lease \in Nat \ {0} /\ MaxTime \in Nat

ASSUME AtomicAssumption == AtomicResults \subseteq StepResults

VARIABLES
    status,   \* builds.status
    cursor,   \* builds.current_step_index: one past the last success, or 0
    steps,    \* build_steps: status, claim_token, lease_expires_at
    jobs,     \* build_jobs:  status, claim_token, claim_expires_at
    pc,       \* the statement each worker is about to issue
    claim,    \* the claim each worker holds in memory
    renewal,  \* the expiry a worker's heartbeat still has to write to its step
    result,   \* the status an open completion has written to its step, or "none"
    holders,  \* the workers whose open completion has locked the builds row
    now       \* the clock the workers and the database share

rows == <<status, cursor, steps, jobs>>
tx == <<result, holders>>
procs == <<pc, claim, renewal, result, holders>>
vars == <<status, cursor, steps, jobs, pc, claim, renewal, result, holders, now>>

-----------------------------------------------------------------------------
(* Rows and processes *)

Row(st, tok, exp) == [status |-> st, tok |-> tok, exp |-> exp]

Unclaimed(st) == Row(st, NoToken, 0)

(* A worker's StepClaim (tok, at) and the step and job it is for; 0 stands *)
(* for no step, and for an empty JobID.                                    *)
NoClaim == [tok |-> NoToken, at |-> 0, step |-> 0, job |-> 0]

PCs == {"idle", "claimJob", "claimJobOnly", "mirrorPending", "mirrorExpired",
        "scanPending", "claimPending", "scanExpired", "claimExpired", "bind",
        "start", "exec", "runnable", "updateSuccess", "updateFailed", "commit",
        "completeJobSuccess", "completeJobFailure"}

(* The statements of an open completion that are still to come. *)
TxPCs == {"runnable", "updateSuccess", "updateFailed", "commit"}

(* A job row that is not there: BuildControl's QueueBuild deletes the jobs *)
(* with their steps.                                                       *)
JobRowStatuses == JobStatuses \cup {"absent"}

RowType(statuses) == [status : statuses, tok : Tokens \cup {NoToken}, exp : Nat]

ClaimType == [tok : Tokens \cup {NoToken}, at : Nat,
              step : Steps \cup {0}, job : Steps \cup {0}]

TypeOK ==
    /\ status \in BuildStatuses
    /\ cursor \in Nat
    /\ steps \in [Steps -> RowType(StepStatuses)]
    /\ jobs \in [Steps -> RowType(JobRowStatuses)]
    /\ pc \in [Workers -> PCs]
    /\ claim \in [Workers -> ClaimType]
    /\ renewal \in [Workers -> Nat]
    /\ result \in [Workers -> StepResults \cup {"none"}]
    /\ holders \subseteq Workers
    /\ now \in Nat

RowsInit ==
    /\ cursor = 0
    /\ steps = [s \in Steps |-> Unclaimed("pending")]
    /\ jobs = [s \in Steps |-> Unclaimed("queued")]
    /\ pc = [w \in Workers |-> "idle"]
    /\ claim = [w \in Workers |-> NoClaim]
    /\ renewal = [w \in Workers |-> 0]
    /\ result = [w \in Workers |-> "none"]
    /\ holders = {}
    /\ now = 0

(* A prepared build whose steps and durable jobs were persisted together. *)
Init == status = "running" /\ RowsInit

(* uuid.NewString: a token that is on no row and in no process. *)
FreshToken(t) ==
    /\ \A s \in Steps : steps[s].tok # t /\ jobs[s].tok # t
    /\ \A w \in Workers : claim[w].tok # t

(* newStepClaim: a fresh token and the moment it is drawn. *)
NewStepClaim(w, s) ==
    \E t \in Tokens :
        /\ FreshToken(t)
        /\ claim' = [claim EXCEPT ![w] = [tok |-> t, at |-> now, step |-> s, job |-> 0]]

(* What a claim writes to a row. *)
Claimed(w) == Row("running", claim[w].tok, claim[w].at + Lease)

Goto(w, next) == pc' = [pc EXCEPT ![w] = next]

(* The end of a transaction gives back its locks. *)
EndTx(w) ==
    /\ result' = [result EXCEPT ![w] = "none"]
    /\ holders' = holders \ {w}

(* The end of a poll or of an execution: the process forgets its claim.    *)
(* What it has committed stays; a transaction still open is rolled back.   *)
Forget(w) ==
    /\ Goto(w, "idle")
    /\ claim' = [claim EXCEPT ![w] = NoClaim]
    /\ renewal' = [renewal EXCEPT ![w] = 0]
    /\ EndTx(w)

-----------------------------------------------------------------------------
(* Guards of the repository's statements *)

(* Mutant: a dependency that is still running counts as met. *)
DepsStarted(s) == \A d \in Deps[s] : steps[d].status \in {"running", "success"}

DepsSucceeded(s) == \A d \in Deps[s] : steps[d].status = "success"

CanClaimPendingStep(s) == steps[s].status = "pending" /\ DepsSucceeded(s)

(* Mutant: the comparison with the lease is missing. *)
CanReclaimAnyRunningStep(s, before) == steps[s].status = "running"

CanReclaimExpiredStep(s, before) ==
    steps[s].status = "running" /\ steps[s].exp <= before

(* Mutant: the query does not join the build. *)
CanClaimJobOfAnyBuild(s, at) ==
    /\ jobs[s].status = "queued" \/ (jobs[s].status = "running" /\ jobs[s].exp <= at)
    /\ DepsSucceeded(s)

CanClaimJob(s, at) ==
    /\ status = "running"
    /\ jobs[s].status = "queued" \/ (jobs[s].status = "running" /\ jobs[s].exp <= at)
    /\ DepsSucceeded(s)

(* Mutant: a NULL token matches, whatever the status. *)
HoldsStepOrNobodyDoes(w) == steps[claim[w].step].tok \in {claim[w].tok, NoToken}

HoldsStep(w) ==
    LET s == claim[w].step
    IN  steps[s].status = "running" /\ steps[s].tok = claim[w].tok

HoldsJob(w) ==
    LET s == claim[w].job
    IN  jobs[s].status = "running" /\ jobs[s].tok = claim[w].tok

IsAtomic(w, res) == claim[w].job # 0 /\ res \in AtomicResults

(* The rows that open completions have locked. *)
InTx(w) == result[w] # "none"

StepLocked(s) == \E w \in Workers : InTx(w) /\ claim[w].step = s

JobLocked(s) ==
    \E w \in Workers : InTx(w) /\ IsAtomic(w, result[w]) /\ claim[w].job = s

BuildLocked == holders # {}

-----------------------------------------------------------------------------
(* ClaimRunnableStep: first the durable jobs, then the step rows *)

(* The worker lists the builds (it falls back to the step rows only if it  *)
(* saw this one running) and draws the claim for the job queue.            *)
Poll(w) ==
    /\ pc[w] = "idle"
    /\ Goto(w, IF status = "running" THEN "claimJob" ELSE "claimJobOnly")
    /\ NewStepClaim(w, 0)
    /\ UNCHANGED <<rows, renewal, tx, now>>

(* The candidate query joins builds and locks both rows FOR UPDATE SKIP    *)
(* LOCKED: it passes over a job whose row, or whose build's row, another   *)
(* transaction holds.  Other claims hold them too, for the moment they     *)
(* take, so any claimable job may be the first one left ...                *)
ClaimNextRunnableJob(w) ==
    /\ pc[w] \in {"claimJob", "claimJobOnly"}
    /\ \E s \in Steps :
         /\ CanClaimJob(s, claim[w].at)
         /\ ~JobLocked(s) /\ ~BuildLocked
         /\ jobs' = [jobs EXCEPT ![s] = Claimed(w)]
         /\ claim' = [claim EXCEPT ![w].step = s, ![w].job = s]
    /\ Goto(w, "mirrorPending")
    /\ UNCHANGED <<status, cursor, steps, renewal, tx, now>>

(* ... and the claim may miss although a job is claimable. *)
ClaimNextRunnableJobMiss(w) ==
    /\ \/ /\ pc[w] = "claimJob"
          /\ Goto(w, "scanPending") /\ UNCHANGED <<claim, renewal, tx>>
       \/ pc[w] = "claimJobOnly" /\ Forget(w)
    /\ UNCHANGED <<rows, now>>

(* ClaimPendingStep, to mirror a job claim or for a step found by the scan. *)
ClaimPendingStep(w) ==
    LET s == claim[w].step
    IN  /\ pc[w] \in {"mirrorPending", "claimPending"}
        /\ \/ /\ CanClaimPendingStep(s)
              /\ steps' = [steps EXCEPT ![s] = Claimed(w)]
              /\ \/ pc[w] = "mirrorPending" /\ Goto(w, "start")
                 \/ pc[w] = "claimPending" /\ Goto(w, "bind")
           \/ /\ ~CanClaimPendingStep(s)
              /\ \/ pc[w] = "mirrorPending" /\ Goto(w, "mirrorExpired")
                 \/ pc[w] = "claimPending" /\ Goto(w, "scanExpired")
              /\ UNCHANGED steps
        /\ UNCHANGED <<status, cursor, jobs, claim, renewal, tx, now>>

(* ReclaimExpiredStep with reclaimBefore = claim.ClaimedAt.  It waits for  *)
(* a completion that has locked the row, and then looks at it again.       *)
ReclaimExpiredStep(w) ==
    LET s == claim[w].step
    IN  /\ pc[w] \in {"mirrorExpired", "claimExpired"}
        /\ CanReclaimExpiredStep(s, claim[w].at) /\ ~StepLocked(s)
        /\ steps' = [steps EXCEPT ![s] = Claimed(w)]
        /\ \/ pc[w] = "mirrorExpired" /\ Goto(w, "start")
           \/ pc[w] = "claimExpired" /\ Goto(w, "bind")
        /\ UNCHANGED <<status, cursor, jobs, claim, renewal, tx, now>>

(* A reclaim that misses ends the poll; when it mirrored a job claim that  *)
(* is an error return, and the job stays claimed.                          *)
ReclaimExpiredStepMiss(w) ==
    /\ pc[w] \in {"mirrorExpired", "claimExpired"}
    /\ ~CanReclaimExpiredStep(claim[w].step, claim[w].at)
    /\ Forget(w)
    /\ UNCHANGED <<rows, now>>

FirstUnfinished(s) ==
    /\ steps[s].status # "success"
    /\ \A r \in Steps : r < s => steps[r].status = "success"

(* workerFirstRunnableStep: the first step that is not a success, if it is *)
(* pending.                                                                *)
ScanPending(w) ==
    /\ pc[w] = "scanPending"
    /\ \/ \E s \in Steps :
            /\ FirstUnfinished(s) /\ steps[s].status = "pending"
            /\ NewStepClaim(w, s)
            /\ Goto(w, "claimPending")
       \/ /\ \A s \in Steps : FirstUnfinished(s) => steps[s].status # "pending"
          /\ Goto(w, "scanExpired")
          /\ UNCHANGED claim
    /\ UNCHANGED <<rows, renewal, tx, now>>

(* workerFirstReclaimableRunningStep: the first step that is not a         *)
(* success, if it is running under an expired lease.                       *)
ScanExpired(w) ==
    /\ pc[w] = "scanExpired"
    /\ \/ \E s \in Steps :
            /\ FirstUnfinished(s) /\ CanReclaimExpiredStep(s, now)
            /\ NewStepClaim(w, s)
            /\ Goto(w, "claimExpired")
            /\ UNCHANGED <<renewal, tx>>
       \/ /\ \A s \in Steps : FirstUnfinished(s) => ~CanReclaimExpiredStep(s, now)
          /\ Forget(w)
    /\ UNCHANGED <<rows, now>>

(* bindRunnableStepFromJob: take over the step's job, whoever holds it.    *)
(* ClaimJobByStepID checks no lease and skips locked rows; when it misses, *)
(* or its query fails, the step is executed without a job.                 *)
ClaimJobByStepID(w) ==
    /\ pc[w] = "bind"
    /\ LET s == claim[w].step
       IN  \/ /\ status = "running"
              /\ jobs[s].status \in {"queued", "running"}
              /\ ~JobLocked(s) /\ ~BuildLocked
              /\ jobs' = [jobs EXCEPT ![s] = Claimed(w)]
              /\ claim' = [claim EXCEPT ![w].job = s]
           \/ UNCHANGED <<jobs, claim>>
    /\ Goto(w, "start")
    /\ UNCHANGED <<status, cursor, steps, renewal, tx, now>>

-----------------------------------------------------------------------------
(* ExecuteRunnableStep, and the heartbeat that runs beside it *)

ExecuteRunnableStep(w) ==
    /\ pc[w] = "start"
    /\ \/ IsTerminalBuildStatus(status) /\ Forget(w)
       \/ /\ ~IsTerminalBuildStatus(status)
          /\ Goto(w, "exec") /\ UNCHANGED <<claim, renewal, tx>>
    /\ UNCHANGED <<rows, now>>

Executing == {"exec", "completeJobSuccess", "completeJobFailure"} \cup TxPCs

(* Mutant: the heartbeat checks the job and renews the step alone. *)
RenewNoJobLease(w) ==
    /\ pc[w] \in Executing /\ renewal[w] = 0
    /\ claim[w].job = 0 \/ HoldsJob(w)
    /\ renewal' = [renewal EXCEPT ![w] = now + Lease]
    /\ UNCHANGED <<status, cursor, steps, jobs, pc, claim, tx, now>>

(* renewStepLease renews the job first, and leaves the step alone when     *)
(* that is refused.  The heartbeat stops there; since a token never comes  *)
(* back to a row, going on would only repeat the refusal.  A renewal that  *)
(* waits for the row of the worker's own open completion is lost when that *)
(* commits and stands when it rolls back; until then nobody can use the    *)
(* row, so it may as well be written at once.                              *)
RenewJobLease(w) ==
    /\ pc[w] \in Executing /\ renewal[w] = 0
    /\ \/ claim[w].job = 0 /\ UNCHANGED jobs
       \/ /\ claim[w].job # 0 /\ HoldsJob(w)
          /\ jobs' = [jobs EXCEPT ![claim[w].job] = Row("running", claim[w].tok, now + Lease)]
    /\ renewal' = [renewal EXCEPT ![w] = now + Lease]
    /\ UNCHANGED <<status, cursor, steps, pc, claim, tx, now>>

(* ... and then the step, with the same expiry.  A refused or failed       *)
(* renewal of the step leaves the job's in place.                          *)
RenewStepLease(w) ==
    /\ renewal[w] # 0
    /\ \/ /\ HoldsStep(w)
          /\ steps' = [steps EXCEPT ![claim[w].step] = Row("running", claim[w].tok, renewal[w])]
       \/ UNCHANGED steps
    /\ renewal' = [renewal EXCEPT ![w] = 0]
    /\ UNCHANGED <<status, cursor, jobs, pc, claim, tx, now>>

-----------------------------------------------------------------------------
(* handleStepResult *)

(* hasRunnablePendingStepTx, on the step rows r it reads. *)
Runnable(r, s) ==
    r[s].status = "pending" /\ \A d \in Deps[s] : r[d].status = "success"

(* What the transaction of w reads: the committed rows and its own. *)
View(w, res) == [steps EXCEPT ![claim[w].step] = Unclaimed(res)]

(* What the counts of loadBuildStepProgressTx lead to. *)
AfterCounts(r) ==
    IF \A s \in Steps : r[s].status = "success" THEN "updateSuccess"
    ELSE IF \E s \in Steps : r[s].status = "running" THEN "commit"
    ELSE IF \E s \in Steps : r[s].status \in {"failed", "pending"} THEN "runnable"
    ELSE "commit"

(* CompleteSuccessfulStepAndJob and CompleteFailedStepAndJob lock the job  *)
(* first, and refuse a claim that has expired.                             *)
HasLiveJob(w) == HoldsJob(w) /\ jobs[claim[w].job].exp > now

CanComplete(w, res) == HoldsStep(w) /\ (IsAtomic(w, res) => HasLiveJob(w))

(* Mutant: a success does not touch the builds row before it counts. *)
ApplyStepCompletionUnlocked(w, res) ==
    /\ pc[w] = "exec"
    /\ CanComplete(w, res)
    /\ result' = [result EXCEPT ![w] = res]
    /\ Goto(w, AfterCounts(View(w, res)))
    /\ UNCHANGED <<rows, claim, renewal, holders, now>>

(* The update of the step, and the counts.  Before it counts, a success    *)
(* updates the cursor of a running build and so takes the lock of the      *)
(* builds row; a failure, and a success in a build that is not running,    *)
(* count without it.  Up to the counts the transaction only takes locks,   *)
(* so this is as good as one step.                                         *)
ApplyStepCompletion(w, res) ==
    /\ pc[w] = "exec"
    /\ CanComplete(w, res)
    /\ result' = [result EXCEPT ![w] = res]
    /\ \/ /\ res = "success" /\ status = "running"
          /\ ~BuildLocked /\ holders' = {w}
       \/ /\ res # "success" \/ status # "running"
          /\ UNCHANGED holders
    /\ Goto(w, AfterCounts(View(w, res)))
    /\ UNCHANGED <<rows, claim, renewal, now>>

(* Mutant: the job is completed although its step was not. *)
CompletionRefusedIgnored(w, res) ==
    /\ pc[w] = "exec"
    /\ ~CanComplete(w, res)
    /\ \/ claim[w].job = 0 /\ Forget(w)
       \/ /\ claim[w].job # 0
          /\ Goto(w, IF res = "success" THEN "completeJobSuccess" ELSE "completeJobFailure")
          /\ UNCHANGED <<claim, renewal, tx>>
    /\ UNCHANGED <<rows, now>>

(* A stale or duplicate completion changes nothing. *)
CompletionRefused(w, res) ==
    /\ pc[w] = "exec"
    /\ ~CanComplete(w, res)
    /\ Forget(w)
    /\ UNCHANGED <<rows, now>>

(* hasRunnablePendingStepTx reads the rows again. *)
HasRunnablePendingStep(w) ==
    /\ pc[w] = "runnable"
    /\ Goto(w, IF \E s \in Steps : Runnable(View(w, result[w]), s)
               THEN "commit" ELSE "updateFailed")
    /\ UNCHANGED <<rows, claim, renewal, tx, now>>

(* current_step_index = GREATEST(current_step_index, step_index + 1) *)
AdvancedCursor(w) ==
    LET s == claim[w].step
    IN  IF (w \in holders \/ pc[w] = "updateSuccess") /\ s > cursor THEN s ELSE cursor

(* The commit of a completion.  With CompleteStep, the job is completed by *)
(* a statement of its own.                                                 *)
Commit(w) ==
    LET res == result[w]
    IN  /\ steps' = View(w, res)
        /\ cursor' = AdvancedCursor(w)
        /\ \/ /\ IsAtomic(w, res)
              /\ jobs' = [jobs EXCEPT ![claim[w].job] = Unclaimed(res)]
              /\ Forget(w)
           \/ /\ claim[w].job = 0
              /\ Forget(w) /\ UNCHANGED jobs
           \/ /\ claim[w].job # 0 /\ ~IsAtomic(w, res)
              /\ Goto(w, IF res = "success" THEN "completeJobSuccess" ELSE "completeJobFailure")
              /\ EndTx(w) /\ UNCHANGED <<jobs, claim, renewal>>
        /\ UNCHANGED now

(* The build goes on. *)
CommitStep(w) ==
    /\ pc[w] = "commit"
    /\ Commit(w)
    /\ UNCHANGED status

(* updateBuildSuccessTx or updateBuildFailedTx, once nobody else has the   *)
(* builds row, and the commit ...                                          *)
UpdateBuild(w) ==
    /\ status = "running" /\ holders \subseteq {w}
    /\ \/ pc[w] = "updateSuccess" /\ status' = "success"
       \/ pc[w] = "updateFailed" /\ status' = "failed"
    /\ Commit(w)

(* ... unless the build is not running any more: errGuardedBuildUpdateNoop *)
(* rolls the step's completion back.                                       *)
UpdateBuildNoop(w) ==
    /\ pc[w] \in {"updateSuccess", "updateFailed"}
    /\ status # "running"
    /\ Forget(w)
    /\ UNCHANGED <<rows, now>>

(* CompleteJobSuccess and CompleteJobFailure. *)
CompleteJob(w) ==
    /\ \/ /\ pc[w] = "completeJobSuccess" /\ HoldsJob(w)
          /\ jobs' = [jobs EXCEPT ![claim[w].job] = Unclaimed("success")]
       \/ /\ pc[w] = "completeJobFailure" /\ HoldsJob(w)
          /\ jobs' = [jobs EXCEPT ![claim[w].job] = Unclaimed("failed")]
       \/ /\ pc[w] \in {"completeJobSuccess", "completeJobFailure"} /\ ~HoldsJob(w)
          /\ UNCHANGED jobs
    /\ Forget(w)
    /\ UNCHANGED <<status, cursor, steps, now>>

-----------------------------------------------------------------------------
(* CancelBuild, crashes and time *)

(* CancelBuild locks the build, its steps and its jobs, and so waits for   *)
(* the open completions; when they wait for each other the database aborts *)
(* one of them.                                                            *)
CancelBuild ==
    /\ CanCancelBuild(status)
    /\ \A w \in Workers : ~InTx(w)
    /\ status' = "canceled"
    /\ steps' = [s \in Steps |->
           IF CanCancelStep(steps[s].status) THEN Unclaimed("canceled") ELSE steps[s]]
    /\ jobs' = [s \in Steps |->
           IF CanCancelExecutionJob(jobs[s].status) THEN Unclaimed("canceled") ELSE jobs[s]]
    /\ UNCHANGED <<cursor, procs, now>>

(* The process dies and restarts, or returns on an error of its own or of  *)
(* the database: what it claimed stays claimed until the lease runs out.   *)
Abandon(w) ==
    /\ pc[w] # "idle"
    /\ Forget(w)
    /\ UNCHANGED <<rows, now>>

Tick ==
    /\ now < MaxTime
    /\ now' = now + 1
    /\ UNCHANGED <<rows, procs>>

-----------------------------------------------------------------------------

WorkerNext(w) ==
    \/ Poll(w)
    \/ ClaimNextRunnableJob(w)
    \/ ClaimNextRunnableJobMiss(w)
    \/ ClaimPendingStep(w)
    \/ ReclaimExpiredStep(w)
    \/ ReclaimExpiredStepMiss(w)
    \/ ScanPending(w)
    \/ ScanExpired(w)
    \/ ClaimJobByStepID(w)
    \/ ExecuteRunnableStep(w)
    \/ RenewJobLease(w)
    \/ RenewStepLease(w)
    \/ \E res \in StepResults : ApplyStepCompletion(w, res) \/ CompletionRefused(w, res)
    \/ HasRunnablePendingStep(w)
    \/ CommitStep(w)
    \/ UpdateBuild(w)
    \/ UpdateBuildNoop(w)
    \/ CompleteJob(w)
    \/ Abandon(w)

Next ==
    \/ \E w \in Workers : WorkerNext(w)
    \/ CancelBuild
    \/ Tick

Spec == Init /\ [][Next]_vars

-----------------------------------------------------------------------------
(* Properties *)

(* A step runs, or has finished, only when every step it depends on is a   *)
(* success: the dependency guard is evaluated in the claim itself, so no   *)
(* claim, reclaim or steal by a second worker gets ahead of a dependency.  *)
DependencyOrder ==
    \A s \in Steps :
        steps[s].status \in {"running", "success", "failed"} => DepsSucceeded(s)

(* state-machine.md: build success is only valid when all required steps   *)
(* are successful.                                                         *)
SuccessIsEarned ==
    status = "success" => \A s \in Steps : steps[s].status = "success"

(* A build that is still running has a step in flight, one that can be     *)
(* claimed, or one that has failed: completions that count at the same     *)
(* time, each in a transaction of its own, never commit the last success   *)
(* and leave the build for nobody to finish.  (Behind a failure that can   *)
(* happen: a failing completion counts without the lock.)                  *)
RunningHasWork ==
    status = "running" =>
        \E s \in Steps : steps[s].status \in {"running", "failed"} \/ Runnable(steps, s)

(* A durable job never reports an outcome its step does not have, although *)
(* the two rows are claimed, stolen and completed in separate statements.  *)
JobOutcomeAgrees ==
    \A s \in Steps :
        jobs[s].status \in StepResults => steps[s].status = jobs[s].status

(* While a step and its job carry the same token, the step's lease does    *)
(* not outlive the job's: a job that can be reclaimed has a step that can  *)
(* be reclaimed too, or the mirror of the reclaim would fail.              *)
StepLeaseCovered ==
    \A s \in Steps :
        (steps[s].tok = jobs[s].tok /\ steps[s].tok # NoToken)
            => steps[s].exp <= jobs[s].exp

(* state-machine.md: terminal records are immutable, duplicate and stale   *)
(* completions change nothing.                                             *)
StepOutcomeFinal ==
    [][\A s \in Steps :
          IsTerminalStepStatus(steps[s].status) => steps'[s] = steps[s]]_vars

(* A running step changes hands only once its lease has run out: a live    *)
(* worker is never replaced, on any of the claim paths.                    *)
LeaseRespected ==
    [][\A s \in Steps :
          (/\ steps[s].status = "running" /\ steps'[s].status = "running"
           /\ steps'[s].tok # steps[s].tok)
              => steps[s].exp <= now]_vars

(* state-machine.md: with atomic completion, the success of a step and of  *)
(* the job claimed with it become visible together.                        *)
AtomicCompletionPairs ==
    [][\A s \in Steps :
          (/\ steps[s].status = "running" /\ steps[s].tok = jobs[s].tok
           /\ steps'[s].status \in AtomicResults)
              => jobs'[s].status = steps'[s].status]_vars

-----------------------------------------------------------------------------
(* Refinement *)

(* What a step row shows: an outcome, or that there is none yet. *)
Outcomes ==
    [s \in Steps |-> IF IsTerminalStepStatus(steps[s].status) THEN steps[s].status ELSE "open"]

Abstract == INSTANCE BuildOutcome WITH build <- status, outcome <- Outcomes

(* Claims that miss, are stolen or expire, workers that die, report twice  *)
(* or too late, completions that count at the same time and jobs completed *)
(* apart from their steps do not show: each step gets one outcome, in the  *)
(* order of the dependencies, and the build is a success in the very       *)
(* moment its last step is.                                                *)
ImplementsBuildOutcome == Abstract!Spec

-----------------------------------------------------------------------------
(* The inductive invariant behind them (BuildRunProofs) *)

(* A row carries a token exactly while it is running. *)
RowShape ==
    \A s \in Steps :
        /\ steps[s].tok # NoToken <=> steps[s].status = "running"
        /\ jobs[s].tok # NoToken <=> jobs[s].status = "running"

(* Every process past the poll has a token of its own; one past the scan   *)
(* has a step, and its job, if any, is that step's.                        *)
WorkerShape ==
    /\ \A w \in Workers :
          /\ pc[w] # "idle" => claim[w].tok # NoToken
          /\ pc[w] \notin {"idle", "claimJob", "claimJobOnly", "scanPending", "scanExpired"}
                => claim[w].step # 0
          /\ pc[w] \in {"mirrorPending", "mirrorExpired", "completeJobSuccess",
                        "completeJobFailure"} => claim[w].job # 0
          /\ claim[w].job # 0 => claim[w].job = claim[w].step
          /\ renewal[w] # 0 => pc[w] \in Executing
    /\ \A v, w \in Workers :
          v # w /\ claim[v].tok = claim[w].tok => claim[v].tok = NoToken

(* A token that is still in a process is on no row but those the process   *)
(* has claimed with it.                                                    *)
TokenOwnership ==
    \A w \in Workers, s \in Steps :
        claim[w].tok # NoToken =>
            /\ steps[s].tok = claim[w].tok =>
                  s = claim[w].step /\ pc[w] \in {"bind", "start", "exec"} \cup TxPCs
            /\ jobs[s].tok = claim[w].tok =>
                  /\ s = claim[w].job
                  /\ pc[w] \in {"mirrorPending", "mirrorExpired", "start"} \cup Executing

(* An open completion still has the step it completes, and the job it      *)
(* completes with it; at most one of them has the builds row.              *)
TxShape ==
    /\ \A w \in Workers :
          /\ InTx(w) <=> pc[w] \in TxPCs
          /\ InTx(w) => HoldsStep(w) /\ (IsAtomic(w, result[w]) => HoldsJob(w))
          /\ w \in holders => result[w] = "success"
    /\ \A v, w \in holders : v = w

(* A success that counts the steps of a running build has the builds row,  *)
(* and what an open completion has counted still holds when it commits.    *)
DecisionShape ==
    /\ holders # {} => status = "running"
    /\ \A w \in Workers :
          /\ pc[w] = "updateSuccess" =>
                \A s \in Steps : View(w, result[w])[s].status = "success"
          /\ status = "running" /\ result[w] = "success" => w \in holders
          /\ status = "running" /\ pc[w] \in TxPCs \ {"updateSuccess"} =>
                \E s \in Steps : View(w, result[w])[s].status # "success"

(* The build's status and its steps agree. *)
BuildShape ==
    /\ status \in {"running", "success", "failed", "canceled"}
    /\ \A s \in Steps : steps[s].status = "canceled" => status = "canceled"
    /\ status = "running" => \E s \in Steps : steps[s].status # "success"
    /\ SuccessIsEarned
    /\ status = "canceled" => \A s \in Steps : IsTerminalStepStatus(steps[s].status)

(* A job is completed with the outcome its step already has. *)
JobShape ==
    /\ JobOutcomeAgrees
    /\ \A w \in Workers :
          claim[w].job # 0 /\ HoldsJob(w) =>
              /\ pc[w] = "completeJobSuccess" => steps[claim[w].step].status = "success"
              /\ pc[w] = "completeJobFailure" => steps[claim[w].step].status = "failed"

(* No lease reaches further than a lease drawn now; a claim being mirrored *)
(* or bound, and a renewal half done, leave the job's lease ahead.         *)
LeaseShape ==
    /\ StepLeaseCovered
    /\ \A s \in Steps : steps[s].exp <= now + Lease
    /\ \A w \in Workers :
          LET s == claim[w].step
          IN  /\ claim[w].at <= now /\ renewal[w] <= now + Lease
              /\ pc[w] \in {"mirrorPending", "mirrorExpired"} /\ jobs[s].tok = claim[w].tok
                    => jobs[s].exp = claim[w].at + Lease
              /\ pc[w] = "bind" /\ steps[s].tok = claim[w].tok
                    => steps[s].exp = claim[w].at + Lease
              /\ renewal[w] # 0 /\ jobs[s].tok = claim[w].tok
                    => renewal[w] <= jobs[s].exp

IndInv ==
    /\ TypeOK /\ RowShape /\ WorkerShape /\ TokenOwnership /\ TxShape
    /\ DecisionShape /\ DependencyOrder /\ BuildShape /\ JobShape /\ LeaseShape
=============================================================================
