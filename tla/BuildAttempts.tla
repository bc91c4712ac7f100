---------------------------- MODULE BuildAttempts ----------------------------
(***************************************************************************)
(* Where builds come from: creation from a pipeline or from nothing,       *)
(* queueing, retry of a job and rerun of a build (service/build:           *)
(* build_create.go, read_queue.go, retry_rerun.go, execution_planner.go;   *)
(* pipeline/loader.go; repository/postgres/build_repository.go), down to   *)
(* the workers that prepare the attempt and run its steps.                 *)
(*                                                                         *)
(* A build's steps are written in one transaction and its durable jobs in  *)
(* a second one.  Leases are reduced to whether a row's claim is still     *)
(* alive: BuildRun has their clock, and BuildControl the writes inside     *)
(* PrepareBuildExecution.  The transaction that completes a step is, as in *)
(* BuildRun, several statements at READ COMMITTED, each of which reads     *)
(* what is committed when it runs.                                         *)
(***************************************************************************)
EXTENDS Lifecycle, Processes, Sequences, Functions, FiniteSets

CONSTANTS
    Pipeline,   \* the pipeline's items in order, each the set of its steps
    DependsOn,  \* what the pipelines say under depends_on: functions of some of
                \* the steps to sets of steps
    Template,   \* the steps of the template that QueueBuild uses
    MaxBuilds,  \* bound on the builds of the lineage
    Requests,   \* API requests, webhooks and triggers
    Workers,    \* worker processes
    Helpers,    \* the workers that are started later, if at all
    Scanners,   \* the workers that fall back to scanning the steps
    MaxLoad     \* bound on builds and helpers, counted together

Builds == 1 .. MaxBuilds
PipelineNodes == UNION Range(Pipeline)
Nodes == PipelineNodes \cup Template
Procs == Requests \cup Workers

ASSUME AttemptsAssumption ==
    /\ Pipeline \in Seq(SUBSET Nat)
    /\ \A i, j \in DOMAIN Pipeline : \A m \in Pipeline[i], n \in Pipeline[j] : i < j => m < n
    /\ \A d \in DependsOn : Range(d) \subseteq SUBSET Nat
    /\ Template \subseteq Nat
    /\ MaxBuilds \in Nat \ {0} /\ MaxLoad \in Nat /\ MaxFaults \in Nat
    /\ Requests \cap Workers = {} /\ Helpers \subseteq Workers /\ Scanners \subseteq Workers
    /\ None \notin Procs

VARIABLES
    status,   \* builds.status, "none" for a build that does not exist
    steps,    \* build_steps of each build: status, dependencies, claim
    jobs,     \* build_jobs of each build: the same
    gen,      \* how often the steps of the build were written: their ids
    loc       \* the build, step, steps' ids and jobs each process works on

vars == <<status, steps, jobs, gen, pc, loc, faults>>

(* owner is the worker whose token the row has, live whether the claim has *)
(* not expired.                                                            *)
RowType(statuses) ==
    [status : statuses, deps : SUBSET Nodes, owner : Workers \cup {None}, live : BOOLEAN]

(* The steps or the jobs of one build. *)
Table(statuses) == UNION {[ns -> RowType(statuses)] : ns \in SUBSET Nodes}

NoRows == [n \in {} |-> 0]
Idle ==
    [b |-> 0, s |-> 0, g |-> 0, jobs |-> NoRows, bound |-> FALSE, res |-> "none", lock |-> FALSE]

(* bound is whether the step is executed with its job, res the status that *)
(* a completion has written to the step, and lock whether it has locked    *)
(* the builds row.                                                         *)
LocType ==
    [b : Builds \cup {0}, s : Nodes \cup {0}, g : Nat, jobs : Table(JobStatuses),
     bound : BOOLEAN, res : StepResults \cup {"none"}, lock : BOOLEAN]

(* The statements of an open completion that are still to come, and what a *)
(* worker does with a step that it has claimed.                            *)
TxPCs == {"runnable", "updateSuccess", "updateFailed", "commit"}
StepPCs == {"mirror", "bind", "exec", "endJob"} \cup TxPCs
PCs == {"off", "idle", "queue", "jobs", "prepare"} \cup StepPCs

TypeOK ==
    /\ status \in [Builds -> BuildStatuses \cup {"none"}]
    /\ steps \in [Builds -> Table(StepStatuses)]
    /\ jobs \in [Builds -> Table(JobStatuses)]
    /\ gen \in [Builds -> Nat]
    /\ pc \in [Procs -> PCs]
    /\ loc \in [Procs -> LocType]
    /\ faults \in 0 .. MaxFaults

NewRow(st, deps) == [status |-> st, deps |-> deps, owner |-> None, live |-> FALSE]
Claimed(row, w) == [row EXCEPT !.status = "running", !.owner = w, !.live = TRUE]
Ended(row, st) == [row EXCEPT !.status = st, !.owner = None, !.live = FALSE]

Init ==
    /\ status = [b \in Builds |-> "none"]
    /\ steps = [b \in Builds |-> NoRows]
    /\ jobs = [b \in Builds |-> NoRows]
    /\ gen = [b \in Builds |-> 0]
    /\ pc = [p \in Procs |-> IF p \in Helpers THEN "off" ELSE "idle"]
    /\ loc = [p \in Procs |-> Idle]
    /\ faults = 0

(* Room for another build or helper. *)
Room ==
    Cardinality({b \in Builds : status[b] # "none"}) + Cardinality({w \in Helpers : pc[w] # "off"})
        < MaxLoad

(* The end of a request, a poll or an execution; a transaction that is     *)
(* still open is rolled back.                                              *)
Done(p) == Goto(p, "idle") /\ loc' = [loc EXCEPT ![p] = Idle]

(* The rows that open completions have locked. *)
Completing(w, b) == pc[w] \in TxPCs /\ loc[w].b = b
StepLocked(b, s) == \E w \in Workers : Completing(w, b) /\ loc[w].s = s
BuildLocked(b) == \E w \in Workers : Completing(w, b) /\ loc[w].lock

-----------------------------------------------------------------------------
(* Planning *)

(* Resolve: a step depends on what its depends_on names, and without one   *)
(* on the frontier, all the steps of the item before its own.              *)
Frontier(n) ==
    UNION {IF i = 1 THEN {} ELSE Pipeline[i - 1] : i \in {k \in DOMAIN Pipeline : n \in Pipeline[k]}}
Resolve(d) == [n \in PipelineNodes |-> IF n \in DOMAIN d THEN d[n] ELSE Frontier(n)]

(* hasDependencyCycle: among some steps each depends on one of them. *)
HasDependencyCycle(deps) ==
    \E S \in SUBSET DOMAIN deps : S # {} /\ \A n \in S : deps[n] \cap S # {}

(* validateStepDependencies *)
ValidDependencies(d) ==
    /\ DOMAIN d \subseteq PipelineNodes
    /\ \A n \in DOMAIN d : d[n] \subseteq PipelineNodes \ {n}
    /\ ~HasDependencyCycle(Resolve(d))

(* pipelineStepsToDomain; domainStepsFromInputs gives its steps node ids   *)
(* and no dependencies.                                                    *)
PipelineSteps(d) == [n \in PipelineNodes |-> NewRow("pending", Resolve(d)[n])]
TemplateSteps == [n \in Template |-> NewRow("pending", {})]

(* cloneStepForAttempt: the dependencies are kept, those on steps that the *)
(* new build does not have too.                                            *)
CloneSteps(src, ns) == [n \in ns |-> NewRow("pending", steps[src][n].deps)]

(* The planner's jobs repeat the dependencies of their steps;              *)
(* cloneJobAttempt and fallbackRerunJobFromStep leave them out.            *)
PlannedJobs(rows) == [n \in DOMAIN rows |-> NewRow("queued", rows[n].deps)]
ClonedJobs(rows) == [n \in DOMAIN rows |-> NewRow("queued", {})]

-----------------------------------------------------------------------------
(* Creation, retry and rerun *)

(* CreateQueuedBuild: the build and its steps, in one transaction; the     *)
(* jobs come next.                                                         *)
CreateQueuedBuild(r, b, rows, newJobs) ==
    /\ At(r, "idle")
    /\ status[b] = "none" /\ \A a \in 1 .. b - 1 : status[a] # "none"
    /\ Room
    /\ status' = [status EXCEPT ![b] = "queued"]
    /\ steps' = [steps EXCEPT ![b] = rows]
    /\ gen' = [gen EXCEPT ![b] = 1]
    /\ Goto(r, "jobs")
    /\ loc' = [loc EXCEPT ![r] = [Idle EXCEPT !.b = b, !.g = 1, !.jobs = newJobs]]
    /\ UNCHANGED <<jobs, faults>>

(* LoadAndResolve refuses a pipeline before there is a build. *)
CreateBuildFromPipeline(r, b) ==
    \E d \in DependsOn :
        /\ ValidDependencies(d)
        /\ CreateQueuedBuild(r, b, PipelineSteps(d), PlannedJobs(PipelineSteps(d)))

(* CreateBuild without steps. *)
CreateBuild(r, b) ==
    /\ At(r, "idle")
    /\ status[b] = "none" /\ \A a \in 1 .. b - 1 : status[a] # "none"
    /\ Room
    /\ status' = [status EXCEPT ![b] = "pending"]
    /\ UNCHANGED <<steps, jobs, gen, pc, loc, faults>>

(* RetryJob: a build of the failed job's step alone. *)
RetryJob(r, src, s, b) ==
    /\ s \in DOMAIN jobs[src] /\ jobs[src][s].status = "failed"
    /\ LET rows == CloneSteps(src, {s}) IN CreateQueuedBuild(r, b, rows, ClonedJobs(rows))

(* RerunBuildFromStep, whatever the status of the source build. *)
RerunBuildFromStep(r, src, k, b) ==
    LET ns == {n \in DOMAIN steps[src] : n >= k}
        rows == CloneSteps(src, ns)
    IN  ns # {} /\ CreateQueuedBuild(r, b, rows, ClonedJobs(rows))

(* RerunBuild: validateBuildRerunContext, then all steps. *)
RerunBuild(r, src, b) ==
    LET rows == CloneSteps(src, DOMAIN steps[src]) IN
    /\ IsTerminalBuildStatus(status[src])
    /\ DOMAIN steps[src] # {}
    /\ CreateQueuedBuild(r, b, rows, PlannedJobs(rows))

-----------------------------------------------------------------------------
(* Queueing *)

(* QueueBuildWithTemplateAndCustomSteps, by a request or by a worker that  *)
(* finds a pending build: the read ...                                     *)
QueueCheck(p, b) ==
    /\ At(p, "idle")
    /\ CanTransitionBuild(status[b], "queued")
    /\ Goto(p, "queue")
    /\ loc' = [loc EXCEPT ![p].b = b]
    /\ UNCHANGED <<status, steps, jobs, gen, faults>>

(* Mutant: the jobs of the deleted steps stay. *)
KeepJobs(b) == jobs' = jobs

(* step_id REFERENCES build_steps(id) ON DELETE CASCADE *)
CascadeJobs(b) == jobs' = [jobs EXCEPT ![b] = NoRows]

(* ... and the transaction, which does not look at the status any more and *)
(* replaces the steps.  It locks the build and its steps, and so waits for *)
(* the open completions; when they wait for each other the database aborts *)
(* one of them.                                                            *)
QueueBuild(p) == LET b == loc[p].b IN
    /\ At(p, "queue")
    /\ \A w \in Workers : ~Completing(w, b)
    /\ status' = [status EXCEPT ![b] = "queued"]
    /\ steps' = [steps EXCEPT ![b] = TemplateSteps]
    /\ CascadeJobs(b)
    /\ gen' = [gen EXCEPT ![b] = @ + 1]
    /\ Goto(p, "jobs")
    /\ loc' = [loc EXCEPT ![p].g = gen[b] + 1, ![p].jobs = PlannedJobs(TemplateSteps)]
    /\ UNCHANGED faults

(* CreateJobsForBuild; fails on its foreign key when the steps have been   *)
(* replaced.                                                               *)
CreateDurableJobs(p) == LET b == loc[p].b IN
    /\ At(p, "jobs")
    /\ jobs' = IF gen[b] = loc[p].g THEN [jobs EXCEPT ![b] = loc[p].jobs] ELSE jobs
    /\ Done(p)
    /\ UNCHANGED <<status, steps, gen, faults>>

-----------------------------------------------------------------------------
(* Workers *)

(* Another worker is started. *)
StartWorker(w) ==
    /\ At(w, "off")
    /\ Room
    /\ Goto(w, "idle")
    /\ UNCHANGED <<status, steps, jobs, gen, loc, faults>>

(* PrepareBuildExecution: queued to preparing ... *)
Prepare(w, b) ==
    /\ At(w, "idle")
    /\ CanTransitionBuild(status[b], "preparing")
    /\ status' = [status EXCEPT ![b] = "preparing"]
    /\ Goto(w, "prepare")
    /\ loc' = [loc EXCEPT ![w].b = b]
    /\ UNCHANGED <<steps, jobs, gen, faults>>

(* ... and to running, if it is still preparing; a failure is persisted    *)
(* without a look at the status.                                           *)
PrepareEnds(w) == LET b == loc[w].b IN
    /\ At(w, "prepare")
    /\ ~BuildLocked(b)
    /\ \/ status' = IF CanTransitionBuild(status[b], "running")
                      THEN [status EXCEPT ![b] = "running"] ELSE status
       \/ status' = [status EXCEPT ![b] = "failed"]
    /\ Done(w)
    /\ UNCHANGED <<steps, jobs, gen, faults>>

(* The LEFT JOIN on build_steps: a dependency that the build does not have *)
(* is never met.                                                           *)
Met(b, deps) == \A d \in deps : d \in DOMAIN steps[b] /\ steps[b][d].status = "success"

Claimable(b, s) ==
    /\ status[b] = "running" /\ s \in DOMAIN jobs[b]
    /\ \/ jobs[b][s].status = "queued"
       \/ jobs[b][s].status = "running" /\ ~jobs[b][s].live
    /\ Met(b, jobs[b][s].deps)

(* ClaimNextRunnableJob, FOR UPDATE SKIP LOCKED of the job and its build. *)
ClaimJob(w, b, s) ==
    /\ At(w, "idle")
    /\ Claimable(b, s) /\ ~BuildLocked(b)
    /\ jobs' = [jobs EXCEPT ![b][s] = Claimed(@, w)]
    /\ Goto(w, "mirror")
    /\ loc' = [loc EXCEPT ![w].b = b, ![w].s = s, ![w].bound = TRUE]
    /\ UNCHANGED <<status, steps, gen, faults>>

(* Mutant: the step is claimed without a look at its dependencies. *)
PendingStep(b, s) == s \in DOMAIN steps[b] /\ steps[b][s].status = "pending"

(* The conditions of ClaimPendingStep and of ReclaimExpiredStep, which     *)
(* waits for a completion that has locked the row.                         *)
ReadyStep(b, s) ==
    s \in DOMAIN steps[b] /\ steps[b][s].status = "pending" /\ Met(b, steps[b][s].deps)

LapsedStep(b, s) ==
    s \in DOMAIN steps[b] /\ steps[b][s].status = "running" /\ ~steps[b][s].live

TakeStep(w, b, s) == steps' = [steps EXCEPT ![b][s] = Claimed(@, w)]

(* mirrorJobClaimToStep.  When the step cannot be claimed the poll fails,  *)
(* and the job is left running under a claim that nobody renews.           *)
MirrorJobClaim(w) == LET b == loc[w].b  s == loc[w].s IN
    /\ At(w, "mirror")
    /\ LapsedStep(b, s) => ~StepLocked(b, s)
    /\ IF ReadyStep(b, s) \/ LapsedStep(b, s)
         THEN /\ TakeStep(w, b, s)
              /\ Goto(w, "exec")
              /\ UNCHANGED loc
         ELSE Done(w) /\ UNCHANGED steps
    /\ UNCHANGED <<status, jobs, gen, faults>>

(* workerFirstRunnableStep and workerFirstReclaimableRunningStep: only the *)
(* first step that has not succeeded.                                      *)
First(b, s) == \A n \in DOMAIN steps[b] : n < s => steps[b][n].status = "success"

(* The scan of the builds' steps when no job can be claimed, or no job     *)
(* that is not locked.                                                     *)
ClaimStep(w, b, s) ==
    /\ w \in Scanners /\ At(w, "idle")
    /\ status[b] = "running"
    /\ ~\E c \in Builds : \E n \in DOMAIN jobs[c] : Claimable(c, n) /\ ~BuildLocked(c)
    /\ First(b, s) /\ (ReadyStep(b, s) \/ LapsedStep(b, s)) /\ ~StepLocked(b, s)
    /\ TakeStep(w, b, s)
    /\ Goto(w, "bind")
    /\ loc' = [loc EXCEPT ![w].b = b, ![w].s = s]
    /\ UNCHANGED <<status, jobs, gen, faults>>

(* bindRunnableStepFromJob: ClaimJobByStepID takes the step's job whoever  *)
(* holds it, and passes over a build that is locked.                       *)
BindJob(w) == LET b == loc[w].b  s == loc[w].s IN
    /\ At(w, "bind")
    /\ IF /\ status[b] = "running" /\ ~BuildLocked(b)
          /\ s \in DOMAIN jobs[b] /\ jobs[b][s].status \in {"queued", "running"}
         THEN /\ jobs' = [jobs EXCEPT ![b][s] = Claimed(@, w)]
              /\ loc' = [loc EXCEPT ![w].bound = TRUE]
         ELSE UNCHANGED <<jobs, loc>>
    /\ Goto(w, "exec")
    /\ UNCHANGED <<status, steps, gen, faults>>

(* WHERE status = 'running' AND claim_token = ... *)
HoldsClaim(w) == LET b == loc[w].b  s == loc[w].s IN
    s \in DOMAIN steps[b] /\ steps[b][s].status = "running" /\ steps[b][s].owner = w

(* What the transaction of w reads: the committed rows and its own. *)
View(w, res) == [steps[loc[w].b] EXCEPT ![loc[w].s] = Ended(@, res)]

(* Mutant: pending steps keep the build running though none is runnable. *)
AfterCountsWaits(rows) ==
    LET has(sts) == \E n \in DOMAIN rows : rows[n].status \in sts
    IN  IF ~has({"pending", "running", "failed"}) THEN "updateSuccess"
        ELSE IF has({"running", "pending"}) THEN "commit"
        ELSE "runnable"

(* What the counts of loadBuildStepProgressTx lead to. *)
AfterCounts(rows) ==
    LET has(sts) == \E n \in DOMAIN rows : rows[n].status \in sts
    IN  IF ~has({"pending", "running", "failed"}) THEN "updateSuccess"
        ELSE IF has({"running"}) THEN "commit"
        ELSE "runnable"

(* The step has run: the update of the step, if the worker still has it,   *)
(* and the counts.  Before it counts, a success takes the lock of the      *)
(* builds row of a running build; a failure counts without it.             *)
ApplyStepCompletion(w, res) == LET b == loc[w].b IN
    /\ At(w, "exec")
    /\ HoldsClaim(w)
    /\ LET lock == res = "success" /\ status[b] = "running" IN
         /\ lock => ~BuildLocked(b)
         /\ loc' = [loc EXCEPT ![w].res = res, ![w].lock = lock]
    /\ Goto(w, AfterCounts(View(w, res)))
    /\ UNCHANGED <<status, steps, jobs, gen, faults>>

(* A lost claim changes nothing. *)
CompletionRefused(w) ==
    /\ At(w, "exec")
    /\ ~HoldsClaim(w)
    /\ Done(w)
    /\ UNCHANGED <<status, steps, jobs, gen, faults>>

(* hasRunnablePendingStepTx reads the rows again. *)
HasRunnablePendingStep(w) ==
    LET rows == View(w, loc[w].res)
        runnable(n) == rows[n].status = "pending"
                         /\ \A d \in rows[n].deps : d \in DOMAIN rows /\ rows[d].status = "success"
    IN  /\ At(w, "runnable")
        /\ Goto(w, IF \E n \in DOMAIN rows : runnable(n) THEN "commit" ELSE "updateFailed")
        /\ UNCHANGED <<status, steps, jobs, gen, loc, faults>>

(* The commit; the build goes on, ... *)
Commit(w) == LET b == loc[w].b IN
    /\ steps' = [steps EXCEPT ![b] = View(w, loc[w].res)]
    /\ Goto(w, "endJob")
    /\ UNCHANGED <<jobs, gen, loc, faults>>

CommitStep(w) ==
    /\ At(w, "commit")
    /\ Commit(w)
    /\ UNCHANGED status

(* ... or ends by updateBuildSuccessTx or updateBuildFailedTx, once nobody *)
(* else has the builds row.                                                *)
UpdateBuild(w) == LET b == loc[w].b IN
    /\ \/ At(w, "updateSuccess") /\ status' = [status EXCEPT ![b] = "success"]
       \/ At(w, "updateFailed") /\ status' = [status EXCEPT ![b] = "failed"]
    /\ status[b] = "running" /\ (BuildLocked(b) => loc[w].lock)
    /\ Commit(w)

(* errGuardedBuildUpdateNoop: in a build that is not running any more the  *)
(* completion is rolled back.                                              *)
UpdateBuildNoop(w) ==
    /\ pc[w] \in {"updateSuccess", "updateFailed"}
    /\ status[loc[w].b] # "running"
    /\ Done(w)
    /\ UNCHANGED <<status, steps, jobs, gen, faults>>

(* CompleteJobSuccess and CompleteJobFailure, if the worker has the job. *)
CompleteJob(w) == LET b == loc[w].b  s == loc[w].s IN
    /\ At(w, "endJob")
    /\ jobs' = IF loc[w].bound /\ s \in DOMAIN jobs[b] /\ jobs[b][s].owner = w
                 THEN [jobs EXCEPT ![b][s] = Ended(@, loc[w].res)] ELSE jobs
    /\ Done(w)
    /\ UNCHANGED <<status, steps, gen, faults>>

-----------------------------------------------------------------------------
(* Faults *)

(* A request or worker dies, or the query it is at fails: what it has      *)
(* written stays, and what it still had to write is never written.         *)
Dies(p) ==
    /\ pc[p] \notin {"off", "idle"}
    /\ Fault
    /\ Done(p)
    /\ UNCHANGED <<status, steps, jobs, gen>>

Live(rows, b, s) == s \in DOMAIN rows[b] /\ rows[b][s].live

Attended(rows, b, s) == Live(rows, b, s) /\ LET w == rows[b][s].owner IN
    pc[w] \in StepPCs /\ loc[w].b = b /\ loc[w].s = s

Lapsed(rows, b, s) ==
    IF Live(rows, b, s) THEN [rows EXCEPT ![b][s].live = FALSE] ELSE rows

(* The lease on a step and its job runs out when nobody renews it any      *)
(* more, or when the renewals of the worker that runs it fail.             *)
LeaseExpires(b, s) ==
    /\ Live(steps, b, s) \/ Live(jobs, b, s)
    /\ IF Attended(steps, b, s) \/ Attended(jobs, b, s) THEN Fault ELSE UNCHANGED faults
    /\ steps' = Lapsed(steps, b, s)
    /\ jobs' = Lapsed(jobs, b, s)
    /\ UNCHANGED <<status, gen, pc, loc>>

-----------------------------------------------------------------------------

Request(r) ==
    \E b \in Builds :
        \/ CreateBuild(r, b)
        \/ CreateBuildFromPipeline(r, b)
        \/ QueueCheck(r, b)
        \/ \E src \in Builds :
              \/ RerunBuild(r, src, b)
              \/ \E s \in Nodes : RetryJob(r, src, s, b) \/ RerunBuildFromStep(r, src, s, b)

Complete(w) ==
    \/ \E res \in StepResults : ApplyStepCompletion(w, res)
    \/ CompletionRefused(w)
    \/ HasRunnablePendingStep(w)
    \/ CommitStep(w)
    \/ UpdateBuild(w)
    \/ UpdateBuildNoop(w)
    \/ CompleteJob(w)

(* What a process does once it has begun. *)
Proceed(p) ==
    \/ QueueBuild(p)
    \/ CreateDurableJobs(p)
    \/ p \in Workers /\ (PrepareEnds(p) \/ MirrorJobClaim(p) \/ BindJob(p) \/ Complete(p))

Poll(w, b) ==
    \/ QueueCheck(w, b)
    \/ Prepare(w, b)
    \/ \E s \in Nodes : ClaimStep(w, b, s)

Next ==
    \/ \E r \in Requests : Request(r)
    \/ \E w \in Workers, b \in Builds : Poll(w, b) \/ \E s \in Nodes : ClaimJob(w, b, s)
    \/ \E w \in Helpers : StartWorker(w)
    \/ \E p \in Procs : Proceed(p) \/ Dies(p)
    \/ \E b \in Builds, s \in Nodes : LeaseExpires(b, s)

(* Processes keep running, workers keep polling and time passes.  A job    *)
(* whose step cannot be claimed is claimed again only when its lease has   *)
(* expired, so that the polls in between reach every other build.          *)
Fairness ==
    /\ \A p \in Procs : WF_vars(Proceed(p))
    /\ \A b \in Builds :
         /\ SF_vars(\E w \in Workers : Poll(w, b))
         /\ \A s \in Nodes : /\ SF_vars(\E w \in Workers : ClaimJob(w, b, s))
                             /\ WF_vars(LeaseExpires(b, s) /\ UNCHANGED faults)

Spec == Init /\ [][Next]_vars /\ Fairness

-----------------------------------------------------------------------------
(* Properties *)

(* A step runs only after every step that it depends on has succeeded, in  *)
(* every attempt: the jobs of retries and partial reruns carry no          *)
(* dependencies, and only the claim of the step holds them back.           *)
OrderKept ==
    \A b \in Builds : \A s \in DOMAIN steps[b] :
        steps[b][s].status # "pending" => Met(b, steps[b][s].deps)

(* A job that has ended agrees with its step, whatever requests replace    *)
(* the steps of the build and whoever takes the job over.                  *)
JobOutcomeAgrees ==
    \A b \in Builds : \A s \in DOMAIN jobs[b] :
        IsTerminalExecutionJobStatus(jobs[b][s].status) => steps[b][s].status = jobs[b][s].status

(* A build whose preparation was lost: only queued builds are prepared. *)
Unprepared(b) ==
    status[b] = "preparing" /\ \A w \in Workers : ~(At(w, "prepare") /\ loc[w].b = b)

(* A build with a step that waits for a step it does not have. *)
Unmeetable(b) == \E s \in DOMAIN steps[b] : ~(steps[b][s].deps \subseteq DOMAIN steps[b])

(* A build whose jobs were never written, where no scanner is up, or where *)
(* the scan, which looks no further than the first step that has not       *)
(* succeeded, finds one that has failed or waits for a later step.         *)
Jobless(b) ==
    /\ DOMAIN jobs[b] # DOMAIN steps[b]
    /\ \/ \A w \in Scanners : At(w, "off")
       \/ \E s \in DOMAIN steps[b] :
             steps[b][s].status = "failed" \/ \E d \in steps[b][s].deps : d > s

(* A build that was queued twice: the second transaction took the steps of *)
(* a build that may have been running already.                             *)
Requeued(b) == gen[b] > 1

(* A running build that nobody will end: two of its steps were completed,  *)
(* one of them as failed, and each transaction counted the other's step as *)
(* still running; now none is in flight or can be claimed.                 *)
Stranded(b) ==
    /\ status[b] = "running"
    /\ \E s, t \in DOMAIN steps[b] :
          s # t /\ steps[b][s].status = "failed" /\ steps[b][t].status \in StepResults
    /\ \A s \in DOMAIN steps[b] : steps[b][s].status # "running" /\ ~ReadyStep(b, s)

(* Time and again every build that exists has ended, if no worker died     *)
(* preparing it, it has the steps that its steps wait for, it was not      *)
(* queued a second time, and somebody looks for its jobs or can find its   *)
(* steps, unless a failure that was recorded beside the completion of      *)
(* another step left it with nobody to end it.                             *)
BuildEnds ==
    []<>(\A b \in Builds :
            \/ status[b] = "none" \/ IsTerminalBuildStatus(status[b]) \/ Stranded(b)
            \/ Unprepared(b) \/ Unmeetable(b) \/ Requeued(b) \/ Jobless(b))

(* A retry or a rerun from a step is a build like any other: it ends,      *)
(* unless it is queued again (as only a pending build can be).             *)
AttemptEnds ==
    \A b \in Builds : status[b] = "queued" ~> IsTerminalBuildStatus(status[b]) \/ Requeued(b)

-----------------------------------------------------------------------------
(* The inductive invariant *)

(* A build that does not exist has no steps and no jobs. *)
NothingBefore ==
    \A b \in Builds :
        status[b] = "none" => gen[b] = 0 /\ DOMAIN steps[b] = {} /\ DOMAIN jobs[b] = {}

(* A process works on a build, and from its claim on also on a step. *)
Places ==
    \A p \in Procs :
        /\ pc[p] \notin {"off", "idle"} => loc[p].b \in Builds
        /\ pc[p] \in StepPCs => loc[p].s \in Nodes

(* An open completion has a result and still holds its step, whose row is  *)
(* locked; and a worker that has yet to end its job has ended the step.    *)
OpenCompletions ==
    \A w \in Workers : LET b == loc[w].b  s == loc[w].s IN
        /\ pc[w] \in TxPCs => loc[w].res \in StepResults /\ HoldsClaim(w)
        /\ pc[w] = "endJob" =>
             /\ loc[w].res \in StepResults
             /\ s \in DOMAIN jobs[b] /\ jobs[b][s].owner = w => steps[b][s].status = loc[w].res

(* The jobs that a process is about to write are new and nobody's, and     *)
(* those of the build's steps unless the steps have been replaced since.   *)
JobsToWrite ==
    \A p \in Procs : At(p, "jobs") => LET b == loc[p].b  rows == loc[p].jobs IN
        /\ loc[p].g \in 1 .. gen[b]
        /\ \A n \in DOMAIN rows : rows[n].status = "queued" /\ rows[n].owner = None
        /\ loc[p].g = gen[b] => DOMAIN rows \subseteq DOMAIN steps[b]

(* Every job has its step. *)
JobsHaveSteps == \A b \in Builds : DOMAIN jobs[b] \subseteq DOMAIN steps[b]

IndInv ==
    /\ TypeOK
    /\ NothingBefore
    /\ Places
    /\ OpenCompletions
    /\ JobsToWrite
    /\ JobsHaveSteps
    /\ OrderKept
    /\ JobOutcomeAgrees
=============================================================================
