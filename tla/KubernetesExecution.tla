------------------------- MODULE KubernetesExecution -------------------------
(***************************************************************************)
(* One durable execution job run by the Kubernetes backend: the row in     *)
(* build_jobs, the Kubernetes Job with the deterministic name, its Pod     *)
(* with the prepare, build and publish containers, the internal API that   *)
(* authorizes the helpers and publishes the workspace revision, and the    *)
(* controllers that claim, reconcile, complete and clean up.               *)
(*                                                                         *)
(* Every call a controller or a helper makes to the database, the store or *)
(* the cluster is one action.  The step row follows the job row here       *)
(* (completion writes both in one transaction); BuildRun has the two rows. *)
(***************************************************************************)
EXTENDS Lifecycle, Integers, Sequences, FiniteSets

CONSTANTS
    Controllers,   \* controller processes
    Lease,         \* leaseDuration, in ticks
    MaxInFlight,   \* maxInFlightJobs
    MaxClaims,     \* bound on the claims of the job
    MaxFaults      \* bound on failed calls and crashes

ASSUME KubernetesAssumption ==
    /\ Lease \in Nat \ {0} /\ MaxInFlight \in Nat \ {0}
    /\ MaxClaims \in Nat /\ MaxFaults \in Nat

VARIABLES
    job,        \* build_jobs: status, claim_token (the n-th claim), ticks left
    claims,     \* claims handed out so far
    supported,  \* does ValidateKubernetesRunnableStep accept the step?
    revision,   \* workspace_revisions: status and the stored object it names
    objects,    \* objects in the revision store, named by claim digest
    kjob,       \* the Kubernetes Job of the deterministic name; uid 0 if none
    pods,       \* the Pods created so far; pods[u] belongs to the Job uid u
    pc,         \* the call each controller is about to make
    active,     \* Controller.active: the claim it reconciles, 0 if none
    step,       \* the claim reconcileClaimed or reconcileActive is working on
    seen,       \* the terminal result the controller read
    faults      \* failed calls and crashes so far

cluster == <<kjob, pods>>
durable == <<job, claims, revision, objects>>
memory == <<active, step, seen>>
vars == <<job, claims, supported, revision, objects, kjob, pods,
          pc, active, step, seen, faults>>

Claims == 1 .. MaxClaims
NoKJob == [uid |-> 0, condition |-> "none"]
JobRow(st, tok, left) == [status |-> st, tok |-> tok, left |-> left]

PCs == {"idle", "validate", "durable", "getJob", "create", "getExisting",
        "complete", "renew", "refresh", "delete", "sweep"}
PodPhases == {"prepare", "build", "publish", "succeeded", "failed", "gone"}
UploadPhases == {"none", "create", "store", "mark", "done", "refused"}
PodType ==
    [tok : Claims, phase : PodPhases, upload : UploadPhases, ran : BOOLEAN, passed : BOOLEAN]

TypeOK ==
    /\ job \in [status : JobStatuses, tok : 0 .. MaxClaims, left : 0 .. Lease]
    /\ claims \in 0 .. MaxClaims
    /\ supported \in BOOLEAN
    /\ revision \in [status : {"none", "publishing", "published"}, object : 0 .. MaxClaims]
    /\ objects \subseteq Claims
    /\ kjob \in [uid : 0 .. Len(pods), condition : {"none", "success", "failed"}]
    /\ pods \in Seq(PodType)
    /\ pc \in [Controllers -> PCs]
    /\ active \in [Controllers -> 0 .. MaxClaims]
    /\ step \in [Controllers -> 0 .. MaxClaims]
    /\ seen \in [Controllers -> {"none", "success", "failed"}]
    /\ faults \in 0 .. MaxFaults

Init ==
    /\ job = JobRow("queued", 0, 0)
    /\ claims = 0
    /\ supported \in BOOLEAN
    /\ revision = [status |-> "none", object |-> 0]
    /\ objects = {}
    /\ kjob = NoKJob
    /\ pods = <<>>
    /\ pc = [c \in Controllers |-> "idle"]
    /\ active = [c \in Controllers |-> 0]
    /\ step = [c \in Controllers |-> 0]
    /\ seen = [c \in Controllers |-> "none"]
    /\ faults = 0

Goto(c, next) == pc' = [pc EXCEPT ![c] = next]
Drop(c) == active' = [active EXCEPT ![c] = 0]

(* The claim a call carries is the one on the row. *)
Holds(tok) == job.status = "running" /\ job.tok = tok

(* ... and it has not expired. *)
HoldsUnexpired(tok) == Holds(tok) /\ job.left > 0

-----------------------------------------------------------------------------
(* Claiming *)

(* Mutant: an expired claim is not taken over. *)
QueuedOnly == job.status = "queued"

Claimable == job.status = "queued" \/ (job.status = "running" /\ job.left = 0)

(* ClaimRunnableStep: a queued job, or a running one whose claim expired.  *)
ClaimRunnableStep(c) ==
    /\ pc[c] = "idle"
    /\ active[c] = 0 \/ MaxInFlight > 1
    /\ Claimable
    /\ claims < MaxClaims
    /\ claims' = claims + 1
    /\ job' = JobRow("running", claims + 1, Lease)
    /\ step' = [step EXCEPT ![c] = claims + 1]
    /\ Goto(c, "validate")
    /\ UNCHANGED <<supported, revision, objects, cluster, active, seen, faults>>

(* The features the step asks for are enabled: the answer never changes.   *)
ValidateKubernetesRunnableStep == supported

(* reconcileClaimed: a step the backend cannot run is completed as failed; *)
(* any other goes to the active map and is reconciled at once.             *)
ReconcileClaimed(c) ==
    /\ pc[c] = "validate"
    /\ \/ /\ ValidateKubernetesRunnableStep
          /\ active' = [active EXCEPT ![c] = step[c]]
          /\ Goto(c, "durable")
          /\ UNCHANGED seen
       \/ /\ ~ValidateKubernetesRunnableStep
          /\ seen' = [seen EXCEPT ![c] = "failed"]
          /\ Goto(c, "complete")
          /\ UNCHANGED active
    /\ UNCHANGED <<durable, supported, cluster, step, faults>>

-----------------------------------------------------------------------------
(* reconcileActive *)

(* The durable job comes first: a canceled one is deleted, a terminal one  *)
(* is dropped.                                                             *)
GetExecutionJob(c) ==
    /\ pc[c] = "durable" \/ (pc[c] = "idle" /\ active[c] # 0)
    /\ step' = [step EXCEPT ![c] = IF pc[c] = "idle" THEN active[c] ELSE @]
    /\ \/ job.status = "canceled" /\ Drop(c) /\ Goto(c, "delete")
       \/ job.status \in {"success", "failed"} /\ Drop(c) /\ Goto(c, "idle")
       \/ job.status = "running" /\ Goto(c, "getJob") /\ UNCHANGED active
    /\ UNCHANGED <<durable, supported, cluster, seen, faults>>

(* The Complete or Failed condition of the Job, if it has one. *)
TerminalResult == kjob.condition

(* ensureJob: get it; if there is none create it; if the creation lost to  *)
(* another controller, get that one.                                       *)
GetJob(c) ==
    /\ pc[c] \in {"getJob", "getExisting"}
    /\ \/ /\ kjob.uid # 0
          /\ seen' = [seen EXCEPT ![c] = TerminalResult]
          /\ Goto(c, IF TerminalResult = "none" THEN "renew" ELSE "complete")
       \/ /\ kjob.uid = 0
          /\ Goto(c, IF pc[c] = "getJob" THEN "create" ELSE "idle")
          /\ UNCHANGED seen
    /\ UNCHANGED <<durable, supported, cluster, active, step, faults>>

(* The Job and, with its claim's digest as annotation, the Pod that the    *)
(* cluster starts for it (one: backoffLimit 0, restartPolicy Never).       *)
CreateKJob(c) ==
    /\ kjob' = [uid |-> Len(pods) + 1, condition |-> "none"]
    /\ pods' = Append(pods, [tok |-> step[c], phase |-> "prepare", upload |-> "none",
                             ran |-> FALSE, passed |-> FALSE])

CreateJob(c) ==
    /\ pc[c] = "create"
    /\ \/ kjob.uid = 0 /\ CreateKJob(c) /\ Goto(c, "renew")
       \/ kjob.uid # 0 /\ Goto(c, "getExisting") /\ UNCHANGED cluster
    /\ UNCHANGED <<durable, supported, memory, faults>>

(* Mutant: the completion is not guarded by the claim. *)
CompleteAnyStepAndJob(c) == job' = JobRow(seen[c], 0, 0)

(* CompleteSuccessfulStepAndJob / CompleteFailedStepAndJob, under the lock *)
(* of the job row; a terminal job or a stale claim is left alone.          *)
CompleteStepAndJob(c) ==
    \/ HoldsUnexpired(step[c]) /\ job' = JobRow(seen[c], 0, 0)
    \/ ~HoldsUnexpired(step[c]) /\ UNCHANGED job

(* complete: whatever the outcome, the claim leaves the active map. *)
Complete(c) ==
    /\ pc[c] = "complete"
    /\ CompleteStepAndJob(c)
    /\ Drop(c)
    /\ Goto(c, "idle")
    /\ UNCHANGED <<claims, supported, revision, objects, cluster, step, seen, faults>>

(* RenewJobLease: guarded by status and token, not by the expiry.  A       *)
(* refusal ends the reconciliation after one more look at the job.         *)
RenewRunnableStepLease(c) ==
    /\ pc[c] = "renew"
    /\ \/ Holds(step[c]) /\ job' = [job EXCEPT !.left = Lease] /\ Goto(c, "idle") /\ UNCHANGED active
       \/ ~Holds(step[c]) /\ Drop(c) /\ Goto(c, "refresh") /\ UNCHANGED job
    /\ UNCHANGED <<claims, supported, revision, objects, cluster, step, seen, faults>>

Refresh(c) ==
    /\ pc[c] = "refresh"
    /\ Goto(c, IF job.status = "canceled" THEN "delete" ELSE "idle")
    /\ UNCHANGED <<durable, supported, cluster, memory, faults>>

(* deleteJob: background propagation, so the Pod goes later.  No Job of    *)
(* this name is not an error.                                              *)
DeleteJob(c) ==
    /\ pc[c] = "delete"
    /\ kjob' = NoKJob
    /\ Goto(c, "idle")
    /\ UNCHANGED <<durable, supported, pods, memory, faults>>

-----------------------------------------------------------------------------
(* cleanupCanceledJobs: list the Jobs, skip those in the active map, look  *)
(* each one up, delete it when its execution is canceled.                  *)

(* Mutant: the sweep is never due. *)
NoSweep(c) == FALSE /\ UNCHANGED vars

ListJobs(c) ==
    /\ pc[c] = "idle" /\ active[c] = 0
    /\ kjob.uid # 0
    /\ Goto(c, "sweep")
    /\ UNCHANGED <<durable, supported, cluster, memory, faults>>

SweepJob(c) ==
    /\ pc[c] = "sweep"
    /\ Goto(c, IF job.status = "canceled" THEN "delete" ELSE "idle")
    /\ UNCHANGED <<durable, supported, cluster, memory, faults>>

-----------------------------------------------------------------------------
(* Failures of the controller's calls, and of the controller *)

(* The claim can be lost while the job runs only if another one can follow *)
(* (the bound MaxClaims).                                                  *)
MayLoseClaim == job.status # "running" \/ claims < MaxClaims

(* A call fails before it has an effect.  Reconcile reports the error and  *)
(* the loop comes back; what is in the active map stays there.             *)
CallFails(c) ==
    /\ pc[c] # "idle" /\ faults < MaxFaults
    /\ active[c] # step[c] => MayLoseClaim
    /\ faults' = faults + 1
    /\ Goto(c, "idle")
    /\ UNCHANGED <<durable, supported, cluster, memory>>

(* The call has its effect but answers with an error: a lost response, or  *)
(* the SideEffectErr of a completion whose log write failed.               *)
AnswerFails(c) ==
    /\ faults < MaxFaults
    /\ \/ pc[c] = "create" /\ kjob.uid = 0 /\ CreateKJob(c) /\ UNCHANGED job
       \/ pc[c] = "complete" /\ CompleteStepAndJob(c) /\ UNCHANGED cluster
    /\ faults' = faults + 1
    /\ Goto(c, "idle")
    /\ UNCHANGED <<claims, supported, revision, objects, memory>>

(* The controller restarts: both maps are in memory only. *)
Crash(c) ==
    /\ faults < MaxFaults /\ MayLoseClaim
    /\ pc[c] # "idle" \/ active[c] # 0
    /\ faults' = faults + 1
    /\ Goto(c, "idle")
    /\ Drop(c)
    /\ step' = [step EXCEPT ![c] = 0]
    /\ seen' = [seen EXCEPT ![c] = "none"]
    /\ UNCHANGED <<durable, supported, cluster>>

(* The claim's lease runs down. *)
Tick ==
    /\ job.status = "running" /\ job.left > 0
    /\ job.left > 1 \/ claims < MaxClaims
    /\ job' = [job EXCEPT !.left = @ - 1]
    /\ UNCHANGED <<claims, supported, revision, objects, cluster, pc, memory, faults>>

(* CancelBuild: the database only. *)
CancelBuild ==
    /\ job.status \in {"queued", "running"}
    /\ job' = JobRow("canceled", 0, 0)
    /\ UNCHANGED <<claims, supported, revision, objects, cluster, pc, memory, faults>>

-----------------------------------------------------------------------------
(* The Pod and its helpers *)

SetPhase(u, phase) == pods' = [pods EXCEPT ![u].phase = phase]
SetUpload(u, upload) == pods' = [pods EXCEPT ![u].upload = upload]

PodUnchanged == UNCHANGED <<claims, supported, kjob, pc, memory, faults>>

(* Mutant: a helper of an execution that is not active is let through. *)
AuthorizedAlways(u) == TRUE

(* Exchange and Authorize: the job is running, its claim has not expired,  *)
(* and the claim digest on the Pod is the digest of the claim on the row.  *)
Authorized(u) == HoldsUnexpired(pods[u].tok)

(* workspace-prepare, an init container: the build starts only after it.   *)
WorkspacePrepare(u) ==
    /\ pods[u].phase = "prepare"
    /\ \/ Authorized(u) /\ pods' = [pods EXCEPT ![u].phase = "build", ![u].ran = TRUE]
       \/ ~Authorized(u) /\ SetPhase(u, "failed")
    /\ UNCHANGED <<job, revision, objects>> /\ PodUnchanged

(* The build container exits; publish-after-build waits for exit code 0.   *)
BuildExits(u) ==
    /\ pods[u].phase = "build"
    /\ \/ pods' = [pods EXCEPT ![u].phase = "publish", ![u].passed = TRUE]
       \/ SetPhase(u, "failed")
    /\ UNCHANGED <<job, revision, objects>> /\ PodUnchanged

(* WorkspacePublishService.Publish, on the API server: authorize and read  *)
(* the claim token, ...                                                    *)
PublishAuthorize(u) ==
    /\ pods[u].phase = "publish" /\ pods[u].upload = "none"
    /\ SetUpload(u, IF Authorized(u) THEN "create" ELSE "refused")
    /\ UNCHANGED <<job, revision, objects>> /\ PodUnchanged

(* ... CreatePublishing (ON CONFLICT DO NOTHING; a row that is already     *)
(* published is a conflict), ...                                           *)
CreatePublishing(u) ==
    /\ pods[u].upload = "create"
    /\ \/ /\ revision.status = "none"
          /\ revision' = [revision EXCEPT !.status = "publishing"]
          /\ SetUpload(u, "store")
       \/ revision.status = "publishing" /\ SetUpload(u, "store") /\ UNCHANGED revision
       \/ revision.status = "published" /\ SetUpload(u, "refused") /\ UNCHANGED revision
    /\ UNCHANGED <<job, objects>> /\ PodUnchanged

(* ... store the archive under the claim's digest, ... *)
StorePublish(u) ==
    /\ pods[u].upload = "store"
    /\ objects' = objects \cup {pods[u].tok}
    /\ SetUpload(u, "mark")
    /\ UNCHANGED <<job, revision>> /\ PodUnchanged

(* ... and MarkPublishedIfClaimed, which locks the revision and the job.   *)
MarkPublishedIfClaimed(u) ==
    /\ pods[u].upload = "mark"
    /\ \/ /\ revision.status = "published"
          /\ SetUpload(u, IF revision.object = pods[u].tok THEN "done" ELSE "refused")
          /\ UNCHANGED revision
       \/ /\ revision.status = "publishing" /\ HoldsUnexpired(pods[u].tok)
          /\ revision' = [status |-> "published", object |-> pods[u].tok]
          /\ SetUpload(u, "done")
       \/ /\ revision.status = "publishing" /\ ~HoldsUnexpired(pods[u].tok)
          /\ SetUpload(u, "refused") /\ UNCHANGED revision
    /\ UNCHANGED <<job, objects>> /\ PodUnchanged

(* The upload ends early: a size limit, a store error, the request is cut. *)
PublishFails(u) ==
    /\ pods[u].upload \in {"create", "store", "mark"}
    /\ SetUpload(u, "refused")
    /\ UNCHANGED <<job, revision, objects>> /\ PodUnchanged

(* Mutant: the publish container's exit code is not that of the upload. *)
PublishExitsZero(u) ==
    /\ pods[u].phase = "publish"
    /\ SetPhase(u, "succeeded")
    /\ UNCHANGED <<job, revision, objects>> /\ PodUnchanged

(* workspace-publish exits with the answer of the API. *)
PublishExits(u) ==
    /\ pods[u].phase = "publish"
    /\ \/ pods[u].upload = "done" /\ SetPhase(u, "succeeded")
       \/ pods[u].upload = "refused" /\ SetPhase(u, "failed")
    /\ UNCHANGED <<job, revision, objects>> /\ PodUnchanged

(* Eviction, the active deadline, the command timeout, a helper that loses *)
(* its connection: the Pod fails, an upload in progress goes on.           *)
PodFails(u) ==
    /\ pods[u].phase \in {"prepare", "build", "publish"}
    /\ SetPhase(u, "failed")
    /\ UNCHANGED <<job, revision, objects>> /\ PodUnchanged

(* The cluster's Job controller reports the Pod's end on the Job ... *)
JobCondition(u) ==
    /\ kjob = [uid |-> u, condition |-> "none"]
    /\ \/ pods[u].phase = "succeeded" /\ kjob' = [kjob EXCEPT !.condition = "success"]
       \/ pods[u].phase = "failed" /\ kjob' = [kjob EXCEPT !.condition = "failed"]
    /\ UNCHANGED <<durable, supported, pods, pc, memory, faults>>

(* ... and the garbage collector removes the Pod of a deleted Job. *)
CollectPod(u) ==
    /\ kjob.uid # u /\ pods[u].phase # "gone"
    /\ SetPhase(u, "gone")
    /\ UNCHANGED <<job, revision, objects>> /\ PodUnchanged

-----------------------------------------------------------------------------
ControllerStep(c) ==
    \/ ClaimRunnableStep(c) \/ ReconcileClaimed(c) \/ GetExecutionJob(c)
    \/ GetJob(c) \/ CreateJob(c) \/ Complete(c) \/ RenewRunnableStepLease(c)
    \/ Refresh(c) \/ DeleteJob(c) \/ SweepJob(c)

HelperStep(u) ==
    \/ WorkspacePrepare(u) \/ BuildExits(u) \/ PublishAuthorize(u)
    \/ CreatePublishing(u) \/ StorePublish(u) \/ MarkPublishedIfClaimed(u)
    \/ PublishExits(u) \/ JobCondition(u) \/ CollectPod(u)

Next ==
    \/ \E c \in Controllers :
         \/ ControllerStep(c) \/ ListJobs(c)
         \/ CallFails(c) \/ AnswerFails(c) \/ Crash(c)
    \/ \E u \in 1 .. Len(pods) : HelperStep(u) \/ PublishFails(u) \/ PodFails(u)
    \/ Tick
    \/ CancelBuild

(* The reconcile loop runs on a ticker in every controller, tries a claim  *)
(* in every round before it sweeps, and sweeps again every                 *)
(* cancellationCleanupInterval; the cluster drives its Pods; time passes.  *)
Fairness ==
    /\ \A c \in Controllers :
         /\ WF_vars(ControllerStep(c))
         /\ SF_vars(ClaimRunnableStep(c))
         /\ WF_vars(ListJobs(c))
    /\ \A u \in 1 .. MaxClaims + 1 : WF_vars(u <= Len(pods) /\ HelperStep(u))
    /\ WF_vars(Tick)

Spec == Init /\ [][Next]_vars /\ Fairness

-----------------------------------------------------------------------------
(* Properties *)

(* "Job success means preparation, build, and trusted publication all      *)
(* succeeded": a job that reconcileActive completed as success has a       *)
(* published revision, whose object is in the store and comes from a Pod   *)
(* whose build exited with 0, however claims, restarts, uploads and        *)
(* cancellations interleave.                                               *)
SuccessMeansPublished ==
    job.status = "success" =>
        /\ revision.status = "published" /\ revision.object \in objects
        /\ \E u \in 1 .. Len(pods) : pods[u].tok = revision.object /\ pods[u].passed

(* A job fails only because its step is not supported or because its Pod   *)
(* failed: a reclaim or a restart never turns a Pod that succeeded into a  *)
(* failed job.                                                             *)
FailureMeansPodFailed ==
    job.status = "failed" /\ supported =>
        /\ \E u \in 1 .. Len(pods) : pods[u].phase = "failed"
        /\ \A u \in 1 .. Len(pods) : pods[u].phase # "succeeded"

(* The build container of an execution job runs at most once, although     *)
(* Kubernetes Jobs are created again by a controller that looked before    *)
(* another one deleted the Job of a canceled execution: the helpers of the *)
(* second Pod are refused before its build starts.                         *)
RunsOnce == Cardinality({u \in 1 .. Len(pods) : pods[u].ran}) <= 1

(* deleteJob and the sweep: in the end a canceled execution has no         *)
(* Kubernetes Job left, whatever was read before the cancellation, failed  *)
(* or crashed.                                                             *)
CanceledJobDeleted == <>[](job.status = "canceled" => kjob.uid = 0)

(* Every execution job ends. *)
ExecutionEnds == <>(job.status \in {"success", "failed", "canceled"})

-----------------------------------------------------------------------------
(* The inductive invariant *)

(* Only a canceled execution loses its Kubernetes Job, so that only it can *)
(* have a second Pod; the Job's condition is that of its Pod.              *)
PodsShape ==
    /\ kjob.uid \in {0, Len(pods)}
    /\ job.status # "canceled" => Len(pods) <= 1 /\ kjob.uid = Len(pods)
    /\ kjob.uid # 0 /\ kjob.condition = "success" => pods[kjob.uid].phase = "succeeded"
    /\ kjob.uid # 0 /\ kjob.condition = "failed" => pods[kjob.uid].phase = "failed"

(* What the execution's only Pod came to. *)
PodEnded(phase) == Len(pods) = 1 /\ pods[1].phase = phase

(* A result that somebody read is that of the Pod, until a cancellation.   *)
ResultShape(res) ==
    /\ res = "success" => PodEnded("succeeded")
    /\ res = "failed" /\ supported => PodEnded("failed")

(* A controller reconciles a claim of its own, knows the result it         *)
(* completes the job with, and deletes only what is canceled.              *)
ControllerShape ==
    \A c \in Controllers :
        /\ pc[c] \in {"validate", "durable", "getJob", "create", "getExisting", "complete", "renew"}
            => step[c] # 0
        /\ pc[c] = "complete" => seen[c] # "none"
        /\ pc[c] = "complete" /\ job.status # "canceled" => ResultShape(seen[c])
        /\ pc[c] = "delete" => job.status = "canceled"

(* Only the first Pod is let past workspace-prepare. *)
RunShape == \A u \in 1 .. Len(pods) : pods[u].ran => u = 1

(* How far the upload of a Pod is, the store and the revision agree. *)
UploadShape ==
    \A u \in 1 .. Len(pods) :
        /\ pods[u].phase = "publish" \/ pods[u].upload # "none" => pods[u].passed
        /\ pods[u].phase = "succeeded" => pods[u].upload = "done"
        /\ pods[u].upload \in {"mark", "done"} => pods[u].tok \in objects
        /\ pods[u].upload = "done" => revision = [status |-> "published", object |-> pods[u].tok]

IndInv ==
    /\ TypeOK
    /\ PodsShape
    /\ ControllerShape
    /\ ResultShape(job.status)
    /\ RunShape
    /\ UploadShape
=============================================================================
