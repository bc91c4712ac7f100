----------------------------- MODULE ImageBuild -----------------------------
(***************************************************************************)
(* A step that builds a container image remotely: the execution job, its   *)
(* record in external_image_builds, the provider's builds, the tag in the  *)
(* registry, and the controllers that drive a claimed job from intent over *)
(* staged and submitted to a terminal record (imagebuild/controller.go,    *)
(* external_image_build_repository.go).  The provider and the registry     *)
(* (Cloud Build, Artifact Registry) are modelled from the client's calls.  *)
(*                                                                         *)
(* Every call is one action.  A controller works on its own copy of the    *)
(* record and Update overwrites the row: neither the state of the row nor  *)
(* the claim on the job guards it.                                         *)
(***************************************************************************)
EXTENDS Lifecycle, Integers, Sequences, FiniteSets

CONSTANTS
    Controllers,   \* controller processes
    Lease,         \* leaseDuration, in ticks
    MaxClaims,     \* bound on the claims of the job
    MaxFaults      \* bound on failed calls and crashes

ASSUME ImageBuildAssumption ==
    Lease \in Nat \ {0} /\ MaxClaims \in Nat /\ MaxFaults \in Nat

VARIABLES
    job,        \* build_jobs: status, claim_token (the n-th claim), ticks left
    claims,     \* claims handed out so far
    versioned,  \* does the build carry an application version?
    record,     \* external_image_builds: state, external_build_id, result
    builds,     \* the provider's builds for this execution job
    tag,        \* the build the published tag resolves to, 0 if none
    pc,         \* the call each controller is about to make
    active,     \* activeImageBuilds: the claim it reconciles, 0 if none
    mem,        \* the controller's copy of the record
    verdict,    \* the result it is about to complete the step with
    faults      \* failed calls and crashes so far

external == <<builds, tag>>
memory == <<active, mem, verdict>>
vars == <<job, claims, versioned, record, builds, tag, pc, active, mem, verdict, faults>>

Record(st, ext, res) == [state |-> st, ext |-> ext, result |-> res]
NoRecord == Record("none", 0, "none")
JobRow(st, tok, left) == [status |-> st, tok |-> tok, left |-> left]

PCs == {"idle", "durable", "loadRecord", "cancelExternal", "intent", "saveReference", "stage",
        "saveStaged", "find", "submit", "renewUnsubmitted", "saveSubmitted", "get", "saveProgress",
        "renew", "resolve", "saveTerminal", "complete"}

(* mapStatus, and whether a success proves the image it published. *)
ProviderStatuses == {"running", "success", "unproven", "failed", "canceled"}

RecordType ==
    [state : {"none", "intent", "staged", "submitted", "terminal"},
     ext : Nat, result : {"none", "success", "failed", "canceled"}]

BuildType == [status : ProviderStatuses, tok : 1 .. MaxClaims, stop : BOOLEAN]

TypeOK ==
    /\ job \in [status : JobStatuses, tok : 0 .. MaxClaims, left : 0 .. Lease]
    /\ claims \in 0 .. MaxClaims
    /\ versioned \in BOOLEAN
    /\ record \in RecordType /\ record.ext <= Len(builds)
    /\ builds \in Seq(BuildType)
    /\ tag \in 0 .. Len(builds)
    /\ pc \in [Controllers -> PCs]
    /\ active \in [Controllers -> 0 .. MaxClaims]
    /\ mem \in [Controllers -> RecordType]
    /\ verdict \in [Controllers -> {"none", "success", "failed"}]
    /\ faults \in 0 .. MaxFaults

Init ==
    /\ job = JobRow("queued", 0, 0)
    /\ claims = 0
    /\ versioned \in BOOLEAN
    /\ record = NoRecord
    /\ builds = <<>>
    /\ tag = 0
    /\ pc = [c \in Controllers |-> "idle"]
    /\ active = [c \in Controllers |-> 0]
    /\ mem = [c \in Controllers |-> NoRecord]
    /\ verdict = [c \in Controllers |-> "none"]
    /\ faults = 0

Goto(c, next) == pc' = [pc EXCEPT ![c] = next]

(* ReconcileClaimed returns stillActive = true: the next round starts over. *)
Again(c) ==
    /\ Goto(c, "idle")
    /\ mem' = [mem EXCEPT ![c] = NoRecord]
    /\ verdict' = [verdict EXCEPT ![c] = "none"]
    /\ UNCHANGED active

(* It returns stillActive = false: the claim leaves activeImageBuilds,     *)
(* whether or not the last call failed.                                    *)
Leave(c) ==
    /\ Goto(c, "idle")
    /\ active' = [active EXCEPT ![c] = 0]
    /\ mem' = [mem EXCEPT ![c] = NoRecord]
    /\ verdict' = [verdict EXCEPT ![c] = "none"]

Holds(c) == job.status = "running" /\ job.tok = active[c]

(* complete(ctx, step, false, ...): nothing is written to the record. *)
GiveUp(c) ==
    /\ Goto(c, "complete")
    /\ verdict' = [verdict EXCEPT ![c] = "failed"]

(* completePublicationFailure: a terminal record first. *)
FailPublication(c) ==
    /\ Goto(c, "saveTerminal")
    /\ mem' = [mem EXCEPT ![c].state = "terminal", ![c].result = "failed"]
    /\ verdict' = [verdict EXCEPT ![c] = "failed"]

-----------------------------------------------------------------------------
(* Claim, and the durable state first *)

(* Mutant: an expired claim is not taken over. *)
QueuedOnly == job.status = "queued"

Claimable == job.status = "queued" \/ (job.status = "running" /\ job.left = 0)

(* ClaimRunnableStep, and the entry in activeImageBuilds. *)
Claim(c) ==
    /\ pc[c] = "idle" /\ active[c] = 0
    /\ Claimable
    /\ claims < MaxClaims
    /\ claims' = claims + 1
    /\ job' = JobRow("running", claims + 1, Lease)
    /\ active' = [active EXCEPT ![c] = claims + 1]
    /\ Goto(c, "durable")
    /\ UNCHANGED <<versioned, record, external, mem, verdict, faults>>

(* GetExecutionJob.  A step whose specification, target image or version   *)
(* cannot be published is completed as failed.                             *)
GetExecutionJob(c) ==
    /\ pc[c] = "durable" \/ (pc[c] = "idle" /\ active[c] # 0)
    /\ \/ job.status \in TerminalStatuses /\ Goto(c, "loadRecord") /\ UNCHANGED verdict
       \/ job.status = "running" /\ Goto(c, "intent") /\ UNCHANGED verdict
       \/ job.status = "running" /\ record = NoRecord /\ GiveUp(c)
    /\ UNCHANGED <<job, claims, versioned, record, external, active, mem, faults>>

(* Mutant: cancel forgets the provider. *)
CancelNothing(c) ==
    /\ pc[c] = "loadRecord"
    /\ Leave(c)
    /\ UNCHANGED <<job, claims, versioned, record, external, faults>>

(* cancel: only a build whose id was recorded can be canceled ... *)
LoadRecordToCancel(c) ==
    /\ pc[c] = "loadRecord"
    /\ \/ /\ record.ext # 0
          /\ Goto(c, "cancelExternal")
          /\ mem' = [mem EXCEPT ![c] = record]
          /\ UNCHANGED <<active, verdict>>
       \/ record.ext = 0 /\ Leave(c)
    /\ UNCHANGED <<job, claims, versioned, record, external, faults>>

(* ... by asking the provider once. *)
CancelExternal(c) ==
    /\ pc[c] = "cancelExternal"
    /\ builds' = [builds EXCEPT ![mem[c].ext].stop = TRUE]
    /\ Leave(c)
    /\ UNCHANGED <<job, claims, versioned, record, tag, faults>>

-----------------------------------------------------------------------------
(* intent, staged, submitted *)

(* CreateIntent (ON CONFLICT DO NOTHING), then the branch on the state.    *)
(* A row whose build ended without an image may lack the reference it was  *)
(* to publish, which is written first.                                     *)
CreateIntent(c) ==
    LET row == IF record = NoRecord THEN Record("intent", 0, "none") ELSE record
    IN  /\ pc[c] = "intent"
        /\ record' = row
        /\ mem' = [mem EXCEPT ![c] = row]
        /\ \/ row.state = "terminal" /\ row.ext = 0 /\ GiveUp(c)
           \/ row.state = "intent" /\ Goto(c, "stage") /\ UNCHANGED verdict
           \/ row.state = "staged" /\ Goto(c, "find") /\ UNCHANGED verdict
           \/ row.ext # 0 /\ Goto(c, "get") /\ UNCHANGED verdict
           \/ /\ row.ext # 0 /\ row.result \in {"failed", "canceled"}
              /\ Goto(c, "saveReference") /\ UNCHANGED verdict
        /\ UNCHANGED <<job, claims, versioned, external, active, faults>>

(* EnsureImmutableTags for a versioned build, resolveArtifactInputs, Stage. *)
Stage(c) ==
    /\ pc[c] = "stage"
    /\ \/ versioned /\ FailPublication(c)
       \/ GiveUp(c) /\ UNCHANGED mem
       \/ Goto(c, "saveStaged") /\ mem' = [mem EXCEPT ![c].state = "staged"] /\ UNCHANGED verdict
    /\ UNCHANGED <<job, claims, versioned, record, external, active, faults>>

(* The Updates on the way: each writes the whole copy. *)
Save(c) ==
    /\ pc[c] \in {"saveReference", "saveStaged", "saveSubmitted", "saveProgress"}
    /\ record' = mem[c]
    /\ Goto(c, CASE pc[c] = "saveStaged" -> "find"
                 [] pc[c] \in {"saveReference", "saveSubmitted"} -> "get"
                 [] pc[c] = "saveProgress" -> "renew")
    /\ UNCHANGED <<job, claims, versioned, external, memory, faults>>

(* The handle goes into the copy of the record. *)
Submitted(c, b) ==
    /\ mem' = [mem EXCEPT ![c].state = "submitted", ![c].ext = b]
    /\ Goto(c, "saveSubmitted")

(* Mutant: a staged record is always submitted. *)
NeverFind(c) ==
    /\ pc[c] = "find"
    /\ Goto(c, "submit")
    /\ UNCHANGED <<job, claims, versioned, record, external, memory, faults>>

(* FindByExecutionJobID: the provider's builds carry the job id as a tag.  *)
(* Its list is taken to show every build that has been created, also the   *)
(* one of a submission whose answer was lost.                              *)
Find(c) ==
    /\ pc[c] = "find"
    /\ \/ builds = <<>> /\ Goto(c, "submit") /\ UNCHANGED mem
       \/ \E b \in 1 .. Len(builds) : Submitted(c, b)
    /\ UNCHANGED <<job, claims, versioned, record, external, active, verdict, faults>>

ProviderCreates(c) ==
    builds' = Append(builds, [status |-> "running", tok |-> active[c], stop |-> FALSE])

Submit(c) ==
    /\ pc[c] = "submit"
    /\ ProviderCreates(c)
    /\ Submitted(c, Len(builds) + 1)
    /\ UNCHANGED <<job, claims, versioned, record, tag, active, verdict, faults>>

(* Submit answers with an error: the provider may have created the build   *)
(* or not, and the error may be retryable (a timeout) or not (a rejection, *)
(* an answer without a build identity).                                    *)
SubmitFails(c) ==
    /\ pc[c] = "submit" /\ faults < MaxFaults
    /\ faults' = faults + 1
    /\ ProviderCreates(c) \/ UNCHANGED builds
    /\ \/ Goto(c, "renewUnsubmitted") /\ UNCHANGED verdict
       \/ GiveUp(c)
    /\ UNCHANGED <<job, claims, versioned, record, tag, active, mem>>

(* RenewRunnableStepLease.  After a failed submission a refusal ends the   *)
(* reconciliation; while the provider runs it is ignored.                  *)
Renew(c) ==
    /\ pc[c] \in {"renew", "renewUnsubmitted"}
    /\ job' = IF Holds(c) THEN [job EXCEPT !.left = Lease] ELSE job
    /\ IF pc[c] = "renewUnsubmitted" /\ ~Holds(c) THEN Leave(c) ELSE Again(c)
    /\ UNCHANGED <<claims, versioned, record, external, faults>>

-----------------------------------------------------------------------------
(* The provider's result *)

(* Mutant: every terminal status of the provider is taken for a success. *)
GetEnded(c) ==
    /\ pc[c] = "get"
    /\ \/ /\ builds[mem[c].ext].status = "running"
          /\ Goto(c, "saveProgress") /\ UNCHANGED <<mem, verdict>>
       \/ /\ builds[mem[c].ext].status # "running"
          /\ mem' = [mem EXCEPT ![c].state = "terminal", ![c].result = "success"]
          /\ verdict' = [verdict EXCEPT ![c] = "success"]
          /\ Goto(c, "saveTerminal")
    /\ UNCHANGED <<job, claims, versioned, record, external, active, faults>>

(* Get: a result that is not terminal is recorded; a success without an    *)
(* immutable digest, or under another reference, fails; a versioned        *)
(* success is compared with the tag; anything else is the outcome.         *)
Get(c) ==
    LET st == builds[mem[c].ext].status
    IN  /\ pc[c] = "get"
        /\ \/ st = "running" /\ Goto(c, "saveProgress") /\ UNCHANGED <<mem, verdict>>
           \/ st = "unproven" /\ FailPublication(c)
           \/ st = "success" /\ versioned /\ Goto(c, "resolve") /\ UNCHANGED <<mem, verdict>>
           \/ /\ st \in {"failed", "canceled"} \/ (st = "success" /\ ~versioned)
              /\ mem' = [mem EXCEPT ![c].state = "terminal", ![c].result = st]
              /\ verdict' = [verdict EXCEPT ![c] = IF st = "success" THEN st ELSE "failed"]
              /\ Goto(c, "saveTerminal")
        /\ UNCHANGED <<job, claims, versioned, record, external, active, faults>>

(* ResolvePublishedDigest: a tag that names another image is a conflict.   *)
ResolvePublishedDigest(c) ==
    /\ pc[c] = "resolve"
    /\ \/ tag \notin {0, mem[c].ext} /\ FailPublication(c)
       \/ /\ tag \in {0, mem[c].ext}
          /\ mem' = [mem EXCEPT ![c].state = "terminal", ![c].result = "success"]
          /\ verdict' = [verdict EXCEPT ![c] = "success"]
          /\ Goto(c, "saveTerminal")
    /\ UNCHANGED <<job, claims, versioned, record, external, active, faults>>

SaveTerminal(c) ==
    /\ pc[c] = "saveTerminal"
    /\ record' = mem[c]
    /\ Goto(c, "complete")
    /\ UNCHANGED <<job, claims, versioned, external, memory, faults>>

(* CompleteKubernetesRunnableStep: refused unless the claim is current.    *)
CompleteStepAndJob(c) ==
    job' = IF Holds(c) /\ job.left > 0 THEN JobRow(verdict[c], 0, 0) ELSE job

Complete(c) ==
    /\ pc[c] = "complete"
    /\ CompleteStepAndJob(c)
    /\ Leave(c)
    /\ UNCHANGED <<claims, versioned, record, external, faults>>

-----------------------------------------------------------------------------
(* Failures, time, cancellation *)

(* The claim can be lost while the job runs only if another one can follow *)
(* (the bound MaxClaims).                                                  *)
MayLoseClaim == job.status # "running" \/ claims < MaxClaims

(* A call fails before it has an effect.  The calls that end a             *)
(* reconciliation leave the map all the same; after the others the next    *)
(* round starts over.                                                      *)
CallFails(c) ==
    /\ pc[c] \notin {"idle", "submit"} /\ faults < MaxFaults
    /\ faults' = faults + 1
    /\ IF pc[c] \in {"loadRecord", "cancelExternal", "complete"}
       THEN MayLoseClaim /\ Leave(c)
       ELSE Again(c)
    /\ UNCHANGED <<job, claims, versioned, record, external>>

Crash(c) ==
    /\ active[c] # 0
    /\ faults < MaxFaults /\ MayLoseClaim
    /\ faults' = faults + 1
    /\ Leave(c)
    /\ UNCHANGED <<job, claims, versioned, record, external>>

Tick ==
    /\ job.status = "running" /\ job.left > 0
    /\ job.left > 1 \/ claims < MaxClaims
    /\ job' = [job EXCEPT !.left = @ - 1]
    /\ UNCHANGED <<claims, versioned, record, external, pc, memory, faults>>

(* CancelBuild: the database only. *)
CancelBuild ==
    /\ job.status \in {"queued", "running"}
    /\ job' = JobRow("canceled", 0, 0)
    /\ UNCHANGED <<claims, versioned, record, external, pc, memory, faults>>

-----------------------------------------------------------------------------
(* The provider and the registry *)

(* A build ends.  A success pushes its image; with immutable tags a        *)
(* version's tag is pushed once and the second build fails.                *)
BuildEnds(b) ==
    /\ builds[b].status = "running"
    /\ \/ /\ versioned => tag = 0
          /\ builds' = [builds EXCEPT ![b].status = "success"]
          /\ tag' = b
       \/ /\ \E st \in {"unproven", "failed"} : builds' = [builds EXCEPT ![b].status = st]
          /\ UNCHANGED tag
       \/ /\ builds[b].stop
          /\ builds' = [builds EXCEPT ![b].status = "canceled"]
          /\ UNCHANGED tag
    /\ UNCHANGED <<job, claims, versioned, record, pc, memory, faults>>

-----------------------------------------------------------------------------
ControllerStep(c) ==
    \/ Claim(c) \/ GetExecutionJob(c) \/ LoadRecordToCancel(c) \/ CancelExternal(c)
    \/ CreateIntent(c) \/ Stage(c) \/ Save(c) \/ Find(c) \/ Submit(c)
    \/ Renew(c) \/ Get(c) \/ ResolvePublishedDigest(c) \/ SaveTerminal(c) \/ Complete(c)

Next ==
    \/ \E c \in Controllers : ControllerStep(c) \/ SubmitFails(c) \/ CallFails(c) \/ Crash(c)
    \/ \E b \in 1 .. Len(builds) : BuildEnds(b)
    \/ Tick
    \/ CancelBuild

(* Every controller reconciles on a ticker, the provider's builds end      *)
(* (they have a timeout), and time passes.                                 *)
Fairness ==
    /\ \A c \in Controllers : WF_vars(ControllerStep(c))
    /\ \A b \in 1 .. MaxClaims + MaxFaults : WF_vars(b <= Len(builds) /\ BuildEnds(b))
    /\ WF_vars(Tick)

Spec == Init /\ [][Next]_vars /\ Fairness

-----------------------------------------------------------------------------
(* Properties *)

(* A step reported as success stands for an image that one provider build  *)
(* really published: complete(success) after Get and, for a versioned      *)
(* build, with the tag resolving to that build, whatever other controllers *)
(* submitted or recorded meanwhile.                                        *)
SuccessHasImage ==
    job.status = "success" =>
        \E b \in 1 .. Len(builds) :
            builds[b].status = "success" /\ (versioned => tag = b)

(* One claim submits at most one provider build: after a lost answer, a    *)
(* failed Update or a restart FindByExecutionJobID finds the first one,    *)
(* provided that the provider lists a build as soon as it exists.          *)
OneBuildPerClaim ==
    \A a, b \in 1 .. Len(builds) : builds[a].tok = builds[b].tok => a = b

(* The end of ReconcileClaimed for a canceled job: unless a call failed, a *)
(* controller crashed or the claim was taken over (whose stale Updates may *)
(* erase the id), the recorded provider build of a canceled execution is   *)
(* asked to stop, or was seen to have ended.                               *)
CanceledBuildStops ==
    (job.status = "canceled" /\ record.ext # 0) ~>
        (\/ faults > 0 \/ claims > 1
         \/ /\ record.ext # 0
            /\ builds[record.ext].stop \/ record.state = "terminal")

(* Every image build step ends. *)
ExecutionEnds == <>(job.status \in TerminalStatuses)

-----------------------------------------------------------------------------
(* The inductive invariant *)

(* A controller's copy names a build of the provider, once it has one. *)
CopyShape ==
    \A c \in Controllers :
        /\ mem[c].ext <= Len(builds)
        /\ pc[c] \in {"cancelExternal", "saveReference", "saveSubmitted", "get", "resolve"} => mem[c].ext # 0

(* No two controllers reconcile one claim. *)
ClaimShape ==
    /\ \A c \in Controllers : active[c] <= claims /\ (pc[c] # "idle" => active[c] # 0)
    /\ \A c, d \in Controllers : active[c] = active[d] /\ active[c] # 0 => c = d

(* A claim that is about to submit has no build yet: Find saw that the     *)
(* provider had none at all, and since then only other claims submitted.   *)
SubmitShape ==
    \A c \in Controllers : pc[c] = "submit" =>
        \A b \in 1 .. Len(builds) : builds[b].tok # active[c]

(* The tag of a versioned build is pushed once, by the build that succeeds. *)
TagShape == versioned => \A b \in 1 .. Len(builds) : builds[b].status = "success" => tag = b

(* A controller that reports success has seen the build succeed. *)
VerdictShape ==
    \A c \in Controllers :
        /\ pc[c] \in {"saveTerminal", "complete"} => verdict[c] # "none"
        /\ verdict[c] = "success" =>
            pc[c] \in {"saveTerminal", "complete"} /\ mem[c].ext # 0
        /\ pc[c] = "resolve" \/ verdict[c] = "success" => builds[mem[c].ext].status = "success"

IndInv ==
    /\ TypeOK
    /\ CopyShape
    /\ ClaimShape
    /\ SubmitShape
    /\ OneBuildPerClaim
    /\ TagShape
    /\ VerdictShape
    /\ SuccessHasImage
=============================================================================
