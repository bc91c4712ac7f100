--------------------------- MODULE TriggerDelivery ---------------------------
(***************************************************************************)
(* Builds that external events start: a webhook delivery, sent again by    *)
(* its provider, builds the jobs that match it                             *)
(* (service/webhook/ingress.go, http/handler/event_handler.go,             *)
(* service/job_push.go), and the artifact of one of these builds triggers  *)
(* the jobs that consume it (service/job_service.go,                       *)
(* job_service_artifact_triggers.go, service/build/artifacts.go).          *)
(*                                                                         *)
(* Every read and every write of a row is a step.  The rows are written    *)
(* back whole, from the copy that the process read or made before.         *)
(***************************************************************************)
EXTENDS Processes, Sequences, Functions

CONSTANTS
    Jobs,       \* the repository's push-enabled jobs, in the order listed
    Consumers,  \* the jobs with a trigger on the artifact of Head(Jobs)
    Handlers,   \* requests that deliver the one webhook
    Collector,  \* the worker that collects the artifact
    Retriers    \* API requests that retry an artifact trigger delivery

Triggers == Retriers \cup {Collector}
TriggerProcs == Handlers \cup Triggers

VARIABLES
    hook,        \* the webhook_deliveries row, None before it is created
    copy,        \* the copy of it that each handler has
    hookBuilds,  \* how many builds the delivery has created for each job
    row,         \* the artifact_trigger_deliveries row of each consumer
    downstream,  \* how many builds the artifact has created for each consumer
    halfway,     \* how many of those were reported as failed
    todo         \* the jobs that each process has left

hookVars == <<hook, copy, hookBuilds>>
artifactVars == <<row, downstream, halfway>>
triggerVars == <<hookVars, artifactVars, pc, todo, faults>>

HookStatuses ==
    {"received", "verified", "unsupported", "ignored_no_match", "matched", "queued", "failed", "duplicate"}

(* meta: the columns of applyDeliveryTriggerMetadata; build: the job whose *)
(* build queued_build_id names.                                            *)
HookRow == [status : HookStatuses, meta : BOOLEAN, build : Range(Jobs) \cup {None}]
TriggerRow == [status : {"pending", "queued", "failed"}, build : BOOLEAN]

ASSUME TriggerAssumption ==
    /\ Jobs \in Seq(Range(Jobs)) /\ Jobs # <<>> /\ IsInjective(Jobs)
    /\ Consumers \in Seq(Range(Consumers)) /\ IsInjective(Consumers)
    /\ Handlers \cap Triggers = {} /\ Collector \notin Retriers
    /\ MaxFaults \in Nat
    /\ None \notin Range(Jobs) \cup Range(Consumers)
    /\ None \notin HookRow /\ None \notin TriggerRow

TriggerPCs ==
    {"idle", "get", "duplicate", "classify", "list", "build", "fail", "match", "ignore", "queue",
     "create", "load", "end"}

TriggerTypeOK ==
    /\ hook \in HookRow \cup {None}
    /\ copy \in [Handlers -> HookRow \cup {None}]
    /\ hookBuilds \in [Range(Jobs) -> Nat]
    /\ row \in [Range(Consumers) -> TriggerRow \cup {None}]
    /\ downstream \in [Range(Consumers) -> Nat]
    /\ halfway \in [Range(Consumers) -> Nat]
    /\ pc \in [TriggerProcs -> TriggerPCs]
    /\ todo \in [TriggerProcs -> SUBSET (Range(Jobs) \cup Range(Consumers))]
    /\ faults \in 0 .. MaxFaults

TriggerInit ==
    /\ hook = None
    /\ copy = [h \in Handlers |-> None]
    /\ hookBuilds = [j \in Range(Jobs) |-> 0]
    /\ row = [c \in Range(Consumers) |-> None]
    /\ downstream = [c \in Range(Consumers) |-> 0]
    /\ halfway = [c \in Range(Consumers) |-> 0]
    /\ pc = [p \in TriggerProcs |-> "idle"]
    /\ todo = [p \in TriggerProcs |-> {}]
    /\ faults = 0

Left(p, ids) == todo' = [todo EXCEPT ![p] = ids]

(* The jobs that are left are taken in the order in which they are listed. *)
Turn(list, left, j) ==
    j \in left /\ \E i \in DOMAIN list : list[i] = j /\ \A k \in 1 .. i - 1 : list[k] \notin left

-----------------------------------------------------------------------------
(* The webhook *)

(* Mutant: a failed delivery is processed again. *)
IsNewOrFailed == IF hook = None THEN TRUE ELSE hook.status = "failed"

(* INSERT, under the unique index on (provider, delivery_id). *)
IsNew == hook = None

(* updateDelivery: the handler's copy with its new status replaces the row.*)
Update(h, new) == hook' = new /\ copy' = [copy EXCEPT ![h] = new]

(* RegisterReceived *)
RegisterReceived(h) ==
    /\ At(h, "idle")
    /\ \/ /\ IsNew
          /\ Update(h, [status |-> "received", meta |-> FALSE, build |-> None])
          /\ Goto(h, "classify")
       \/ /\ ~IsNew
          /\ Goto(h, "get")
          /\ UNCHANGED <<hook, copy>>
    /\ UNCHANGED <<hookBuilds, artifactVars, todo, faults>>

(* GetByProviderDeliveryID *)
GetExisting(h) ==
    /\ At(h, "get")
    /\ copy' = [copy EXCEPT ![h] = hook]
    /\ Goto(h, "duplicate")
    /\ UNCHANGED <<hook, hookBuilds, artifactVars, todo, faults>>

(* The write of a step and where it leads.  isAllowedDeliveryTransition    *)
(* admits every one of them, as it looks at the status of the copy.        *)
Write(h, here, new, next) ==
    /\ At(h, here)
    /\ Update(h, new)
    /\ Goto(h, next)
    /\ UNCHANGED <<hookBuilds, artifactVars, todo, faults>>

(* From whatever status the copy has, with what else the copy has. *)
MarkDuplicate(h) == Write(h, "duplicate", [copy[h] EXCEPT !.status = "duplicate"], "end")

(* An event that is neither a push nor a pull request, a pull request      *)
(* action that is not supported, or a payload that cannot be parsed.       *)
MarkUnsupported(h) ==
    Write(h, "classify", [copy[h] EXCEPT !.status = "unsupported", !.meta = TRUE], "end")

MarkInvalid(h) == Write(h, "classify", [copy[h] EXCEPT !.status = "failed"], "end")

MarkVerified(h) ==
    Write(h, "classify", [copy[h] EXCEPT !.status = "verified", !.meta = TRUE], "list")

(* TriggerWebhookEvent: the jobs whose filters accept the event, or an     *)
(* event without a repository, a ref or a commit ...                       *)
ListJobs(h) ==
    /\ At(h, "list")
    /\ \/ \E accepted \in SUBSET Range(Jobs) :
            /\ Left(h, accepted)
            /\ Goto(h, IF accepted = {} THEN "ignore" ELSE "build")
       \/ Goto(h, "fail") /\ UNCHANGED todo
    /\ UNCHANGED <<hookVars, artifactVars, faults>>

(* ... and a build for each, until one is refused or fails, be it after    *)
(* the build was committed.  The first one is what the row will name.      *)
BuildJob(h) ==
    \E job \in Range(Jobs) :
        LET made == hookBuilds' = [hookBuilds EXCEPT ![job] = @ + 1] IN
        /\ At(h, "build") /\ Turn(Jobs, todo[h], job)
        /\ \/ /\ made
              /\ copy' = [copy EXCEPT ![h].build = IF @ = None THEN job ELSE @]
              /\ Left(h, todo[h] \ {job})
              /\ Goto(h, IF todo[h] = {job} THEN "match" ELSE "build")
           \/ /\ made \/ UNCHANGED hookBuilds
              /\ copy' = [copy EXCEPT ![h].build = None]
              /\ Goto(h, "fail")
              /\ UNCHANGED todo
        /\ UNCHANGED <<hook, artifactVars, faults>>

MarkIgnored(h) == Write(h, "ignore", [copy[h] EXCEPT !.status = "ignored_no_match"], "end")
MarkFailed(h) == Write(h, "fail", [copy[h] EXCEPT !.status = "failed"], "end")
MarkMatched(h) == Write(h, "match", [copy[h] EXCEPT !.status = "matched"], "queue")
MarkQueued(h) == Write(h, "queue", [copy[h] EXCEPT !.status = "queued"], "end")

-----------------------------------------------------------------------------
(* The artifact *)

(* DispatchArtifactTriggers, once the producer's build has stored its      *)
(* artifact: the consumers in order.                                       *)
Dispatch ==
    /\ At(Collector, "idle")
    /\ hookBuilds[Head(Jobs)] > 0
    /\ Left(Collector, Range(Consumers))
    /\ Goto(Collector, IF Range(Consumers) = {} THEN "end" ELSE "create")
    /\ UNCHANGED <<hookVars, artifactVars, faults>>

SetRow(c, status, build) == row' = [row EXCEPT ![c] = [status |-> status, build |-> build]]

(* dispatchArtifactTriggerToJob.  Artifact ids are generated when the file *)
(* is stored, so that its branch for a row that exists is never taken.     *)
CreateDelivery ==
    /\ At(Collector, "create")
    /\ \E c \in Range(Consumers) :
          Turn(Consumers, todo[Collector], c) /\ SetRow(c, "pending", FALSE)
    /\ Goto(Collector, "build")
    /\ UNCHANGED <<hookVars, downstream, halfway, todo, faults>>

(* Mutant: a delivery that is being processed can be claimed too. *)
UnsatisfiedDelivery(c) == row[c] # None /\ ~row[c].build

(* WHERE status = 'failed' AND queued_build_id IS NULL *)
FailedDelivery(c) == row[c] # None /\ row[c].status = "failed" /\ ~row[c].build

(* RetryArtifactTriggerDelivery: ClaimFailedForRetry ... *)
ClaimFailedForRetry(r, c) ==
    /\ At(r, "idle")
    /\ FailedDelivery(c)
    /\ SetRow(c, "pending", FALSE)
    /\ Left(r, {c})
    /\ Goto(r, "load")
    /\ UNCHANGED <<hookVars, downstream, halfway, faults>>

(* ... and the reads of the job and of the artifacts, which may fail.      *)
LoadForRetry(r) ==
    /\ At(r, "load")
    /\ Goto(r, "build") \/ Goto(r, "fail")
    /\ UNCHANGED <<hookVars, artifactVars, todo, faults>>

(* queueArtifactTriggerDelivery: createBuildForJobWithTrigger refuses the  *)
(* job, succeeds, or fails after the build was committed ...               *)
BuildConsumer(p, c) ==
    LET made == downstream' = [downstream EXCEPT ![c] = @ + 1] IN
    /\ At(p, "build") /\ Turn(Consumers, todo[p], c)
    /\ \/ made /\ Goto(p, "queue") /\ UNCHANGED <<halfway, faults>>
       \/ Goto(p, "fail") /\ UNCHANGED <<downstream, halfway, faults>>
       \/ /\ made /\ Goto(p, "fail") /\ Fault
          /\ halfway' = [halfway EXCEPT ![c] = @ + 1]
    /\ UNCHANGED <<hookVars, row, todo>>

(* ... and the row is written whole.  The first consumer whose build is    *)
(* not queued ends the dispatch.                                           *)
WriteQueued(p, c) ==
    /\ At(p, "queue") /\ Turn(Consumers, todo[p], c)
    /\ SetRow(c, "queued", TRUE)
    /\ Left(p, todo[p] \ {c})
    /\ Goto(p, IF p # Collector THEN "idle" ELSE IF todo[p] = {c} THEN "end" ELSE "create")
    /\ UNCHANGED <<hookVars, downstream, halfway, faults>>

(* Mutant: a retry whose reads fail leaves its claim as it is. *)
WriteFailedByDispatch(p, c) ==
    /\ At(p, "fail") /\ Turn(Consumers, todo[p], c)
    /\ p = Collector
    /\ SetRow(c, "failed", FALSE)
    /\ Left(p, {})
    /\ Goto(p, "end")
    /\ UNCHANGED <<hookVars, downstream, halfway, faults>>

WriteFailed(p, c) ==
    /\ At(p, "fail") /\ Turn(Consumers, todo[p], c)
    /\ SetRow(c, "failed", FALSE)
    /\ Left(p, {})
    /\ Goto(p, IF p = Collector THEN "end" ELSE "idle")
    /\ UNCHANGED <<hookVars, downstream, halfway, faults>>

-----------------------------------------------------------------------------

(* A process dies, or a query of it fails: nothing more is written. *)
TriggerDies(p) ==
    /\ pc[p] \notin {"idle", "end"}
    /\ Fault
    /\ Goto(p, "end") /\ Left(p, {})
    /\ UNCHANGED <<hookVars, artifactVars>>

Handle(h) ==
    \/ RegisterReceived(h) \/ GetExisting(h) \/ MarkDuplicate(h)
    \/ MarkUnsupported(h) \/ MarkInvalid(h) \/ MarkVerified(h)
    \/ ListJobs(h) \/ BuildJob(h)
    \/ MarkIgnored(h) \/ MarkFailed(h) \/ MarkMatched(h) \/ MarkQueued(h)

Process(p) ==
    \E c \in Range(Consumers) : BuildConsumer(p, c) \/ WriteQueued(p, c) \/ WriteFailed(p, c)

TriggerNext ==
    \/ \E h \in Handlers : Handle(h)
    \/ Dispatch \/ CreateDelivery
    \/ \E r \in Retriers : LoadForRetry(r) \/ \E c \in Range(Consumers) : ClaimFailedForRetry(r, c)
    \/ \E p \in Triggers : Process(p)
    \/ \E p \in TriggerProcs : TriggerDies(p)

(* What has begun goes on; nobody has to deliver, produce or retry. *)
TriggerFairness ==
    /\ \A h \in Handlers : WF_triggerVars(~At(h, "idle") /\ Handle(h))
    /\ WF_triggerVars(CreateDelivery)
    /\ \A r \in Retriers : WF_triggerVars(LoadForRetry(r))
    /\ \A p \in Triggers : WF_triggerVars(Process(p))

TriggerSpec == TriggerInit /\ [][TriggerNext]_triggerVars /\ TriggerFairness

-----------------------------------------------------------------------------
(* Properties *)

(* However often and however concurrently the provider sends a delivery,   *)
(* and wherever its processing fails, no job is built twice for it.        *)
DeliveryBuildsOnce == \A j \in Range(Jobs) : hookBuilds[j] <= 1

(* An artifact builds a consumer a second time only after a build that was *)
(* committed and reported as failed, whoever retries at the same time.     *)
DownstreamExplained == \A c \in Range(Consumers) : downstream[c] <= 1 + halfway[c]

(* A process died: the other faults are the builds reported as failed. *)
SomebodyDied == faults > SumFunction(halfway)

Settled(r, statuses) == SomebodyDied \/ (r # None /\ r.status \in statuses)

(* A webhook that is received ends in a final status, also when it is      *)
(* marked as a duplicate while it is processed, and a trigger delivery     *)
(* does not stay pending, unless a process died.  (Nothing takes such a    *)
(* row up: a redelivery is a duplicate, and only failed rows are retried.) *)
TriggersSettle ==
    /\ hook # None
         ~> Settled(hook, {"unsupported", "ignored_no_match", "queued", "failed", "duplicate"})
    /\ \A c \in Range(Consumers) : row[c] # None ~> Settled(row[c], {"queued", "failed"})

-----------------------------------------------------------------------------
(* The inductive invariant *)

(* The handler that created the row, as long as it may build. *)
MayBuild(h) == pc[h] \in {"classify", "list", "build"}

(* Before the row there is no handler beyond its insertion and no build,   *)
(* and afterwards a handler that writes has a copy of the row.             *)
RowFirst ==
    /\ hook = None => \A h \in Handlers : pc[h] = "idle"
    /\ \A h \in Handlers : pc[h] \notin {"idle", "get", "end"} => copy[h] # None

(* One handler builds, and what it has left has not been built. *)
OneBuilder ==
    /\ \A h, i \in Handlers : MayBuild(h) /\ MayBuild(i) => h = i
    /\ hook = None => \A j \in Range(Jobs) : hookBuilds[j] = 0
    /\ \A h \in Handlers :
          /\ pc[h] \in {"classify", "list"} => \A j \in Range(Jobs) : hookBuilds[j] = 0
          /\ pc[h] = "build" => \A j \in todo[h] \cap Range(Jobs) : hookBuilds[j] = 0

(* p works on the delivery to c. *)
WorksOn(p, c) == pc[p] \in {"load", "build", "fail", "queue"} /\ Turn(Consumers, todo[p], c)

(* A delivery that somebody works on is pending, and only one does. *)
OneWorker ==
    \A c \in Range(Consumers), p \in Triggers : WorksOn(p, c) =>
        /\ row[c] # None /\ row[c].status = "pending"
        /\ \A q \in Triggers : WorksOn(q, c) => p = q

(* The consumers that the collector has not reached have no delivery. *)
CollectorAhead ==
    \A c \in Range(Consumers) :
        \/ pc[Collector] = "idle"
        \/ c \in todo[Collector] /\ (pc[Collector] = "create" \/ ~Turn(Consumers, todo[Collector], c))
        => row[c] = None

(* Without a build that counts: before the delivery, after its failure,    *)
(* and until the one who works on it has built.                            *)
NotBuilt ==
    \A c \in Range(Consumers) :
        \/ row[c] = None
        \/ row[c] # None /\ row[c].status = "failed"
        \/ \E p \in Triggers : WorksOn(p, c) /\ pc[p] # "queue"
        => downstream[c] <= halfway[c]

TriggerIndInv ==
    /\ TriggerTypeOK
    /\ RowFirst
    /\ OneBuilder
    /\ OneWorker
    /\ CollectorAhead
    /\ NotBuilt
    /\ DeliveryBuildsOnce
    /\ DownstreamExplained
=============================================================================
