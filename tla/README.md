# A TLA+ model of Coyote CI

Coyote CI is a CI system whose control plane (`src/backend`) is a set of
stateless processes around one PostgreSQL database: servers that take requests,
workers (or a Kubernetes controller) that execute steps, and drains that retry
what did not get through. Nothing but rows coordinates them: a process reads,
decides in memory, and writes a guarded statement, and any other process may do
anything in between. That is what these modules model, what TLC explores on small
instances, and what the theorems prove for all of them.

`PROJECT.json` is the machine-readable companion: the definitions and the source
lines they stand for, the runs, the mutants that show that each property can
fail, the hazards, the findings, and the theorems.

- [The system](#the-system): the parts, their state, what is hard about them
- [The modules](#the-modules): how state and actions correspond to the code
- [The runs](#the-runs): what each one checks, its bounds, its fairness
- [Findings](#findings): where the code and its own documents disagree
- [The proofs](#the-proofs): what is proved, from what, along which argument
- [Abstractions](#abstractions), [what is not modelled](#what-is-not-modelled),
  [the plan](#the-plan)

## The system

Paths are under `src/backend/internal`.

### Lifecycle vocabulary (`domain/lifecycle.go`, `domain/build*.go`)

Builds are pending, queued, preparing, running, success, failed or canceled;
steps pending, running, success, failed or canceled; durable jobs queued, running,
success, failed or canceled. Tables say which transitions are legal. Everyone uses
them, but they are checked in memory: whether they hold of the rows depends on the
statement that writes.

### Workers: claim, lease, execution (`service/worker`, `repository/postgres/build_step_repository.go`, `execution_job_repository.go`)

*State*: `build_steps` (status, claim token, lease expiry), `build_jobs` (the same,
one durable job per step), and in each worker the claim it drew.
*Operations*: poll; claim a job and mirror the claim on its step, or find a step
row and bind its job; reclaim what expired; heartbeat; execute; report.
*Interaction*: workers meet only in the rows; a completion also advances the build.
*Hard*: a claim is two statements on two tables, with two paths that start from
either end; a worker that is slow, or dead, or was replaced still reports.
*Correct when*: a step runs only after its dependencies, changes hands only when
its lease ran out, gets one outcome, and its job never claims another one.

### Step completion and build advancement (`repository/postgres/build_step_completion_repository.go`, `service/build/completion.go`)

*State*: the step's row, the cursor and status of its build.
*Operations*: complete a step (alone, or with its job in one transaction), move the
cursor, count the steps, decide the fate of the build.
*Hard*: nothing else ever terminates a build, so the transaction of the last step
must notice that it is the last, under READ COMMITTED, beside its siblings.
*Correct when*: a success has only successful steps, a failure a failed one, and no
build stays running with nobody left to finish it. The code gives the first; it falls short of
the others when a step fails beside a sibling (disagreements 1 and 2).

### Cancellation (`repository/postgres/build_cancel_repository.go`)

Locks the build, cancels its open steps and jobs, and its row, in one transaction.
*Hard*: it takes its locks in the opposite order from a completion.
*Correct when*: what it commits has reached every step and overwrites no outcome.

### Build status control (`service/build/source.go`, `lifecycle.go`, `read_queue.go`)

`PrepareBuildExecution` (every worker that sees a queued build) and the endpoints
`QueueBuild`, `StartBuild` (which is a preparation), `CompleteBuild` and `FailBuild` read the status, look at
the table, and write with an update that has no condition on the status.
*Hard*: the status that was checked is stale when it is written.
*Correct when*: preparation happens once and before any step, and a terminal build
stays what it is. The code gives "before any step" (disagreements 3 and 4).

### SCM commit statuses (`service/build/scm_status_*.go`, `repository/**/scm_status_delivery_*.go`)

*State*: a row per commit and context (desired state, attempts, claim, due time),
the delivery a reporter has in memory, and what the provider has accepted.
*Operations*: report a build's status, acquire the row (insert, replace, reclaim),
check that no newer build exists, publish, record the result, reassert the row's
state after a lost claim, recover by the drain.
*Hard*: the call to the provider happens between two statements; it may be served
and answered late, served and not answered, or answered under a claim that someone
else has replaced meanwhile. Statuses of a build are written without a guard and reported
after that, so they arrive in any order, and more than one outcome may be among them. The
drain lists a batch of 25 and works from the list.
*Correct when*: the row never goes back to an older build or from an outcome to pending,
keeps to its constraint, says sent only of what was accepted, every delivery is settled, and
the row's state is what the provider ends up showing.

### Builds and attempts (`service/build/build_create.go`, `creation.go`, `read_queue.go`, `retry_rerun.go`, `pipeline/loader.go`)

*State*: builds, the steps written with them, the durable jobs written after them.
*Operations*: create from a pipeline or without steps, queue, retry a failed job,
rerun from a step or as a whole; each plans or clones steps and jobs with their
dependencies.
*Hard*: rows of one build are written in two transactions; `QueueBuild` replaces steps
after a check outside its own; clones keep dependencies in one table and lose them in
the other.
*Correct when*: every attempt keeps the order of its steps, and ends.

### Kubernetes execution (`kubernetes/controller.go`, `service/worker/kubernetes.go`, `service/workspace_*.go`, `cmd/worker`)

*State*: the job row, a Kubernetes Job of a deterministic name, its Pod with the
helpers, the workspace revision and its object, the controller's active map.
*Operations*: claim, ensure the Job, observe it, complete, renew, delete, sweep;
authorize a helper, publish a workspace.
*Hard*: four systems without a common transaction; maps that a restart forgets; a
reclaim that makes the digest on a running Pod stale.
*Correct when*: success means a published workspace, failure a failed Pod, the build
container runs once, and a canceled execution leaves no Job.

### Remote image builds (`imagebuild/controller.go`, `platform/cloudbuild`)

*State*: the job row, the record of the submission, the provider's builds, the tag.
*Operations*: record the intent, stage, find or submit, poll, resolve the tag, complete,
cancel.
*Hard*: the record is overwritten whole and unguarded, and a lost answer hides a build.
*Correct when*: a success has a published image, one claim submits once, and a canceled
build is told to stop.

### Cache publication (`service/workspace_helper_cache_service.go`, `repository/postgres/cache_entry_repository.go`)

*State*: the ready entry of a key, its publish claim, the archives in the store.
*Operations*: claim, upload, promote, publish the row, delete the replaced archive,
release. *Hard*: rows and objects change one after the other, and savers outlive claims.
*Correct when*: the entry has its archive, the newest claim decides, no claim lasts.

### Notification delivery (`service/build/notification*.go`, `repository/**/notification_delivery_repository.go`)

*State*: one row per destination of a terminal event. *Operations*: claim, send, record,
recover. *Hard*: the message is out before the row says so; several servers drain one
ledger. *Correct when*: duplicates have a reason, outcomes are final, rows settle.

### Webhooks and artifact triggers (`service/webhook/ingress.go`, `service/job_push.go`, `service/job_service*.go`)

*State*: the row of a webhook delivery, the rows of trigger deliveries, builds.
*Operations*: register, classify, build the matching jobs, record; dispatch an artifact to
its consumers, retry one. *Hard*: redelivery during processing, rows written whole from
copies, a build that is committed and reported as failed.
*Correct when*: a delivery builds a job once, and every row gets a final status.

### Application releases (`service/release`, `repository/postgres/application_release_repository.go`)

*State*: the release of a build with its outputs, the channels and their history.
*Operations*: snapshot, tag, reconcile, fail, promote. *Hard*: tagging happens after the
build's success by a worker that may die; two servers meet at a channel row that may
not exist. *Correct when*: complete releases are durable, latest is the newest of those whose
pipeline asks for it (`auto_channel`), releases settle.

### The rest

Managed images are a catalogue that a refresh after the creation of a build adds to, with a
branch and a pull request; they are in the plan. Administration, credentials, tokens and
artifact browsing are tables with single-row requests; runners, logs, HTTP, CLI, MCP and the frontend are processes
and I/O. These have no state that several actors change, and are not modelled.

## The modules

| module | models | extends |
| --- | --- | --- |
| `Lifecycle` | the status sets and transition tables | |
| `Processes` | places in the code and counted faults, for `BuildAttempts` and `TriggerDelivery` | |
| `BuildOutcome` | what a build promises: the abstract specification | |
| `BuildRun` | a running build, its step and job rows, and the workers | `Lifecycle`; implements `BuildOutcome` |
| `StepCompletionTx` | the statements inside a completion and a cancellation | `Lifecycle` |
| `BuildControl` | `BuildRun` from the queue on, with the other writers of the status | `BuildRun` |
| `BuildAttempts` | creation, queueing, retry and rerun, down to the workers | `Lifecycle`, `Processes` |
| `StatusDelivery` | the row of a commit status, its reporters, the drain, the provider | |
| `NotificationDelivery` | the ledger of a terminal event, notifiers and drains | |
| `KubernetesExecution` | one execution job on Kubernetes | `Lifecycle` |
| `ImageBuild` | one execution job on the remote image builder | `Lifecycle` |
| `CachePublication` | the savers of one cache key | |
| `TriggerDelivery` | a webhook, and the artifact triggers behind it | `Processes` |
| `ApplicationReleases` | the releases and channels of one job | `Lifecycle` |
| `MC*` | a small instance of each, with its `.cfg` | |
| `BuildRunProofs` | theorems about `BuildRun` and `BuildControl` | `BuildControl` |
| `BuildOriginsProofs` | theorems about `BuildAttempts` and `TriggerDelivery`, two separate specifications | both |
| `StepCompletionTxProofs` | theorems about `StepCompletionTx` and `CachePublication`, two separate specifications | both |
| the other `*Proofs` | theorems about `StatusDelivery`, `NotificationDelivery`, `KubernetesExecution`, `ImageBuild`, `ApplicationReleases` | its component |

The modules overlap on purpose. `BuildRun` has every statement of a worker, those inside a
completion too, but takes a cancellation as one action; `StepCompletionTx` opens that up, and
has deadlocks and liveness; `BuildControl` adds the preparation and the API to `BuildRun`;
`BuildAttempts` has less of the claims (a lease is alive or not) and more builds. `KubernetesExecution` and `ImageBuild` start where
`BuildRun` has its worker, with the claim on the durable job, and have the step follow
its job, as the one transaction that completes both makes it do.

**`BuildOutcome`** knows of a build only its status and the outcome of each step: `Finish`
gives a step that waits for nothing its one outcome, and makes the build a success in the
instant in which all its steps are; short of that the build may go on or fail, since the code
fails it too early or not at all when completions overlap. `FinishLate` is a step that was in
flight when the build failed; `Cancel` closes the open steps. **`BuildRun`** implements it under
the mapping `Outcomes`, which shows an unfinished step as open and drops claims, leases,
jobs, transactions and workers (`ImplementsBuildOutcome`).

**`BuildRun`.** `status` and `cursor` are the row of `builds`, `steps` and `jobs` the
rows of `build_steps` and `build_jobs` (status, token, expiry), `pc` and `claim` what
a worker is about to do and has in memory, `renewal` the heartbeat between its two
updates, `result` and `holders` what an open completion has written and who has locked the
builds row. *Every statement that a worker issues is one action*; anything
may happen between two actions of a worker, including its death (`Abandon`). A poll
is `Poll`, then `ClaimNextRunnableJob`, `ClaimPendingStep` or `ReclaimExpiredStep`
as its mirror; when no job is claimed, `ScanPending` and `ScanExpired`, the claim of
the step, and `ClaimJobByStepID`, which takes a job over whoever holds it.
`ExecuteRunnableStep` looks at the build once more; `RenewJobLease` and
`RenewStepLease` are the heartbeat. The report is a transaction:
`ApplyStepCompletion` updates the step, takes the lock of the builds row if it is a success
in a running build, and counts; `HasRunnablePendingStep` reads the rows again, with a snapshot
of its own; `CommitStep` leaves the build running, `UpdateBuild` ends it, and `UpdateBuildNoop`
rolls the completion back when the build has been ended by another. `View` is what a statement
reads: the committed rows and its own transaction's. When `AtomicResults` has the result, the
job is locked first and committed with the step; otherwise `CompleteJob` follows.
`CompletionRefused` is what a stale report comes to. The update of the step and the counts are
one action because nothing but the taking of locks lies between them. The claim compares
expiries with the moment it was drawn, not with the clock at the statement, as the code does.

**`StepCompletionTx`** leaves out claims and leases and has the two transactions that end a
build in full, the cancellation row by row. A statement sees what is committed when it starts, and its own
transaction's writes (`View`); an update waits for the lock of its row; locks are kept
to the end. A failed completion writes nothing to `builds` before it has decided,
and so holds no lock there while it counts: that is why the two reads
(`LoadBuildStepProgress`, `HasRunnablePendingStep`) are two actions. `AbortCompletion`
and `AbortCancel` are the database breaking a deadlock, `Crash` a worker that dies in
the middle.

**`BuildControl`** adds `prep` (the statement each preparation is at), `request`
(what an API request has checked and is about to write) and `ready` (whether a preparation
has gone through, which only a property reads). Each read is an
action, each unguarded write another; all of `BuildRun` interleaves with them. `QueueBuild` is
a request that read the build when it was still pending: it writes queued over whatever the
status has become and replaces steps and jobs under the workers.

**`StatusDelivery`** has the `row`, the reporters (`pc`, `mem`), how many `builds` of the
commit there are, what the provider has `served`, and how many rows of other commits are
`stranded` before this one in every batch of the drain (`StrandAnother`). A build's statuses
are reported in any order and its outcome may change: that is what the unguarded
`UpdateStatus` behind `NotifyBuildStatus` allows.
Times are ticks that are left, so no bound on a clock is needed. `Acquire` is one
transaction with its three outcomes; `PublishCommitStatus`, `PublishFails` and `Cut`
are the answers of the provider, among them an error for a request that was served;
`Answered` is the moment the reporter looks at its clock, `Mark`,
`MarkSuperseded` and `MarkDeliveryFailed` the fenced updates; and
`ReassertAuthoritativeDelivery` what a reporter does that has lost its claim.

**`BuildAttempts`** has `Builds` with their `steps` and `jobs` as functions of the nodes, so
that a build may lack a step that another one names. A pipeline is its items and what it
says under `depends_on`; `ValidDependencies` refuses some. `Resolve`, `CloneSteps`,
`PlannedJobs` and `ClonedJobs` are the planner and the clones; `CreateQueuedBuild` and
`CreateDurableJobs` the two transactions; `QueueCheck` and `QueueBuild` the check and the
write that no longer looks, `gen` the ids that a replacement gives to the steps. Workers
prepare, claim jobs and mirror, scan and bind, and complete, statement by statement as in
`BuildRun`. A `Helper` is a worker that is started late; `MaxLoad` bounds builds and helpers
together, so that either two workers share a build or one has two builds.

**`KubernetesExecution`** numbers the claims, and an object, a Pod and a capability carry
the number of theirs. `kjob` is the Job under the deterministic name, `pods` every Pod there
ever was; deletion is in the background, so a Pod goes on for a while. Each call of
`reconcileActive` is an action between `pc`s, and so is each of the helpers'; `CallFails`
fails without an effect, `AnswerFails` after it, `Crash` empties the active map.

**`ImageBuild`** gives each controller its copy (`mem`) of the record and writes it back as
the code does, whole; `CreateIntent` may find the record of a failed build without its image reference,
and saves it before it goes on. The
provider's list shows a build from the moment it exists (`Find`). Provider and registry are external: a build may succeed, fail, or
succeed without proof of its image, and with immutable tags a tag is pushed once.

**`CachePublication`** follows a save call by call, with the store's final keys as
`objects`; the staging key is the saver's own and needs no state. `superseded` and
`republished` only record history for the properties.

**`NotificationDelivery`** identifies a claim by the attempt it is. `due` is the order in
which `ListRecoverable` returns rows, since it decides who starves; `doubt` records which
messages may have gone out without the row saying so.

**`TriggerDelivery`** has the row and each handler's `copy` of it. Which jobs match is a
choice; what is left of them is a set, which `Turn` takes in the order of the list; a build may be committed and reported as failed (`halfway`).

**`ApplicationReleases`** gives each release the `plan` of its pipeline, which outputs it
expects and whether it moves latest (`ReconcileToLatest`) or not (`ReconcileCompletes`).
`ReconcileRefused` is a driver that refuses the update of an image's output. The module takes
the transaction of a reconciliation or promotion apart where it may meet another one, at the
channel: `MoveChannel` finds a row and locks it,
`NoChannel` finds none and `InsertChannel` may then lose to the unique index. A round of a
server is the set it listed, and `Turn` takes the oldest of it. `tagging` is what
the worker of a successful build has yet to tag, `ended` what `postTerminalBuild` has yet
to tell.

## The runs

Eleven runs pass and one shows a disagreement. Every property of a passing run has
a mutant: one definition changed the way a bug would change it, under which TLC
finds the property violated.

| run | instance | checks | distinct states |
| --- | --- | --- | --- |
| `build_run` | 2 workers, 2 parallel steps, 5 tokens, clock to 2, lease 1; a success completed with its job, a failure before it | `RunningHasWork`, `JobOutcomeAgrees`, `StepLeaseCovered`, `ImplementsBuildOutcome`, `LeaseRespected` | 639 thousand |
| `completion_tx` | two groups of two siblings; both results, a cancellation, a crash | `SuccessIsEarned`, `CancelIsComplete`, `RunningHasWork`, `TerminalBuildFinal`, `BuildTerminates` | 3,835 |
| `build_control` | 2 workers, 2 steps in another order than they are written, 3 tokens, clock to 1; 2 preparing processes, a client that queues, fails or both | `DependencyOrder`, `NoStepBeforePreparation` | 1.88 million |
| `status_delivery` | 2 builds with either outcome or both, 2 reporters, 2 attempts, a batch of 1; 3 reports, cuts or stranded rows; errors at any time | `RowValid`, `SentWasServed`, `NeverGoesBack`, `DeliverySettles` | 1.45 million |
| `kubernetes_execution` | 2 controllers, 2 claims, 1 fault, a cancellation | `SuccessMeansPublished`, `FailureMeansPodFailed`, `RunsOnce`, `CanceledJobDeleted`, `ExecutionEnds` | 186 thousand |
| `image_build` | 2 controllers, 2 claims, 1 fault, a cancellation; versioned or not | `SuccessHasImage`, `OneBuildPerClaim`, `CanceledBuildStops`, `ExecutionEnds` | 256 thousand |
| `cache_publication` | 2 savers at a time, 2 contents, 2 faults | `EntryAvailable`, `NewestClaimPublishes`, `ClaimMovesOn` | 136 thousand |
| `notification_delivery` | 2 destinations, a notifier, 2 drains, 2 attempts, 1 fault | `DuplicatesExplained`, `OutcomeFinal`, `DeliverySettles` | 217 thousand |
| `build_attempts` | a pipeline of two items without `depends_on`, with it, and with a cycle; a client; 2 builds and a worker, or 1 build and a second worker, which scans; 1 fault | `OrderKept`, `JobOutcomeAgrees`, `BuildEnds` | 206 thousand |
| `trigger_delivery` | 2 jobs, 2 consumers, 2 deliveries of one webhook, 2 retries, 2 faults | `DeliveryBuildsOnce`, `DownstreamExplained`, `TriggersSettle` | 39 thousand |
| `application_releases` | 2 builds, 2 versions; a plan with an artifact that moves latest, and one with an artifact and an image that does not; 2 servers, a promotion, 1 fault | `CompleteIsDurable`, `LatestIsNewest`, `ReleaseSettles` | 397 thousand |
| `build_attempts_retry` | as `build_attempts`, without faults | `AttemptEnds`: violated | |

**What they show.**

- `build_run`: with both claim paths, steals, half-done mirrors, heartbeats stopped
  between their two updates, claims between the two reads of a completion, completions beside
  each other, crashes and a cancellation in any order, no live worker is replaced, job and step
  never disagree, a running build has work or a failed step, and whoever looks at the build
  sees `BuildOutcome`. That a failed step ends the build, and that a build fails only with its
  last step, are not among the properties: the model shows that the code does not give them.
- `completion_tx`: what is still true when a cancellation is opened up as well; and that the
  lock which a success takes on the builds row serialises completions, so that a running
  build always has work left or a failed step (`RunningHasWork`), and every build ends,
  unless a failure among concurrent siblings strands it (`Stranded`).
- `build_control`: neither the writers of the status nor a late `QueueBuild` can get a step
  ahead of its dependencies, or start one before a preparation has gone through. That the
  status is running when a step starts is not said: a slower preparation takes it back.
- `status_delivery`: see the properties. The drain settles everything but a delivery whose
  last attempt was cut off, which the code leaves claimed for good (`StrandedItself`); one
  that a batch of such rows hides (`Starved`); and one that two drains with old candidates
  keep replacing (`Contested`).
- `kubernetes_execution`: the claim digest on the Pod and the checks at the internal API make
  up for a Job that is created twice, deleted late or reclaimed.
- `image_build`: looking for a build before submitting one keeps a claim to one
  submission, and the final comparison with the provider and the tag keeps a success
  honest in spite of the unguarded record. Across claims a second submission does
  happen: the first controller may be between its search and its submission when its
  claim is taken over.
- `cache_publication`: the token compared at publication is enough for the row, not for the
  archive: a late deletion of the replaced archive can hit content that has come back,
  which is the exception in `EntryAvailable`.
- `notification_delivery`: a message is sent twice only after a claim expired or a record
  was lost; stranded last attempts are the exception in `DeliverySettles`.
- `build_attempts`: outside the named exceptions (`Unprepared`: a worker died preparing;
  `Unmeetable`: a step waits for a step the build lacks; `Requeued`: a second `QueueBuild`
  replaced the steps; `Jobless`: no jobs, and nobody scans the steps or the scan cannot get
  past the first that has not succeeded; `Stranded`: a failure beside the completion of a
  sibling) every build ends. That a cycle of dependencies never gets as far as a build is part of it.
- `trigger_delivery`: a delivery never builds a job twice; what a failure leaves out is
  never built either, because a redelivery is a duplicate. Builds that are refused, or reported
  as failed, end in a final status; only the death of a process leaves a row behind.
- `application_releases`: the channel rules hold with two servers at a missing row, among the
  releases whose pipeline has `auto_channel: latest`; a newer release without it leaves latest
  where it is. A release can stay pending (`Stuck`) when the worker died before tagging, or
  when the driver refuses to record an image; enough such releases hide the younger ones
  (`Starved`).

**Why the bounds are enough.** Two workers, controllers, reporters, savers, drains or
servers are a holder and a thief; a third adds another thief, and the theorems cover any
number where there are some. Two steps are a sibling or a dependent; the transactions
need four for a group with another behind it. Five tokens let each worker lose a claim
and draw another while the rows still carry the first; two claims of a job are the one
that was lost and the one that took over. A lease of one tick lets it run out at any
point of its holder. Two builds are the older and the newer one or an attempt and its
source, two attempts a retry and the last one. `MaxCrashes`, `MaxEvents` and `MaxFaults`
bound what would otherwise make liveness vacuous: an unbounded number of crashes stops
anything. Where a bound on claims would itself strand the system, the guard
`MayLoseClaim` keeps the last claim from being lost.

**Deadlock** is checked for the cache key, which is saved for ever, and nowhere else:
builds end, deliveries settle, and with a bounded clock the workers have nothing left
to do.

**Fairness.** `BuildRun` and `BuildControl` state safety only, and have none.
- `StepCompletionTx`: workers poll for ever and steps have timeouts, so each step's next
  statement is taken (strongly fair, because it may have to wait for a lock that
  others take in turn, which PostgreSQL's lock queue grants in order); the database
  looks for deadlocks (`deadlock_timeout`). Nobody has to cancel, nobody has to crash.
- `StatusDelivery`, `NotificationDelivery`: a delivery that has begun goes on, the drains run
  every 15 seconds, and time passes. No build has to report anything. Strong fairness of
  `RecoverDelivery` says that a drain which finds the row in its batch again and again takes it
  up some time; a batch that is full of others disables it, and `Starved` is then the case.
- `KubernetesExecution`, `ImageBuild`: controllers reconcile on a ticker and try a claim in
  every round before they sweep (hence strong fairness of the claim); the cluster and the
  provider drive what they run to an end. Cloud Build has a deadline; a Kubernetes Job gets
  `ActiveDeadlineSeconds` only when the step's `TimeoutSeconds` is positive
  (`controller.go:483`), so without one `ExecutionEnds` is a statement about steps that end by
  themselves. A sweep returns at its first error (`controller.go:452`), and the fairness of the
  sweep assumes that errors of other Jobs do not come first for ever.
- `CachePublication`: time passes, savers go on, later builds save the same key.
- `BuildAttempts`: processes go on; every round of a worker's poll reaches every build
  and job that is runnable again and again (strong fairness, as a job whose step cannot
  be claimed is out of the way until its lease ends).
- `TriggerDelivery`, `ApplicationReleases`: what has begun goes on; servers reconcile round
  after round. Nobody has to deliver, produce, retry or promote.

## Findings

**A retry that never runs** (`build_attempts_retry`, `retry_rerun.go:318`). `RetryJob` makes a
build of the failed step alone; `cloneStepForAttempt` keeps its dependencies, which name
steps that the new build does not have, so that no claim of the step ever succeeds. The
cloned job has lost its dependencies and is claimed, the mirror of the claim fails the
poll, and the same happens whenever the lease has run out. The build stays running.
`build_handler_execution.go:384` promises "a new build attempt containing a retry of the
failed execution job." The same is true of a rerun from a step behind the first group.

### Observed disagreements

These were met while modelling; each is either an exception that a property of a passing
run names, or the reason why a stronger property is not stated.

1. **Concurrent failures strand the build** (`build_step_completion_repository.go:186`). Two
   siblings that complete at the same time, one of them failing, each count the other as
   running, since a failure takes no lock on `builds` before it counts. Both commit and
   nobody fails the build. `state-machine.md:93`: "Any step failure forces the build to
   failed." It happens in `BuildRun`, `BuildAttempts` and `StepCompletionTx`;
   `BuildTerminates` and `BuildEnds` have it as `Stranded`, `RunningHasWork` excuses a failed
   step, and `BuildOutcome` lets a build go on behind a failure.
2. **A build failed without a failed step** (same file, line 190). A sibling claimed
   between the two reads is pending in the first, running in the second, and missed by
   both. `state-machine.md:12`: "Build completed with at least one failed step." It happens in
   `BuildRun` and `StepCompletionTx`, so neither a quiescent failed build nor a failed step in it
   is among the properties; `BuildOutcome` has `FinishLate` for it.
3. **A build prepared twice** (`source.go:274`). Two workers read queued; the slower moves a
   running build back to preparing. `state-machine.md:96`: preparation "happens once per
   build before step execution". A client that read pending does the same with `QueueBuild`
   (`read_queue.go:316`), which also replaces the steps. What is left of the promise is
   `NoStepBeforePreparation`, checked and proved with any number of both.
4. **A terminal build overwritten** (`build_repository.go:573`). A preparation in flight
   writes over canceled. `state-machine.md:75`: "Terminal states cannot be mutated."
5. **The reassertion of a commit status never reaches the provider**
   (`scm_status_reporting.go:558`). The request made after a lost claim lacks the identity
   that the server's publisher demands (`github_app_commit_status_publisher.go:102`). The
   test (`scm_status_reporting_test.go:314`) expects the "authoritative success state to win
   remotely"; its publisher does not ask.
6. **A successful build by decree.** `CompleteBuild` (`read_queue.go:362`) makes a running
   build a success without looking at its steps; `state-machine.md:94` says that success is
   only valid when all of them are.
7. **Stranded notifications** (`notification_delivery_repository.go:95`). The drain
   "actively processes due retries and expired sending claims" (`current-priorities.md:36`),
   except those of a last attempt, which it lists for ever.
8. **A second submission of an image build.** "V2B retries recover the same execution job
   without resubmission" (`backend-map.md:27`) holds within a claim (`OneBuildPerClaim`), not
   between a controller and the one that took its claim over.
9. **Logs do not defer completion.** `kubernetes-execution.md:13` says that a log failure
   "defers completion and is retried"; `reconcileActive` logs a warning and completes.
10. **Releases that recovery does not reach.** "Server-side recovery continuously
    reconciles pending releases" (`application-releases.md:40`), but looks at the hundred
    oldest only, and nobody tags what the worker left untagged.
11. **A scan that stops at the first step** (`helpers.go:27`). A build whose durable jobs were
    not written runs through its step rows, but `workerFirstRunnableStep` offers only the first
    pending one. When its `depends_on` names a later step, its claim is refused in every
    round and the build stays running. When the first one has failed, nothing behind it is
    looked at either. `BuildEnds` has both under `Jobless`.
12. **Old candidates of a drain** (`scm_status_recovery_drain.go:92`). A drain acquires what it
    listed; between the two the row may have got another outcome of the same build, which
    `CompareSCMStatusDeliveryOwners` lets the old one replace (`scm_status_delivery_ordering.go:44`).
    Two drains with two candidates may go on like that, each time with a new first attempt.
    `DeliverySettles` has it as `Contested`.
13. **A batch full of stranded deliveries** (`scm_status_delivery_repository.go:109`). Deliveries
    whose last attempt was cut off are listed before all others; 25 of them stop the recovery
    of commit statuses. `DeliverySettles` has it as `Starved`.
14. **An image output that cannot be recorded** (`application_release_repository.go:211`).
    `reconcileImageOutput` executes an update while its rows are open on the same
    transaction; the driver is pgx (`db.go:30`), which answers such a statement with "conn
    busy". Then no release with an image is ever complete. No test reaches it, so the model has
    both answers (`ReconcileRefused`), and `ReleaseSettles` excuses such a release (`Stuck`).
15. **Who reports an outcome to the provider.** A completion that ends the build calls
    `postTerminalBuildByID` (`completion.go:73`, `:106`, `:153`); commit statuses are reported by
    `persistBuildStatus` (`lifecycle.go:26`) and `CancelBuild` only. No text says who
    reports a build that simply ran; `StatusDelivery` models the reporters there are.

## The proofs

All eight `*Proofs` modules are checked by TLAPS to the last leaf. They hold for any
sets of workers, tokens, preparing processes, clients, reporters, controllers, savers,
servers and drains, any number of steps with any dependencies without a cycle, of
builds, claims, attempts and faults, and for any lease. What they assume are the named
`ASSUME`s on constants, which TLC evaluates on every instance:

- counts, bounds and durations are naturals, and a NULL (`NoToken`, `None`, `Free`) is not
  a value of the kind that it stands in for;
- `Deps` has no cycle (`DepsAssumption`, in `BuildRun` and `StepCompletionTx`), which is
  what `validateStepDependencies` lets through, and may point forwards, as an explicit
  `depends_on` may;
- more than one attempt of a commit status (`TimesAssumption`, since a reassertion is
  scheduled on the first and needs one more);
- the retry delays are naturals, for notifications between one tick and the maximum
  (`DelayAssumption`, because the provers know nothing of powers and TLC can compute them);
- destinations and processes of `NotificationDelivery` are finitely many, since its
  invariant counts them;
- processes of different kinds are different processes;
- `BuildAttempts` numbers the nodes of a pipeline in the order of its items, and
  dependencies are node numbers; `TriggerDelivery` has lists of jobs and of consumers.

No theorem has a hypothesis beyond these. The modules
with theorems about two specifications say nothing about the two together. Names that both
use are declared in `Processes`, and what would clash is prefixed (`TriggerSpec`, `CacheSpec`).

**`BuildRunProofs`.** None of the properties is inductive by itself. `IndInv` adds
- `RowShape`: a row has a token exactly while it is running, so a guard on the token is
  a guard on the status;
- `WorkerShape`, `TokenOwnership`: tokens differ between processes, and one that is
  still in a process is only on the rows which that process claimed with it. Without
  it a late statement of one worker might hit the claim of another;
- `TxShape`: an open completion still holds its step, and its job if it will write that, whose
  rows it has locked, and one at most has the builds row;
- `DecisionShape`: a success that counts the steps of a running build has the builds row, so
  what it has counted still holds when it commits: one about to make the build a success
  sees only successes, and any other sees a step that is not;
- `BuildShape`: the agreement of the build with its steps, `SuccessIsEarned` among it, and that
  a running build has a step that is not a success;
- `JobShape`: a worker about to complete its job has a step with that outcome;
- `LeaseShape`: no lease reaches beyond one drawn now; half-done mirrors, binds and
  renewals leave the job's lease ahead of the step's.

There is one lemma per conjunct, each with a step per action; `StepMoves` and
`JobMoves` say once what any action may do to a row, and serve the invariants that
only look at rows. Proved from it: `TypeOK`, `DependencyOrder`, `SuccessIsEarned`,
`RunningHasWork`, `JobOutcomeAgrees`, `StepLeaseCovered`, and
the action properties `StepOutcomeFinal`, `LeaseRespected`, `AtomicCompletionPairs`.
`RunningHasWork` is where `DepsAssumption` is needed: among the steps that are not a success
there is one that waits for none of the others. A failing completion holds no lock while it
counts, so nothing can be concluded from what it saw, and the property excuses a failed step.

`ImplementsBuildOutcomeHolds` is the refinement. Initial states map to initial states by
`Init`. A completion shows nothing until it commits. When it does, its step is still running
(`TxShape`), so by `DependencyOrder` the step is ready in the abstract build. If the commit
makes all steps successes, `DecisionShape` says that it is the one about to update the build,
so the build is a success in that instant; if not, the build goes on or fails, both of which
`Finish` allows; and in a build that has failed it is `FinishLate`. A
cancellation is `Cancel`, and every other action leaves the mapped variables alone,
because it touches only claims, leases, jobs, locks, or steps between pending and running.

**`BuildControl`**, in the same module. `RowInv` is `IndInv` without what speaks of the build's
status: every unguarded write of the status leaves it alone, and `QueueBuild`, which waits for the open
completions, replaces rows by new ones. From it
`DependencyOrder` and `JobOutcomeAgrees` hold whatever the
preparations and the API do. `NoStepBeforePreparation` needs `PreparedFirst`: until a
preparation has gone through, the build has not been running and no worker is past the job
queue. Nothing needs to be known of how many processes prepare, queue, complete or fail it.

**`BuildOriginsProofs`, `BuildAttempts`.** A build's steps and jobs are rewritten by
creation and by `QueueBuild` while workers hold claims on the old ones, and the jobs follow in
a second transaction, when the steps may have been replaced again. `IndInv` therefore says of a writer (`JobsToWrite`) that
its jobs are new, and are those of the build's steps unless `gen` has moved on, in which case
`CreateDurableJobs` writes nothing; of an open completion (`OpenCompletions`), that it
still holds its step; and of a build, that every job has its step
(`JobsHaveSteps`). `NextEffect` reduces every action to its effect: of each build, either its rows
are rewritten as new ones (`Rewritten`) or each row makes one of a few moves (`Advances`); of
each process, that one with jobs to write had them before or has just written the
steps (`WriterMoves`). The
invariant is proved once from the effects. How a pipeline is resolved does not
matter to it: `OrderKept` is about the dependencies that a row has kept. Proved:
`OrderKept`, `JobOutcomeAgrees`.

**`BuildOriginsProofs`, `TriggerDelivery`.** The webhook's half and the artifacts' half touch
different variables, so the invariant is proved in three parts (`HookInv`, `ArtifactInv`,
and the types). `OneBuilder`: only the handler that inserted the row goes on to build, and
what it has left has not been built; this survives copies that overwrite the row, since no
handler's right to build depends on what the row says later. `OneWorker`: a delivery
that somebody works on is pending, so nobody can claim it for a retry. `CollectorAhead`:
the collector's remaining consumers have no row, so its inserts meet no retrier.
`NotBuilt`: unless its one worker is about to record a build, a delivery that is not
queued has no build but those reported as failed (`halfway`). Proved: `DeliveryBuildsOnce`,
`DownstreamExplained`.

**`StatusDeliveryProofs`.** `IndInv` rests on `ClaimFences`: one reporter at most holds a
claim, and the row is what the holder of its claim has in memory. So a fenced update
writes about the delivery its reporter made. `DeliveryShape` gives what the reporter
carries (a reassertion belongs to a first attempt, so it never waits with no attempt
left) and `PublishedWasServed` that a reporter past its publication was served.
`NeverGoesBack` follows from the comparison inside the statement that replaces the row, which
is why it holds for reports in any order. Proved: `RowValid`, `SentWasServed`, `NeverGoesBack`.

**`StepCompletionTxProofs`.** A completion decides in one statement and commits in
another, so the invariant has to say why what it saw is still true. `RowShape` and
`LockShape` give the locks: an open completion has its step's row, `CancelBuild` has the
builds row, and whoever has it keeps the build running. `CountingShape` is the point of
the lock: a success that counts holds it. From that `DecisionShape`: a transaction about
to write success sees only successes, and one about to leave the build running sees a
step that is not. `OutcomeShape` carries that to the committed rows. Proved:
`SuccessIsEarned`, `CancelIsComplete`, `TerminalBuildFinal` and `RunningHasWork`, which is
the safety half of `BuildTerminates` and where `DepsAssumption` is needed: among the steps
that are not a success there is one that waits for none of the others.

**`NotificationDeliveryProofs`.** A claim is the number of an attempt, so `ClaimShape` (no
two processes have the same claim on a row) follows from the counter, and a guarded
update is one by the last claimant. `MessagesCounted` bounds what was sent plus what is about
to be sent by the attempts that the row has counted: it needs cardinalities, and a lemma for
each way in which the set of senders changes. `NoDoubt` says what is certain of a delivery
that nobody took over and whose record was not lost: its one process holds the claim, and
has sent nothing unless it is about to say so. Proved: `DuplicatesExplained`,
`OutcomeFinal`, and that no destination gets more than `MaxAttempts` messages whatever
happens (`MessagesBounded`).

**`KubernetesExecutionProofs`.** `PodsShape`: while an execution is not canceled it keeps
its one Kubernetes Job, so there is one Pod, and the Job's condition is the Pod's.
`ControllerShape` and `ResultShape` say that a result somebody has read, however long ago,
is still that of this Pod, and `UploadShape` ties the phase of the Pod to its upload, the
object and the revision. Proved: `SuccessMeansPublished`, `FailureMeansPodFailed`,
`RunsOnce`.

**`ImageBuildProofs`.** Of the record the invariant says only that it names a build there is,
which is the reason why its unguarded writes do no harm. `ClaimShape` (one controller per claim) and `SubmitShape` (a
claim about to submit has no build yet) give `OneBuildPerClaim`; `CopyShape`,
`TagShape` and `VerdictShape` (who reports success has seen that build succeed, and a
versioned tag is pushed by one build only) give `SuccessHasImage`.
Since every action touches one controller, `ControllerMoves` reduces each of them to what it
does to that controller's copy, to the builds and to the job, and the conjuncts are proved
from those effects.

**`CachePublication`**, also in `StepCompletionTxProofs`. `ClaimShape` (the holder of the claim was not superseded)
gives the action property `NewestClaimPublishes`; `EntryAvailable` is inductive
with `SaverShape` and `PromotedKept`, which says of a save that is about to be published what
`EntryAvailable` says of the row.

**`ApplicationReleasesProofs`.** `TransactionShape`: a transaction on its way to a channel
has locked a release that nobody else has, a pending one with all its outputs or a
complete one. `ReleaseShape` gives each release its version, which `PrepShape` says was
resolved before the release was created. `StepKinds` reduces the twenty actions to four
kinds: nothing new comes to a channel, a release is created, a transaction comes to a
channel, a transaction commits. Proved: `CompleteIsDurable` and `LatestIsNewest`, the latter
because a commit that goes to latest either compares itself with the row it has locked or
inserts the first row, without which no release that asks for latest is complete; a release
without an automatic channel is completed beside it and leaves the row alone.

**Only model-checked**: liveness (`BuildTerminates`, the two `DeliverySettles`,
`CanceledJobDeleted`, the two `ExecutionEnds`, `CanceledBuildStops`, `ClaimMovesOn`, `BuildEnds`,
`TriggersSettle`, `ReleaseSettles`), which is out of this prover's reach. Every other property
of a passing run is a theorem. `TypeOK` is part of every inductive invariant.

## Abstractions

- **Tokens.** `uuid.NewString` never repeats: a token is fresh when no row and no
  process has it. For the SCM statuses the claim is `claimed_by` and `claimed_at`,
  which has microseconds; two claims never carry the same.
- **One clock.** Workers and database share it, in ticks; skew is not modelled.
- **Selection order** (priority, age, id) is a nondeterministic choice, since `SKIP
  LOCKED` may pass over any candidate.
- **Statements.** Transactions that decide in one statement and write in another are taken
  apart; those that only write what one statement read under its locks are one step, and so
  is `CancelBuild` outside `StepCompletionTx`: it waits for the open completions, and what a
  deadlock with one of them leads to is an `Abandon`. Outputs, exit codes, logs and error texts are left out;
  an execution returns success or failed.
- **Provider.** A request that timed out takes effect before that is reported, or
  never; requests are served in the order in which they take effect. A claim may expire under
  a request, although the client gives up after 30 seconds and a claim lasts for two minutes.
  Cloud Build lists a build from the moment it exists: one that appears after a `Submit` that
  timed out, when the next search has missed it, is not modelled, and `OneBuildPerClaim` rests
  on that.
- **Builds of a commit** are numbered by the order that `CompareSCMStatusDeliveryOwners`
  gives them; their statuses are reported in any order, which is more than the code can do, so
  what holds there holds of the code; descriptions and target URLs are left out, so reports with
  the same state are one.
- **Clock reads** of a delivery's acquisition and failure are part of the statement
  they are for; the one after a publication, which decides between sent and waiting,
  is an action.
- That whatever is recorded as sent is shown in the end is *not* stated: the code
  does not provide it (`ReassertAfter` is only in the memory of the replacing
  reporter) and no document promises it. It is listed as a hazard.
- **Step and job as one.** `KubernetesExecution` and `ImageBuild` complete both in the one
  transaction that the code uses there, and so keep the job row only.
- **Named, not caught.** Where the code falls short, the property of a passing run names the
  case as an exception: a cache archive that comes back and is then deleted
  (`workspace_helper_cache_service.go:325`, the ghost `republished` in `EntryAvailable`), `Stranded`,
  `Unprepared`, `Requeued`, `Jobless`, `Unmeetable`, `Stuck`, `Starved`, `StrandedItself`,
  `Contested`. Those properties say that nothing else goes wrong.
- **Faults** are a call that fails before its effect, a call whose answer is lost after
  it, and the death of a process; each is bounded by `MaxFaults`.
- **External systems** (the cluster, Cloud Build, Artifact Registry, the bucket, mail and
  Slack) do what their clients can observe; nothing is evicted from the bucket.

## What is not modelled

Of the modelled parts: the fetch of `CreateBuildFromRepo`; the pipeline language apart from
the dependencies of its steps; restoring caches and workspaces; manual
version tags; which destinations, jobs and filters match an event; clock skew. Not meant
to be modelled: in-memory repositories, which are test doubles; HTTP, CLI, MCP and the
frontend, which translate into the service calls; runners, logs, artifact storage and
the platform clients, which are I/O; generated API documents; authentication and
administration, which check or change single rows. These make up most of the lines of
the repository, so that the modelled share of all lines stays small although nearly all
of the concurrent state is covered.

## The plan

What remains, in the order of what matters most:

1. Managed images: the catalogue, its versions by fingerprint, and the branch of a refresh.
2. Restoring caches and workspaces; version tags made by hand.
