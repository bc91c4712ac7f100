------------------------- MODULE ApplicationReleases -------------------------
(***************************************************************************)
(* Application releases and their channels (service/release,               *)
(* repository/postgres/application_release_repository.go): the snapshot    *)
(* that the preparation of a build takes (service/build/source.go), the    *)
(* version tags of its artifacts, written after it has succeeded           *)
(* (service/build/artifacts.go, read_queue.go), the servers that reconcile *)
(* pending releases, and promotion to stable.                              *)
(*                                                                         *)
(* The builds are those of one job and are named by their build numbers.   *)
(* A transaction that may meet another at the channel row is several       *)
(* steps, its writes kept in loc until it commits; it holds the lock on    *)
(* the row of its release all along.                                       *)
(***************************************************************************)
EXTENDS Lifecycle, Integers, Sequences, FiniteSets, SequencesExt

CONSTANTS
    NumBuilds,
    Versions,       \* the application versions that a build may resolve
    Artifacts,      \* the artifacts and the images that a release may expect
    Images,
    Plans,          \* the releases that a pipeline may declare: auto_channel, outputs
    Preparers,      \* workers that prepare builds
    Servers,        \* processes that reconcile pending releases
    Clients,        \* API requests that promote a release to stable
    Limit,          \* how many pending releases one round looks at
    MaxPromotions,  \* bound on the promotions
    MaxFaults,      \* bound on crashes and failed statements
    None

Builds == 1 .. NumBuilds
Outputs == Artifacts \cup Images
Procs == Servers \cup Clients

ASSUME ReleaseAssumption ==
    /\ NumBuilds \in Nat \ {0} /\ Limit \in Nat \ {0}
    /\ MaxPromotions \in Nat /\ MaxFaults \in Nat
    /\ Artifacts \cap Images = {}
    /\ Plans \subseteq [auto : BOOLEAN, outputs : SUBSET Outputs]
    /\ Servers \cap Clients = {}
    /\ None \notin Builds \cup Versions

VARIABLES
    build,     \* builds.status
    version,   \* builds.application_version
    durable,   \* the outputs with a version tag, or with a published digest
    tagging,   \* the artifacts that the worker of an ended build has yet to tag
    ended,     \* builds whose postTerminalBuild has yet to run, with the status
    prep,      \* where each preparer is, and with which build
    release,   \* application_releases.status, "none" without a release
    plan,      \* whether auto_channel_name is latest, and the outputs
    created,   \* the builds with a release, in the order of created_at
    published, \* application_release_outputs with status published
    channel,   \* current_release_id of latest and stable
    events,    \* application_channel_events: the new release of each
    pc, loc,   \* where each transaction is; its release and those to come
    faults

buildVars == <<build, version, durable, tagging, ended, prep>>
releaseVars == <<release, plan, created, published, channel, events>>
vars == <<buildVars, releaseVars, pc, loc, faults>>

Free == [at |-> "idle", b |-> None]
Idle == [b |-> None, todo |-> {}]
NoPlan == [auto |-> FALSE, outputs |-> {}]
Channels == {"latest", "stable"}

TypeOK ==
    /\ build \in [Builds -> BuildStatuses]
    /\ version \in [Builds -> Versions \cup {None}]
    /\ durable \in [Builds -> SUBSET Outputs]
    /\ tagging \in [Builds -> SUBSET Artifacts]
    /\ ended \in [Builds -> BuildStatuses \cup {None}]
    /\ prep \in [Preparers -> [at : {"idle", "toPreparing", "get", "create", "toRunning"},
                               b : Builds \cup {None}]]
    /\ release \in [Builds -> {"none", "pending", "complete", "failed"}]
    /\ plan \in [Builds -> Plans \cup {NoPlan}]
    /\ created \in Seq(Builds) /\ Range(created) = {b \in Builds : release[b] # "none"}
    /\ published \in [Builds -> SUBSET Outputs]
    /\ channel \in [Channels -> Builds \cup {None}]
    /\ events \in [Channels -> Seq(Builds)]
    /\ pc \in [Procs -> {"idle", "next", "move", "insert"}]
    /\ loc \in [Procs -> [b : Builds \cup {None}, todo : SUBSET Builds]]
    /\ faults \in 0 .. MaxFaults

Init ==
    /\ build = [b \in Builds |-> "queued"]
    /\ version = [b \in Builds |-> None]
    /\ durable = [b \in Builds |-> {}]
    /\ tagging = [b \in Builds |-> {}]
    /\ ended = [b \in Builds |-> None]
    /\ prep = [p \in Preparers |-> Free]
    /\ release = [b \in Builds |-> "none"]
    /\ plan = [b \in Builds |-> NoPlan]
    /\ created = <<>>
    /\ published = [b \in Builds |-> {}]
    /\ channel = [ch \in Channels |-> None]
    /\ events = [ch \in Channels |-> <<>>]
    /\ pc = [p \in Procs |-> "idle"]
    /\ loc = [p \in Procs |-> Idle]
    /\ faults = 0

Fault == faults < MaxFaults /\ faults' = faults + 1

-----------------------------------------------------------------------------
(* Builds *)

(* A build ends; postTerminalBuild comes next. *)
Ends(b, st) ==
    /\ build' = [build EXCEPT ![b] = st]
    /\ ended' = [ended EXCEPT ![b] = st]

PrepGoto(p, here, next) == prep[p].at = here /\ prep' = [prep EXCEPT ![p].at = next]
PrepDone(p, here) == prep[p].at = here /\ prep' = [prep EXCEPT ![p] = Free]

(* PrepareBuildExecution: the status is read ... *)
PrepareCheck(p, b) ==
    /\ prep[p].at = "idle"
    /\ CanTransitionBuild(build[b], "preparing")
    /\ prep' = [prep EXCEPT ![p] = [at |-> "toPreparing", b |-> b]]
    /\ UNCHANGED <<build, version, durable, tagging, ended, releaseVars, pc, loc, faults>>

(* ... and written. *)
PreparePersist(p) ==
    /\ PrepGoto(p, "toPreparing", "get")
    /\ build' = [build EXCEPT ![prep[p].b] = "preparing"]
    /\ UNCHANGED <<version, durable, tagging, ended, releaseVars, pc, loc, faults>>

(* resolveApplicationVersionForBuild, by a template or from a file of the  *)
(* sources, and EnsureSnapshot: GetByBuildID ...                           *)
GetSnapshot(p) == LET b == prep[p].b IN
    /\ PrepGoto(p, "get", IF release[b] = "none" THEN "create" ELSE "toRunning")
    /\ \E v \in Versions : version' = [version EXCEPT ![b] = IF @ = None THEN v ELSE @]
    /\ UNCHANGED <<build, durable, tagging, ended, releaseVars, pc, loc, faults>>

(* build_id and, within the job, application_version are unique. *)
Conflicts(b) == \E a \in Builds : release[a] # "none" /\ (a = b \/ version[a] = version[b])

(* ... and Create, with what the pipeline of the build declares. *)
CreateSnapshot(p) == LET b == prep[p].b IN
    /\ PrepGoto(p, "create", "toRunning")
    /\ ~Conflicts(b)
    /\ release' = [release EXCEPT ![b] = "pending"]
    /\ \E declared \in Plans : plan' = [plan EXCEPT ![b] = declared]
    /\ created' = Append(created, b)
    /\ UNCHANGED <<build, version, durable, tagging, ended, published, channel, events, pc, loc, faults>>

(* A conflict fails the build, whatever its status has become.             *)
SnapshotConflict(p) ==
    /\ PrepDone(p, "create")
    /\ Conflicts(prep[p].b)
    /\ Ends(prep[p].b, "failed")
    /\ UNCHANGED <<version, durable, tagging, releaseVars, pc, loc, faults>>

PrepareEnds(p) == LET b == prep[p].b IN
    /\ PrepDone(p, "toRunning")
    /\ build' = IF CanTransitionBuild(build[b], "running") THEN [build EXCEPT ![b] = "running"] ELSE build
    /\ UNCHANGED <<version, durable, tagging, ended, releaseVars, pc, loc, faults>>

(* An image_build step publishes its image before it succeeds. *)
PublishImage(b, o) ==
    /\ build[b] = "running" /\ o \in plan[b].outputs \ durable[b]
    /\ durable' = [durable EXCEPT ![b] = @ \cup {o}]
    /\ UNCHANGED <<build, version, tagging, ended, prep, releaseVars, pc, loc, faults>>

(* The artifacts are collected and tagged once the build has succeeded. *)
BuildSucceeds(b) ==
    /\ build[b] = "running" /\ plan[b].outputs \cap Images \subseteq durable[b]
    /\ Ends(b, "success")
    /\ tagging' = [tagging EXCEPT ![b] = plan[b].outputs \cap Artifacts]
    /\ UNCHANGED <<version, durable, prep, releaseVars, pc, loc, faults>>

BuildEndsOtherwise(b, st) ==
    /\ CanTransitionBuild(build[b], st) /\ st \in {"failed", "canceled"}
    /\ Ends(b, st)
    /\ UNCHANGED <<version, durable, tagging, prep, releaseVars, pc, loc, faults>>

(* autoTagDeclaredArtifactOutputs, one artifact at a time. *)
TagArtifact(b, o) ==
    /\ o \in tagging[b]
    /\ tagging' = [tagging EXCEPT ![b] = @ \ {o}]
    /\ durable' = [durable EXCEPT ![b] = @ \cup {o}]
    /\ UNCHANGED <<build, version, ended, prep, releaseVars, pc, loc, faults>>

(* The worker dies before it has collected or tagged everything, or a tag  *)
(* cannot be created: nobody does the rest.                                *)
TaggingLost(b) ==
    /\ tagging[b] # {}
    /\ Fault
    /\ tagging' = [tagging EXCEPT ![b] = {}]
    /\ UNCHANGED <<build, version, durable, ended, prep, releaseVars, pc, loc>>

-----------------------------------------------------------------------------
(* Releases *)

Locked(b) == \E p \in Procs : pc[p] \in {"move", "insert"} /\ loc[p].b = b

(* postTerminalBuild: FailBuildRelease, for the status the caller has, a   *)
(* single UPDATE ... WHERE status = 'pending'.                             *)
FailBuildRelease(b) ==
    /\ ended[b] # None /\ ~Locked(b)
    /\ ended' = [ended EXCEPT ![b] = None]
    /\ release' = IF ended[b] \in {"failed", "canceled"} /\ release[b] = "pending"
                    THEN [release EXCEPT ![b] = "failed"] ELSE release
    /\ UNCHANGED <<build, version, durable, tagging, prep, plan, created, published, channel, events, pc, loc, faults>>

PostTerminalLost(b) ==
    /\ ended[b] # None
    /\ Fault
    /\ ended' = [ended EXCEPT ![b] = None]
    /\ UNCHANGED <<build, version, durable, tagging, prep, releaseVars, pc, loc>>

(* ORDER BY created_at *)
Older(a, b) == \E i, j \in DOMAIN created : i < j /\ created[i] = a /\ created[j] = b

(* ReconcilePending: ListPending, at most Limit of them, the oldest. *)
ListPending(s) ==
    LET pending == {b \in Builds : release[b] = "pending"} IN
    /\ pc[s] = "idle" /\ pending # {}
    /\ pc' = [pc EXCEPT ![s] = "next"]
    /\ loc' = [loc EXCEPT ![s].todo =
                 {b \in pending : Cardinality({a \in pending : Older(a, b)}) < Limit}]
    /\ UNCHANGED <<buildVars, releaseVars, faults>>

(* The loop over them: it is the turn of the oldest, which nobody has      *)
(* locked, ...                                                             *)
Turn(s, b) ==
    /\ pc[s] = "next" /\ ~Locked(b)
    /\ b \in loc[s].todo /\ \A a \in loc[s].todo : ~Older(a, b)

(* ... and then that of the next one, or the round ends. *)
NextRelease(p, b) ==
    LET todo == loc[p].todo \ {b} IN
    /\ loc' = [loc EXCEPT ![p] = [b |-> None, todo |-> todo]]
    /\ pc' = [pc EXCEPT ![p] = IF todo = {} THEN "idle" ELSE "next"]

(* Mutant: a release is complete when one output is published. *)
AnyOutput(b) == durable[b] # {}

AllOutputs(b) == plan[b].outputs \subseteq durable[b]

(* Mutant: the releases of canceled builds are left to postTerminalBuild. *)
BuildFailed(b) == build[b] = "failed"

BuildLost(b) == build[b] \in {"failed", "canceled"}

(* Reconcile, for a release that is not to be completed: not pending any   *)
(* more, its build failed or not ended, or an output not durable yet.      *)
ReconcileWaits(s, b) ==
    /\ Turn(s, b)
    /\ LET fails == release[b] = "pending" /\ BuildLost(b)
           snapshots == release[b] = "pending" /\ build[b] = "success"
       IN  /\ snapshots => ~AllOutputs(b)
           /\ release' = IF fails THEN [release EXCEPT ![b] = "failed"] ELSE release
           /\ published' = IF snapshots THEN [published EXCEPT ![b] = @ \cup (durable[b] \cap plan[b].outputs)]
                           ELSE published
    /\ NextRelease(s, b)
    /\ UNCHANGED <<buildVars, plan, created, channel, events, faults>>

(* reconcileImageOutput executes its UPDATE while the rows of its query    *)
(* are open on the transaction.  A driver that does not read ahead refuses *)
(* the statement ("conn busy") and the transaction is rolled back.         *)
ReconcileRefused(s, b) ==
    /\ Turn(s, b)
    /\ release[b] = "pending" /\ build[b] = "success"
    /\ (plan[b].outputs \cap Images \cap durable[b]) \ published[b] # {}
    /\ NextRelease(s, b)
    /\ UNCHANGED <<buildVars, releaseVars, faults>>

Completes(b) == release[b] = "pending" /\ build[b] = "success" /\ AllOutputs(b)

(* What completes a release and publishes the outputs it was found to have. *)
Complete(b) ==
    /\ release' = [release EXCEPT ![b] = "complete"]
    /\ published' = [published EXCEPT ![b] = @ \cup (durable[b] \cap plan[b].outputs)]
    /\ UNCHANGED <<buildVars, plan, created, faults>>

(* ... for one that is, without an automatic channel ... *)
ReconcileCompletes(s, b) ==
    /\ Turn(s, b)
    /\ Completes(b) /\ ~plan[b].auto
    /\ Complete(b)
    /\ NextRelease(s, b)
    /\ UNCHANGED <<channel, events>>

(* ... and with one: the transaction goes on to latest. *)
ReconcileToLatest(s, b) ==
    /\ Turn(s, b)
    /\ Completes(b) /\ plan[b].auto
    /\ pc' = [pc EXCEPT ![s] = "move"]
    /\ loc' = [loc EXCEPT ![s].b = b]
    /\ UNCHANGED <<buildVars, releaseVars, faults>>

(* PromoteStable *)
PromoteStable(c, b) ==
    /\ pc[c] = "idle" /\ ~Locked(b)
    /\ Len(events["stable"]) < MaxPromotions
    /\ release[b] = "complete"
    /\ pc' = [pc EXCEPT ![c] = "move"]
    /\ loc' = [loc EXCEPT ![c].b = b]
    /\ UNCHANGED <<buildVars, releaseVars, faults>>

(* Completion is by servers, promotion by clients. *)
ChannelOf(p) == IF p \in Servers THEN "latest" ELSE "stable"

Point(p) == LET ch == ChannelOf(p) IN
    /\ channel' = [channel EXCEPT ![ch] = loc[p].b]
    /\ events' = [events EXCEPT ![ch] = Append(@, loc[p].b)]

(* The commit; a release that is promoted has been complete before. *)
Commit(p) == Complete(loc[p].b) /\ NextRelease(p, loc[p].b)

(* Mutant: latest is the release that completed last. *)
MovesLast(p) == channel[ChannelOf(p)] # loc[p].b

(* A newer build for latest, any other release for stable. *)
Moves(p) ==
    LET cur == channel[ChannelOf(p)] IN IF p \in Servers THEN loc[p].b > cur ELSE loc[p].b # cur

(* moveChannel: SELECT ... FOR UPDATE finds the row, so that it is moved   *)
(* and the transaction commits before another reads it ...                 *)
MoveChannel(p) ==
    /\ pc[p] = "move" /\ channel[ChannelOf(p)] # None
    /\ IF Moves(p) THEN Point(p) ELSE UNCHANGED <<channel, events>>
    /\ Commit(p)

(* ... or there is no row to lock. *)
NoChannel(p) ==
    /\ pc[p] = "move" /\ channel[ChannelOf(p)] = None
    /\ pc' = [pc EXCEPT ![p] = "insert"]
    /\ UNCHANGED <<buildVars, releaseVars, loc, faults>>

(* The INSERT: the second one violates the unique index, and its           *)
(* transaction is rolled back.                                             *)
InsertChannel(p) ==
    /\ pc[p] = "insert"
    /\ \/ channel[ChannelOf(p)] = None /\ Point(p) /\ Commit(p)
       \/ /\ channel[ChannelOf(p)] # None
          /\ NextRelease(p, loc[p].b)
          /\ UNCHANGED <<buildVars, releaseVars, faults>>

(* A transaction fails or its process dies: a rollback. *)
Aborts(p) ==
    /\ pc[p] # "idle"
    /\ Fault
    /\ pc' = [pc EXCEPT ![p] = "idle"]
    /\ loc' = [loc EXCEPT ![p] = Idle]
    /\ UNCHANGED <<buildVars, releaseVars>>

-----------------------------------------------------------------------------

Prepares(p) ==
    PreparePersist(p) \/ GetSnapshot(p) \/ CreateSnapshot(p) \/ SnapshotConflict(p) \/ PrepareEnds(p)

Transacts(p) == MoveChannel(p) \/ NoChannel(p) \/ InsertChannel(p)

Reconciles(s) ==
    \/ ListPending(s) \/ Transacts(s)
    \/ \E b \in Builds :
          \/ ReconcileWaits(s, b) \/ ReconcileRefused(s, b)
          \/ ReconcileCompletes(s, b) \/ ReconcileToLatest(s, b)

Next ==
    \/ \E p \in Preparers : Prepares(p) \/ \E b \in Builds : PrepareCheck(p, b)
    \/ \E b \in Builds :
          \/ BuildSucceeds(b) \/ TaggingLost(b) \/ FailBuildRelease(b) \/ PostTerminalLost(b)
          \/ \E st \in {"failed", "canceled"} : BuildEndsOtherwise(b, st)
          \/ \E o \in Images : PublishImage(b, o)
          \/ \E o \in Artifacts : TagArtifact(b, o)
    \/ \E s \in Servers : Reconciles(s)
    \/ \E c \in Clients : Transacts(c) \/ \E b \in Builds : PromoteStable(c, b)
    \/ \E p \in Procs : Aborts(p)

(* Workers tag what they have collected, servers reconcile round after     *)
(* round, and a transaction that has begun goes on.                        *)
Fairness ==
    /\ \A b \in Builds : \A o \in Artifacts : WF_vars(TagArtifact(b, o))
    /\ \A s \in Servers : WF_vars(Reconciles(s))
    /\ \A c \in Clients : WF_vars(Transacts(c))

Spec == Init /\ [][Next]_vars /\ Fairness

-----------------------------------------------------------------------------
(* Properties *)

(* A complete release has every output it expects, durable under its       *)
(* version, and no other release has that version.                         *)
CompleteIsDurable ==
    \A b \in Builds : release[b] = "complete" =>
        /\ published[b] = plan[b].outputs /\ AllOutputs(b)
        /\ \A a \in Builds : release[a] # "none" /\ version[a] = version[b] => a = b

(* latest is, of the complete releases whose pipeline asked for it, the    *)
(* one with the highest build number, however the servers that complete    *)
(* them meet at its row; the row of stable, too, names a complete release; *)
(* and the history of each ends with its row.                              *)
LatestIsNewest ==
    /\ \A b \in Builds :
          release[b] = "complete" /\ plan[b].auto => channel["latest"] # None /\ channel["latest"] >= b
    /\ \A ch \in Channels :
          LET cur == channel[ch] IN
          /\ cur # None => /\ release[cur] = "complete" /\ Last(events[ch]) = cur
                           /\ ch = "latest" => plan[cur].auto
          /\ cur = None => events[ch] = <<>>

(* Its build has succeeded, and an artifact will never be tagged, or an    *)
(* image may never be recorded.                                            *)
Stuck(b) ==
    /\ release[b] = "pending" /\ build[b] = "success"
    /\ (tagging[b] = {} /\ ~AllOutputs(b)) \/ plan[b].outputs \cap Images # {}

(* Its build has not ended: it takes a place in the list meanwhile. *)
Waits(b) == release[b] = "pending" /\ ~IsTerminalBuildStatus(build[b])

(* Limit releases that cannot be settled are older and take every place. *)
Starved(b) == Cardinality({a \in Builds : Older(a, b) /\ (Stuck(a) \/ Waits(a))}) >= Limit

(* A release whose build has ended is settled, whoever ended the build and *)
(* died before it could say so, unless an output of it is never recorded   *)
(* or it is starved.                                                       *)
ReleaseSettles ==
    []<>(\A b \in Builds : release[b] # "pending" \/ Stuck(b) \/ Waits(b) \/ Starved(b))

-----------------------------------------------------------------------------
(* The inductive invariant *)

(* A preparer has a build while it prepares, and has given it its version  *)
(* before it creates the release.                                          *)
PrepShape ==
    \A p \in Preparers : prep[p].at # "idle" =>
        /\ prep[p].b \in Builds
        /\ prep[p].at = "create" => version[prep[p].b] # None

(* A release has a version of its own, and publishes durable outputs only. *)
ReleaseShape ==
    /\ \A b \in Builds : release[b] # "none" => version[b] # None
    /\ \A a, b \in Builds :
        release[a] # "none" /\ release[b] # "none" /\ version[a] = version[b] => a = b
    /\ \A b \in Builds : published[b] \subseteq durable[b]
    /\ \A b \in Builds : published[b] \subseteq plan[b].outputs
    /\ \A b \in Builds : release[b] = "none" => published[b] = {}
    /\ \A b \in Builds : release[b] = "complete" => published[b] = plan[b].outputs

(* A transaction that has come to the channel has locked a release that    *)
(* nobody else has: a pending one with all its outputs, to complete it and *)
(* move latest, or a complete one, to promote it.                          *)
InChannel(p) == pc[p] \in {"move", "insert"}
TransactionShape ==
    /\ \A p \in Procs : InChannel(p) => loc[p].b \in Builds
    /\ \A p \in Servers : InChannel(p) => 
          release[loc[p].b] = "pending" /\ AllOutputs(loc[p].b) /\ plan[loc[p].b].auto
    /\ \A p \in Clients : InChannel(p) => release[loc[p].b] = "complete"
    /\ \A p, q \in Procs : InChannel(p) /\ InChannel(q) /\ loc[p].b = loc[q].b => p = q

IndInv ==
    /\ TypeOK
    /\ PrepShape
    /\ ReleaseShape
    /\ TransactionShape
    /\ LatestIsNewest
=============================================================================
