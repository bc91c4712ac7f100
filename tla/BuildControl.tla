---------------------------- MODULE BuildControl ----------------------------
(***************************************************************************)
(* A build from the queue on: BuildRun, together with the code that writes *)
(* builds.status outside the completion and cancellation transactions.     *)
(* PrepareBuildExecution (service/build/source.go), run by every worker    *)
(* that finds a queued build and by StartBuild, QueueBuild, CompleteBuild  *)
(* and FailBuild (service/build/read_queue.go) read the status, compare it *)
(* with the table of transitions, and then write it with a statement that  *)
(* has no guard (repository/postgres/build_repository.go).                 *)
(***************************************************************************)
EXTENDS BuildRun

CONSTANTS
    Preparers,   \* processes that may prepare the build
    Clients,     \* requests to queue, complete or fail the build by hand
    Manual       \* the outcomes that they ask for

ASSUME ManualAssumption == Manual \subseteq {"success", "failed"}

VARIABLES
    prep,     \* the statement each preparation is at
    request,  \* what each request is about to write, or "none"
    ready     \* whether a preparation of the build has gone through

controlVars == <<vars, prep, request, ready>>

ControlTypeOK ==
    /\ TypeOK
    /\ prep \in [Preparers -> {"idle", "toPreparing", "preparing", "toRunning"}]
    /\ request \in [Clients -> Manual \cup {"none", "queue", "jobs"}]
    /\ ready \in BOOLEAN

(* A build that has just been queued.  Other requests may have read that   *)
(* it was pending, as workers do that find it in the same list, and have   *)
(* still to queue it.                                                      *)
ControlInit ==
    /\ status = "queued"
    /\ RowsInit
    /\ prep = [p \in Preparers |-> "idle"]
    /\ request \in [Clients -> {"none", "queue"}]
    /\ ready = FALSE

(* UpdateStatus: WHERE id = $1, whatever the status has become since, once *)
(* no completion has the row.                                              *)
UpdateStatus(to) ==
    /\ ~BuildLocked
    /\ status' = to
    /\ UNCHANGED <<cursor, steps, jobs, procs, now>>

-----------------------------------------------------------------------------
(* PrepareBuildExecution *)

PrepAt(p, here, next) == prep[p] = here /\ prep' = [prep EXCEPT ![p] = next]

(* transitionBuildStatus to preparing: the read ... *)
PrepareCheck(p) ==
    /\ CanTransitionBuild(status, "preparing")
    /\ PrepAt(p, "idle", "toPreparing")
    /\ UNCHANGED <<vars, request, ready>>

(* ... and the write. *)
PreparePersist(p) ==
    /\ PrepAt(p, "toPreparing", "preparing")
    /\ UpdateStatus("preparing")
    /\ UNCHANGED <<request, ready>>

(* The workspace, the checkout, the artifact handoff, the version or the   *)
(* release snapshot fails: persistBuildStatus does not read the status.    *)
PrepareFail(p) ==
    /\ PrepAt(p, "preparing", "idle")
    /\ UpdateStatus("failed")
    /\ UNCHANGED <<request, ready>>

(* transitionBuildStatus to running: the read ... *)
PrepareReady(p) ==
    /\ PrepAt(p, "preparing",
              IF CanTransitionBuild(status, "running") THEN "toRunning" ELSE "idle")
    /\ UNCHANGED <<vars, request, ready>>

(* ... and the write. *)
PrepareRun(p) ==
    /\ PrepAt(p, "toRunning", "idle")
    /\ UpdateStatus("running")
    /\ ready' = TRUE
    /\ UNCHANGED request

(* The preparing process dies.  A build it had moved to preparing stays    *)
(* there: only queued builds are prepared.                                 *)
PrepareCrash(p) ==
    /\ prep[p] # "idle"
    /\ prep' = [prep EXCEPT ![p] = "idle"]
    /\ UNCHANGED <<vars, request, ready>>

-----------------------------------------------------------------------------
(* QueueBuild, CompleteBuild and FailBuild *)

(* The status and the cursor, and new step rows in the place of the old    *)
(* ones, whose jobs go with them.  The statements of a worker name a step  *)
(* by its build and index, and find the new row; the one that binds a job  *)
(* names the old row's id, and will find none.                             *)
QueueBuild(c) ==
    /\ request[c] = "queue"
    /\ \A w \in Workers : ~InTx(w)
    /\ status' = "queued" /\ cursor' = 0
    /\ steps' = [s \in Steps |-> Unclaimed("pending")]
    /\ jobs' = [s \in Steps |-> Unclaimed("absent")]
    /\ pc' = [w \in Workers |-> IF pc[w] = "bind" THEN "start" ELSE pc[w]]
    /\ request' = [d \in Clients |->
           IF d = c THEN "jobs" ELSE IF request[d] = "jobs" THEN "none" ELSE request[d]]
    /\ UNCHANGED <<claim, renewal, tx, now, prep, ready>>

(* createDurableJobsForBuild, a transaction of its own: jobs for the steps *)
(* that this request has written, if they are still there.                 *)
CreateDurableJobs(c) ==
    /\ request[c] = "jobs"
    /\ jobs' = [s \in Steps |-> Unclaimed("queued")]
    /\ request' = [request EXCEPT ![c] = "none"]
    /\ UNCHANGED <<status, cursor, steps, procs, now, prep, ready>>

TransitionCheck(c, to) ==
    /\ request[c] = "none"
    /\ CanTransitionBuild(status, to)
    /\ request' = [request EXCEPT ![c] = to]
    /\ UNCHANGED <<vars, prep, ready>>

TransitionPersist(c) ==
    /\ request[c] \in Manual
    /\ UpdateStatus(request[c])
    /\ request' = [request EXCEPT ![c] = "none"]
    /\ UNCHANGED <<prep, ready>>

-----------------------------------------------------------------------------

ControlNext ==
    \/ \E p \in Preparers :
          \/ PrepareCheck(p)
          \/ PreparePersist(p)
          \/ PrepareFail(p)
          \/ PrepareReady(p)
          \/ PrepareRun(p)
          \/ PrepareCrash(p)
    \/ \E c \in Clients :
          \/ \E to \in Manual : TransitionCheck(c, to)
          \/ TransitionPersist(c)
          \/ QueueBuild(c)
          \/ CreateDurableJobs(c)
    \/ Next /\ UNCHANGED <<prep, request, ready>>

ControlSpec == ControlInit /\ [][ControlNext]_controlVars

-----------------------------------------------------------------------------
(* Properties *)

(* state-machine.md: source checkout and preparation happen before step    *)
(* execution.  However many processes prepare the build, and whatever the  *)
(* requests do to its status meanwhile, no step starts before one of the   *)
(* preparations has gone through.  (That the build is then running cannot  *)
(* be said: a slower preparation moves it back to preparing, and a late    *)
(* QueueBuild to queued, under the workers.)                               *)
NoStepBeforePreparation ==
    [][\A s \in Steps :
          (steps[s].status = "pending" /\ steps'[s].status = "running") => ready]_controlVars

(* What the rows promise does not depend on the build's status, and holds  *)
(* whatever these writers do to it: the part of BuildRun's inductive       *)
(* invariant that leaves the build's status out.                           *)
RowInv ==
    /\ TypeOK /\ RowShape /\ WorkerShape /\ TokenOwnership /\ TxShape
    /\ DependencyOrder /\ JobShape /\ LeaseShape

(* Until then no worker gets past the job queue: the candidate query joins *)
(* the build, and the scan is for builds listed as running.                *)
NotYetRun ==
    status # "running" /\ \A w \in Workers : pc[w] \in {"idle", "claimJobOnly"}

PreparedFirst == ready \/ NotYetRun
=============================================================================
