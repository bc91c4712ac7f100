----------------------------- MODULE Lifecycle -----------------------------
(***************************************************************************)
(* The lifecycle vocabulary of Coyote CI: the statuses of builds, steps    *)
(* and durable execution jobs, the tables that say which transitions are   *)
(* legal (domain/lifecycle.go), and the classification of a completion     *)
(* that lost its compare-and-swap (repository/completion_decision.go).     *)
(***************************************************************************)

BuildStatuses ==
    {"pending", "queued", "preparing", "running", "success", "failed", "canceled"}

StepStatuses == {"pending", "running", "success", "failed", "canceled"}

JobStatuses == {"queued", "running", "success", "failed", "canceled"}

TerminalStatuses == {"success", "failed", "canceled"}

IsTerminalBuildStatus(st) == st \in TerminalStatuses

IsTerminalStepStatus(st) == st \in TerminalStatuses

IsTerminalExecutionJobStatus(st) == st \in TerminalStatuses

CanCancelBuild(st) == st \in {"queued", "preparing", "running"}

CanCancelStep(st) == st \in {"pending", "running"}

CanCancelExecutionJob(st) == st \in {"queued", "running"}

BuildTransitions ==
    {<<"pending", "queued">>,
     <<"queued", "preparing">>, <<"queued", "canceled">>,
     <<"preparing", "running">>, <<"preparing", "failed">>, <<"preparing", "canceled">>,
     <<"running", "success">>, <<"running", "failed">>, <<"running", "canceled">>}

CanTransitionBuild(from, to) == <<from, to>> \in BuildTransitions

(* The results a runner may report: CanTransitionStep("running", r). *)
StepResults == {"success", "failed"}
=============================================================================
