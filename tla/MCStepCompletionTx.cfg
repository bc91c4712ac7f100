CONSTANTS
    NumSteps = 4
    Deps <- GroupDeps
    Results = {"success", "failed"}
    MaxCrashes = 1
SPECIFICATION Spec
INVARIANTS
    SuccessIsEarned
    CancelIsComplete
    RunningHasWork
PROPERTIES
    TerminalBuildFinal
    BuildTerminates
CHECK_DEADLOCK FALSE
