CONSTANTS
    Workers = {w1, w2}
    NumSteps = 2
    Deps <- ParallelDeps
    Tokens = {t1, t2, t3, t4, t5}
    NoToken = NoToken
    Lease = 1
    MaxTime = 2
    AtomicResults = {"success"}
SPECIFICATION Spec
INVARIANTS
    RunningHasWork
    JobOutcomeAgrees
    StepLeaseCovered
PROPERTIES
    ImplementsBuildOutcome
    LeaseRespected
SYMMETRY WorkerAndTokenSymmetry
CHECK_DEADLOCK FALSE
