CONSTANTS
    Controllers = {c1, c2}
    Lease = 1
    MaxInFlight = 1
    MaxClaims = 2
    MaxFaults = 1
SPECIFICATION Spec
INVARIANTS
    SuccessMeansPublished
    FailureMeansPodFailed
    RunsOnce
PROPERTIES
    CanceledJobDeleted
    ExecutionEnds
CHECK_DEADLOCK FALSE
