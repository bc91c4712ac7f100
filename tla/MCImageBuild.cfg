CONSTANTS
    Controllers = {c1, c2}
    Lease = 1
    MaxClaims = 2
    MaxFaults = 1
SPECIFICATION Spec
INVARIANTS
    SuccessHasImage
    OneBuildPerClaim
PROPERTIES
    CanceledBuildStops
    ExecutionEnds
CHECK_DEADLOCK FALSE
