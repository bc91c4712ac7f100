CONSTANTS
    NumBuilds = 2
    Versions = {v1, v2}
    Artifacts = {a1}
    Images = {i1}
    Plans <- MCPlans
    Preparers = {p1}
    Servers = {s1, s2}
    Clients = {c1}
    Limit = 1
    MaxPromotions = 1
    MaxFaults = 1
    None = None
SPECIFICATION Spec
INVARIANTS
    CompleteIsDurable
    LatestIsNewest
PROPERTIES
    ReleaseSettles
CHECK_DEADLOCK FALSE
