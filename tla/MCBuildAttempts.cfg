CONSTANTS
    Pipeline <- TwoItems
    DependsOn <- Explicit
    Template = {1}
    MaxBuilds = 2
    Requests = {r1}
    Workers = {w1, w2}
    Helpers = {w2}
    Scanners = {w2}
    MaxLoad = 2
    MaxFaults = 1
    None = None
SPECIFICATION Spec
INVARIANTS
    OrderKept
    JobOutcomeAgrees
PROPERTIES
    BuildEnds
CHECK_DEADLOCK FALSE
