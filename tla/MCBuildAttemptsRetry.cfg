CONSTANTS
    Pipeline <- TwoItems
    DependsOn <- Implicit
    Template = {1}
    MaxBuilds = 2
    Requests = {r1}
    Workers = {w1}
    Helpers = {}
    Scanners = {w1}
    MaxLoad = 2
    MaxFaults = 0
    None = None
SPECIFICATION Spec
PROPERTIES
    AttemptEnds
CHECK_DEADLOCK FALSE
