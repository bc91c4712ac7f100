CONSTANTS
    Workers = {w1, w2}
    NumSteps = 2
    Deps <- ForwardDeps
    Tokens = {t1, t2, t3}
    NoToken = NoToken
    Lease = 1
    MaxTime = 1
    AtomicResults = {}
    Preparers = {p1, p2}
    Clients = {c1}
    Manual = {"failed"}
SPECIFICATION ControlSpec
INVARIANTS
    DependencyOrder
PROPERTIES
    NoStepBeforePreparation
SYMMETRY Symmetry
CHECK_DEADLOCK FALSE
