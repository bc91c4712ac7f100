CONSTANTS
    NumBuilds = 2
    Reporters = {p1, p2}
    Outcomes = {"success", "failure"}
    Tokens = {t1, t2, t3}
    NoToken = NoToken
    MaxAttempts = 2
    ClaimDuration = 1
    InitialDelay = 1
    MaxDelay = 20
    BatchSize = 1
    Faults = {"error", "cut"}
    MaxEvents = 3
SPECIFICATION Spec
INVARIANTS
    RowValid
    SentWasServed
PROPERTIES
    NeverGoesBack
    DeliverySettles
CHECK_DEADLOCK FALSE
