CONSTANTS
    Deliveries = {d1, d2}
    Notifiers = {n1}
    Drains = {s1, s2}
    MaxAttempts = 2
    Lease = 1
    InitialDelay = 1
    MaxDelay = 2
    BatchSize = 2
    MaxFaults = 1
    None = None
SPECIFICATION Spec
INVARIANTS
    DuplicatesExplained
PROPERTIES
    OutcomeFinal
    DeliverySettles
CHECK_DEADLOCK FALSE
