CONSTANTS
    Jobs <- TwoJobs
    Consumers <- TwoConsumers
    Handlers = {h1, h2}
    Collector = w
    Retriers = {r1, r2}
    MaxFaults = 2
    None = None
SPECIFICATION TriggerSpec
INVARIANTS
    DeliveryBuildsOnce
    DownstreamExplained
PROPERTIES
    TriggersSettle
CHECK_DEADLOCK FALSE
