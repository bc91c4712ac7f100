CONSTANTS
    Savers = {s1, s2}
    Digests = {d1, d2}
    Lease = 1
    MaxFaults = 2
    None = None
SPECIFICATION CacheSpec
INVARIANTS
    EntryAvailable
PROPERTIES
    NewestClaimPublishes
    ClaimMovesOn
