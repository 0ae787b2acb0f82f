SPECIFICATION CacheSpec
CONSTANTS
    Holders = {h1, h2, h3}
    Scopes = {s1, s2, s3}
    Addresses = {a1, a2}
    Capacity = 2
    None = None
INVARIANTS
    LeasePinsEntry
    OverCapacityOnlyPinned
PROPERTY ImplementsMutex
