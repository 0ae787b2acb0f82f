SPECIFICATION FairSpec
CONSTANTS
    None = None
    Callers = {c1, c2}
    Clients = {c1, c2}
    Workers = {w1, w2}
INVARIANTS
    PoolOutlivesWork
    CloseDrains
    SessionOutlivesCalls
PROPERTIES
    ClosedIsNotReady
    ReadinessReturns
