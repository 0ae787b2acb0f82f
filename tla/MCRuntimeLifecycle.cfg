SPECIFICATION FairSpec
CONSTANTS
    Holders = {t1, t2, p}
    Processor = p
    Closers = {c1}
    Scopes = {s1}
    Addresses = {a1}
    Capacity = 1
    None = None
    NumResources = 2
INVARIANTS
    DrainIsExact
    TeardownIsQuiet
    ClosedIsFinal
PROPERTIES
    CallsReturn
    CloseReturns
