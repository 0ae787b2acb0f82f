SPECIFICATION Spec
CONSTANTS
    Holders = {t1, p}
    Processor = p
    Closers = {c1}
    Scopes = {s1}
    Addresses = {a1}
    Capacity = 1
    None = None
    NumResources = 2
INVARIANT AdmittedWorkHasResources
