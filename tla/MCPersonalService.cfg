SPECIFICATION Spec
CONSTANTS
    None = None
    Processes = {p1, p2, p3}
    Registrations = {r1, r2, r3}
SYMMETRY Symmetry
INVARIANTS
    TaskHasArtifact
    RestoreIsExact
    OutcomeIsWhole
PROPERTY DeletedTasksAreEnded
