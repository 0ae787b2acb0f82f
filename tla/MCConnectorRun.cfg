SPECIFICATION FairSpec
CONSTANTS
    Runs = {r1}
    Workers = {w}
    Items = 3
    AwaitsRefusals = TRUE
    Absent = Absent
INVARIANTS
    CheckpointIsCovered
PROPERTIES
    CheckpointOnlyAdvances
    RunsEnd
