SPECIFICATION Spec
CONSTANTS
    Processes = {p, q}
    Embedding = {p}
    Readers = {}
    Texts = {a, b}
    Evidence = {s}
    SearchAttempts = 3
    MaxInputs = 1
    MaxEntries = 2
    MaxRevisions = 4
SYMMETRY Symmetry
INVARIANTS
    ProjectionsFollowHead
    RevisionsReplay
    VersionsFormChains
