SPECIFICATION Spec
CONSTANTS
    Processes = {p}
    Embedding = {p}
    Readers = {r}
    Texts = {a, b}
    Evidence = {s}
    SearchAttempts = 2
    MaxInputs = 2
    MaxEntries = 3
    MaxRevisions = 2
SYMMETRY Symmetry
INVARIANTS
    SearchIsExact
    
    VectorRowsAreTracked
