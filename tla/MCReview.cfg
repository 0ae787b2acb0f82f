SPECIFICATION Spec
CONSTANTS
    Users = {u1, u2}
    Plain = {a}
    Packages = {k}
    Captured = captured
    MaxEvidence = 2
    MaxCandidates = 3
    MaxVersions = 3
    None = None
SYMMETRY Symmetry
INVARIANTS
    RevisionsAreApprovals
    ApprovedWhatWasRead
    RevisionsBuildOnTheLast
    IndexFollowsHeads
