SPECIFICATION FairSpec
CONSTANTS
    p1 = p1
    p2 = p2
    content1 = content1
    usage = usage
    worker = worker
    x = x
    text = text
    plain = plain
    None = None
    Processes = {p1, p2}
    NativeRefs = {content1}
    WorkerRefs = {worker}
    EvidenceRefs = {content1}
    Payloads = {x}
    Versions = {1}
    Fingerprints = {text, plain}
    TextFingerprints = {text}
    Conforming <- MCConforming
    Limit = 2
    Scheduled = {p1}
    MaxWrites = 1
    MaxFailures = 1
INVARIANTS
    JournalDecodes
    HandedOverOnce
PROPERTIES
    CursorMovesOverItsWindow
    ImplementsConsumer
    IncubationConsumes
    EvidenceIsFlushed
