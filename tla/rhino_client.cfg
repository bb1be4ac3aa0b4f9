CONSTANTS
    c1 = c1
    c2 = c2
    o1 = o1
    None = None
    Calls = {c1, c2}
    Others = {o1}
    Keys = {"k"}
    KeyOf <- OneKey
    Payloads = {"p", "q", "eval"}
    Forbidden = {"eval"}
    Attempts = 2
    Faults = {"cancel", "restart", "reopen", "error"}
    MaxEnds = 1
SPECIFICATION Spec
INVARIANTS
    TypeOK
    RunsAgainOnlyBlind
    ReceiptsAreTheDocuments
PROPERTIES
    CheckpointHasWhatWasTold
    EveryCallEnds
