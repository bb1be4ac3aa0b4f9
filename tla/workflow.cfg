CONSTANTS
    r1 = r1
    r2 = r2
    a = a
    n = n
    None = None
    Runs = {r1, r2}
    Notes = {n}
    Existing = {a}
    Contents = {1, 2}
    Opened <- First
    Created = 1
    Keys = {"k"}
    Requests <- Asked
    MaxFaults = 1
SPECIFICATION Spec
INVARIANTS
    TypeOK
    VerifiedMeansDone
    EvidenceKept
    JournalIsSound
PROPERTIES
    EveryRunEnds
CHECK_DEADLOCK FALSE
