CONSTANTS
    c1 = c1
    c2 = c2
    q1 = q1
    png = png
    None = None
    apart = None
    Calls = {c1, c2}
    Queries = {q1}
    Keys = {"k"}
    KeyOf <- OneKey
    Payloads = {"render", "move"}
    Scripts <- MCScripts
    Files = {png}
    Rollback = FALSE
    ChecksAnswers = TRUE
    ReadAttempts = 2
    Faults = {"unreadable", "scriptError", "textError", "loss", "cancel", "external"}
    MaxEdits = 1
SPECIFICATION FairSpec
INVARIANTS
    TypeOK
    CallersOfAKeyAgree
    RepeatOnlyAfterCancel
    StatusTellsWhatRan
    
PROPERTIES
    ImplementsLedger
    RunsOnItsRevision
    RefusedForOthersOutput
    EveryTaskEnds
