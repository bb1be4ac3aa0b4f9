CONSTANTS
    c1 = c1
    c2 = c2
    c3 = c3
    png = png
    None = None
    apart = c3
    Calls = {c1, c2, c3}
    Keys = {"k", "other"}
    KeyOf <- OneKey
    Payloads = {"day", "dusk"}
    OutputOf <- OneOutput
    Files = {png}
    Faults = {"unready", "loss", "restart", "cancel"}
SPECIFICATION FairSpec
INVARIANTS
    TypeOK
    OnePromptPerKey
    CompletedHasItsPicture
    FailedIsHopeless
PROPERTIES
    ImplementsLedger
    EveryTaskEnds
