CONSTANTS
    c1 = c1
    c2 = c2
    c3 = c3
    i0 = i0
    i1 = i1
    i2 = i2
    i3 = i3
    a0 = a0
    a1 = a1
    None = None
    Calls = {c1, c2}
    Queries = {}
    Visits = {}
    KindOf <- Kinds
    SavedScene <- Saved
    v1 = v1
    v2 = v2
    v3 = v3
    Keys = {"k"}
    KeyOf <- OneKey
    other = None
    Payloads = {"post"}
    Unmapped = {}
    Commands <- MCCommands
    Ids = {i0, i1, i2, i3}
    InitialObjects = {i0, i1}
    Aliases = {a0, a1}
    Faults = {"unreadable", "cancel"}
    MaxEdits = 0
    MaxObjects = 5
SPECIFICATION Spec
INVARIANTS
    NeverRepeatsGeometry
