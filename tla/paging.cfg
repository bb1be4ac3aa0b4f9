CONSTANTS
    Ids = {1, 2, 3, 4, 5, 6, 7}
    Documents <- Initial
    Cap = 2
    PageSize = 3
    MaxObjects = 4
    ReadLimit = 6
    GivesTotal = TRUE
    MaxEdits = 2
SPECIFICATION FairSpec
INVARIANTS
    TypeOK
    IndexIsWhole
    ReadsInOrder
PROPERTIES
    ReadEnds
