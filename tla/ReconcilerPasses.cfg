SPECIFICATION FairSpec
CONSTANTS
    Definitions <- GrowingDefinitions
    MaxObjects = 11
    MaxEdits = 2
    MaxFaults = 2
    MaxMeddling = 1
INVARIANTS
    TypeOK
    RowsHoldTheirOwnObject
    ShownIsInPlace
    RemovedMeansTrashed
    NoSecondObject
PROPERTIES
    ForeignObjectsStay
    SettlesUnlessGone
