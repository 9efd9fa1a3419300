SPECIFICATION Spec
CONSTANTS
    Definitions <- LargeDefinitions
    MaxObjects = 11
    MaxEdits = 1
    MaxFaults = 1
    MaxMeddling = 0
INVARIANTS
    RowsHoldTheirOwnObject
