SPECIFICATION Spec
CONSTANTS
    k1 = k1
    AdminKeys = {k1}
    Kinds = {"feed"}
    MaxOps = 3
    MaxDay = 2
    MaxVersion = 1
    MaxHistory = 1
    Retention = 1
    MaxFaults = 1
    MaxRequests = 1
    SaveMayFail = TRUE
INVARIANTS
    OneOperationAtATime
    ListedOperationsKeepTheirKey
