SPECIFICATION FairSpec
CONSTANTS
    k1 = k1
    AdminKeys = {k1}
    Kinds = {"check", "stack"}
    MaxOps = 2
    MaxDay = 1
    MaxVersion = 2
    MaxHistory = 1
    Retention = 1
    MaxFaults = 2
    MaxRequests = 1
    SaveMayFail = FALSE
INVARIANTS
    InterruptedUpgradeIsRecoverable
    RolledBackStaysPaused
PROPERTIES
    RolledBackMeansRestored
    FileIsOperationLog
    AcceptedOperationsConclude
