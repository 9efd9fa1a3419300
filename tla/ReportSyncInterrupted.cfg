SPECIFICATION Spec
CONSTANTS
    Tasks = {t1}
    Fingerprints = {f1}
    MaxScans = 2
    Keep = 1
    MaxAttempts = 2
    Concurrency = 1
    MayLackEnd = FALSE
    MaxFaults = 0
    MaxRequests = 0
PROPERTY
    InterruptedScansProveNothing
