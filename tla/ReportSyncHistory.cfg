SPECIFICATION FairSpec
CONSTANTS
    Tasks = {t1}
    Fingerprints = {f1}
    MaxScans = 2
    Keep = 1
    MaxAttempts = 2
    Concurrency = 1
    MayLackEnd = TRUE
    MaxFaults = 2
    MaxRequests = 1
INVARIANTS
    CurrentIsNewest
    DatesSurviveExpiry
    RecurringOnBothPages
PROPERTIES
    NewestStay
    NotesSurvive
    ExposureMovesForward
    FinishedScansAreShown
    FailedScansAreAlerted
