SPECIFICATION Spec
CONSTANTS
    h1 = h1
    h2 = h2
    None = None
    DayLength = 3
    Week = 2
    Forms <- AllForms
    DefaultPolicy <- Early
    Handlers = {h1}
    MaxNow = 7
    MaxEdits = 1
    MaxRequests = 1
    MaxFaults = 2
INVARIANTS
    SchedulesAgree
PROPERTIES
    OncePerDate
    FeedsAreNotSkipped
    WindowsAreUsed
CHECK_DEADLOCK FALSE
