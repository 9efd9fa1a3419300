SPECIFICATION Spec
CONSTANTS
    Space = 16
    Sizes <- PowersOfTwo
    Block = 2
    Private <- MiddleIsPrivate
    Special <- EdgesAreSpecial
    Limit = 5
    MaxExpanded = 7
    MaxTargets = 3
    MaxInputs = 2
INVARIANTS
    PlanScansTheScope
    TargetsStayInLimit
    DiagnosticsAreExact
    HostRangesAreExact
\* A plan is built once.
CHECK_DEADLOCK FALSE
