SPECIFICATION Spec
CONSTANTS
    Findings = {f1}
    BatchLimit = 2
    MaxChanges = 2
    MaxFailures = 1
PROPERTIES
    ClosedStaysClosed
\* With the integration disabled and the changes used up nothing happens any more.
CHECK_DEADLOCK FALSE
