SPECIFICATION FairSpec
CONSTANTS
    Findings = {f1, f2}
    BatchLimit = 1
    MaxChanges = 3
    MaxFailures = 1
INVARIANTS
    RowsFollowTheQueue
    OneLifePerGeneration
PROPERTIES
    DeliveredWasAccepted
    NoRepeatedDelivery
    Drains
    TicketsFollowFindings
\* With the integration disabled and the changes used up nothing happens any more.
CHECK_DEADLOCK FALSE
