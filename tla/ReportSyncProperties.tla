------------------------ MODULE ReportSyncProperties ------------------------
(***************************************************************************)
(* What report synchronization must guarantee.                             *)
(***************************************************************************)
EXTENDS ReportSync

\* The findings shown for a task are exactly those of its newest imported
\* report, whatever order, retry, restart or retention the reports went through
\* (SaveReportSnapshot, PruneReportSnapshots, CurrentFindings).
CurrentIsNewest ==
    \A t \in Tasks :
        /\ Imported(rows[t]) = {} => \A f \in Fingerprints : ~states[t][f].present
        /\ \A n \in Scans : IsNewest(rows[t], n) =>
               /\ Shown(rows[t], states[t]) = rows[t][n].content.found
               /\ \A f \in Fingerprints :
                      states[t][f].present => f \in rows[t][n].content.found

\* First-seen dates are those of the earliest report ever imported with the
\* finding, last-seen dates of present findings those of the newest, also after
\* the reports in question expired. README.md:568: "first/last-seen dates ...
\* survive report expiry". The report pages look at the reports there are instead
\* and never show an earlier first date.
DatesSurviveExpiry ==
    \A t \in Tasks, f \in Fingerprints :
        /\ states[t][f].known <=> seen[t][f] # {}
        /\ states[t][f].known =>
               /\ states[t][f].first \in seen[t][f]
               /\ \A end \in seen[t][f] : states[t][f].first <= end
        /\ states[t][f].present => \A end \in seen[t][f] : end <= states[t][f].last
        /\ \A n \in Imported(rows[t]) : f \in rows[t][n].content.found =>
               states[t][f].first <= FirstSeen(rows[t], f)

\* A finding that the newest report's page calls recurring is not called new by
\* the Findings page, which compares dates instead of reports; reports without
\* an end apart.
RecurringOnBothPages ==
    \A t \in Tasks, n \in Scans :
        IsNewest(rows[t], n) /\ rows[t][n].content.end # 0 =>
            \A f \in rows[t][n].content.found :
                ReportLifecycle(rows[t], n, f) = "recurring" =>
                    FindingsLifecycle(states[t], f) = "recurring"

\* An imported report only leaves the history when enough newer ones stay
\* (retention.go:8: "retains the three newest imported snapshots").
NewestStay ==
    [][\A t \in Tasks, n \in Scans :
           n \in Imported(rows[t]) \ Imported(rows'[t]) =>
               Cardinality({m \in Imported(rows'[t]) : After(rows[t], m, n)}) >= Keep]_vars

\* What an operator noted about a finding stays until an operator changes it,
\* through absence, return, late reports and expiry. annotations.go:32: it
\* "survives across scans".
NotesSurvive ==
    [][\A t \in Tasks, f \in Fingerprints :
           /\ states[t][f].known => states'[t][f].known
           /\ states'[t][f].handled # states[t][f].handled => requests' # requests]_vars

\* The current findings, as Exposure describes them.
NewestEnd(t) ==
    IF Imported(rows[t]) = {} THEN 0
    ELSE rows[t][CHOOSE n \in Scans : IsNewest(rows[t], n)].content.end
CurrentExposure ==
    INSTANCE Exposure WITH
        shown <- [t \in Tasks |-> [end   |-> NewestEnd(t),
                                   found |-> Shown(rows[t], states[t])]]

\* Readers of the current findings see them change as a whole and never go back
\* to an older scan.
ExposureMovesForward == CurrentExposure!Spec

\* A finished scan that stays the last of its managed task is shown in the end,
\* unless a newer one is that the scanner has lost since, its imports failed as
\* often as they may and wait for the operator, or its report was imported when it
\* was interrupted and resumed later (sync.go:284: a report id is imported once).
FinishedScansAreShown ==
    \A t \in Tasks, n \in Scans :
        <>[](t \in managed /\ Latest(t) = n /\ LatestStatus(t) = "done") =>
        <>[](\/ NewestEnd(t) > n
             \/ IsNewest(rows[t], n) /\ Shown(rows[t], states[t]) = scans[t][n].found
             \/ rows[t][n].state = "failed" /\ rows[t][n].attempts = MaxAttempts
             \/ rows[t][n].state = "imported" /\ rows[t][n].content.status # "done")

\* An interrupted scan that stays the last of its managed task raises an alert,
\* which is open until it is acknowledged.
FailedScansAreAlerted ==
    \A t \in Tasks, n \in Scans :
        <>[](t \in managed /\ Latest(t) = n /\ LatestStatus(t) = "interrupted") =>
        <>[](<<t, n>> \in OpenAlerts \/ alerts[t][n] = "acknowledged")

\* A finding only becomes absent by the report of a scan that was done.
\* README.md:664: "An interrupted or failed scan does not prove that a finding
\* disappeared. Only a successfully imported newer snapshot can cause the
\* absence transition."
InterruptedScansProveNothing ==
    [][\A t \in Tasks, f \in Fingerprints :
           states[t][f].present /\ ~states'[t][f].present =>
               \E n \in Scans : IsNewest(rows'[t], n) /\ rows'[t][n].content.status = "done"]_vars
=============================================================================
