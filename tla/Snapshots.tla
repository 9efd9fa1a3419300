------------------------------ MODULE Snapshots ------------------------------
(***************************************************************************)
(* The report history of one scan task in SQLite                           *)
(* (internal/store/reports.go, findings.go, annotations.go, retention.go): *)
(* rows of report_snapshots, the finding states derived from them, and the *)
(* queries of the report pages. Every operator is one statement or one     *)
(* transaction on the rows and states of a single task.                    *)
(***************************************************************************)
EXTENDS Naturals, FiniteSets

CONSTANTS
    Fingerprints,  \* identities of findings of a task
    MaxScans,      \* bound: reports of a task
    Keep           \* imported reports kept for a task (3 in the code)

ASSUME HistoryAssumption ==
    /\ IsFiniteSet(Fingerprints)
    /\ MaxScans \in Nat
    /\ Keep \in Nat \ {0}

Scans == 1 .. MaxScans
Times == 0 .. MaxScans  \* the n-th scan of a task ends at n; 0: no end in its report

Content ==
    [status : {"none", "running", "done", "interrupted", "gone"},
     end    : Times,
     found  : SUBSET Fingerprints]
NoContent == [status |-> "none", end |-> 0, found |-> {}]

\* A row of report_snapshots; "none": there is none for the report.
Row ==
    [state    : {"none", "failed", "imported"},
     attempts : Nat,
     id       : Nat,
     content  : Content]
NoRow == [state |-> "none", attempts |-> 0, id |-> 0, content |-> NoContent]

\* A row of finding_states.
State ==
    [known    : BOOLEAN,
     present  : BOOLEAN,
     first    : Times,    \* first_seen_at
     last     : Times,    \* last_seen_at
     snapshot : Times,    \* report of last_snapshot_id, 0: NULL
     handled  : BOOLEAN]  \* an operator's disposition or remediation state
NoState ==
    [known |-> FALSE, present |-> FALSE, first |-> 0, last |-> 0,
     snapshot |-> 0, handled |-> FALSE]

-----------------------------------------------------------------------------
(* Order of the history *)

Imported(rows) == {n \in Scans : rows[n].state = "imported"}

\* Mutant of After: ORDER BY id alone.
AfterById(rows, a, b) == rows[a].id > rows[b].id

\* a comes after b in ORDER BY scan_end_at, id. A report without an end has the
\* empty text there and comes first.
After(rows, a, b) ==
    \/ rows[a].content.end > rows[b].content.end
    \/ rows[a].content.end = rows[b].content.end /\ rows[a].id > rows[b].id

NewerImports(rows, n) == {m \in Imported(rows) : After(rows, m, n)}
IsNewest(rows, n) == n \in Imported(rows) /\ NewerImports(rows, n) = {}

\* AUTOINCREMENT: above the ids of all rows there are. Only their order is read.
FreshId(rows) ==
    CHOOSE i \in {rows[n].id + 1 : n \in Scans} : \A n \in Scans : rows[n].id < i

-----------------------------------------------------------------------------
(* Saving and removing rows *)

\* RecordReportImportFailure: an imported row is left alone.
RecordFailure(rows, n) ==
    CASE rows[n].state = "failed"   -> [rows EXCEPT ![n].attempts = @ + 1]
      [] rows[n].state = "none"     -> [rows EXCEPT ![n] = [state |-> "failed", attempts |-> 1,
                                                            id |-> FreshId(rows),
                                                            content |-> NoContent]]
      [] rows[n].state = "imported" -> rows

\* ResetFailedReportImports.
ResetFailures(rows) ==
    [n \in Scans |-> IF rows[n].state = "failed" THEN [rows[n] EXCEPT !.attempts = 0]
                     ELSE rows[n]]

\* DeleteFailedReportImport.
DeleteFailure(rows, n) ==
    [rows EXCEPT ![n] = IF rows[n].state = "failed" THEN NoRow ELSE rows[n]]

\* The row SaveReportSnapshot leaves: a failed one keeps its id and attempts.
SavedRows(rows, n, content) ==
    IF rows[n].state = "imported" THEN rows
    ELSE [rows EXCEPT ![n] =
             [state    |-> "imported",
              attempts |-> rows[n].attempts,
              id       |-> IF rows[n].state = "failed" THEN rows[n].id ELSE FreshId(rows),
              content  |-> content]]

\* Mutant of CurrentStates: a finding that returns starts a new life.
CurrentStatesAnew(states, n, content) ==
    [f \in Fingerprints |->
        IF f \in content.found
        THEN [known |-> TRUE, present |-> TRUE, last |-> content.end, snapshot |-> n,
              first   |-> IF states[f].present THEN states[f].first ELSE content.end,
              handled |-> states[f].present /\ states[f].handled]
        ELSE [states[f] EXCEPT !.present = FALSE]]

\* reconcileFindingStatesTx: the newest report decides what is present.
CurrentStates(states, n, content) ==
    [f \in Fingerprints |->
        IF f \in content.found
        THEN [known    |-> TRUE,
              present  |-> TRUE,
              first    |-> IF states[f].known THEN states[f].first ELSE content.end,
              last     |-> content.end,
              snapshot |-> n,
              handled  |-> states[f].handled]
        ELSE [states[f] EXCEPT !.present = FALSE]]

\* Mutant of HistoricalStates: a known finding keeps its dates.
HistoricalStatesOfUnknown(states, n, content) ==
    [f \in Fingerprints |->
        IF f \in content.found /\ ~states[f].known
        THEN [known |-> TRUE, present |-> FALSE, first |-> content.end,
              last |-> content.end, snapshot |-> n, handled |-> FALSE]
        ELSE states[f]]

\* reconcileHistoricalFindingStatesTx: an older report only moves first dates.
HistoricalStates(states, n, content) ==
    [f \in Fingerprints |->
        CASE f \notin content.found -> states[f]
          [] f \in content.found /\ ~states[f].known ->
                 [known |-> TRUE, present |-> FALSE, first |-> content.end,
                  last |-> content.end, snapshot |-> n, handled |-> FALSE]
          [] f \in content.found /\ states[f].known ->
                 [states[f] EXCEPT !.first = IF content.end < @ THEN content.end ELSE @]]

\* Mutant of SavedStates: every import is taken for the newest.
SavedStatesUnordered(rows, states, n, content) ==
    IF rows[n].state = "imported" THEN states ELSE CurrentStates(states, n, content)

\* The states SaveReportSnapshot leaves, in the same transaction.
SavedStates(rows, states, n, content) ==
    IF rows[n].state = "imported" THEN states
    ELSE IF NewerImports(SavedRows(rows, n, content), n) = {}
         THEN CurrentStates(states, n, content)
         ELSE HistoricalStates(states, n, content)

\* Mutant of Expired: one report too many.
ExpiredOneMore(rows, states) ==
    {n \in Imported(rows) :
        /\ Cardinality(NewerImports(rows, n)) + 1 >= Keep
        /\ \A f \in Fingerprints : ~(states[f].present /\ states[f].snapshot = n)}

\* PruneReportSnapshots: all but the newest, unless a present finding needs them.
Expired(rows, states) ==
    {n \in Imported(rows) :
        /\ Cardinality(NewerImports(rows, n)) >= Keep
        /\ \A f \in Fingerprints : ~(states[f].present /\ states[f].snapshot = n)}

WithoutRows(rows, gone) == [n \in Scans |-> IF n \in gone THEN NoRow ELSE rows[n]]

\* last_snapshot_id REFERENCES report_snapshots(id) ON DELETE SET NULL.
WithoutSnapshots(states, gone) ==
    [f \in Fingerprints |-> IF states[f].snapshot \in gone THEN [states[f] EXCEPT !.snapshot = 0]
                            ELSE states[f]]

-----------------------------------------------------------------------------
(* Queries of the report pages *)

\* PendingReportRetries.
Retryable(rows, limit) == {n \in Scans : rows[n].state = "failed" /\ rows[n].attempts < limit}

\* CurrentFindings: it joins the snapshot, so a state without one is not shown.
Shown(rows, states) ==
    {f \in Fingerprints :
        /\ states[f].present /\ states[f].snapshot \in Imported(rows)
        /\ f \in rows[states[f].snapshot].content.found}

\* FirstSeenForTask: over the snapshots there are.
FirstSeen(rows, f) ==
    LET ends == {rows[n].content.end : n \in {m \in Imported(rows) : f \in rows[m].content.found}}
    IN CHOOSE e \in ends : \A other \in ends : e <= other

\* PreviousImportedSnapshot: the one just before, if any.
IsPrevious(rows, p, n) ==
    /\ p \in Imported(rows) /\ After(rows, n, p)
    /\ \A m \in Imported(rows) : After(rows, n, m) => m = p \/ After(rows, p, m)

\* Classify.
Lifecycle(older, newer, f) ==
    CASE f \in older \cap newer -> "recurring"
      [] f \in newer \ older    -> "new"
      [] f \in older \ newer    -> "resolved"

\* reportRows: the page of a report compares it with the one before.
ReportLifecycle(rows, n, f) ==
    LET before == {p \in Scans : IsPrevious(rows, p, n)}
    IN Lifecycle(UNION {rows[p].content.found : p \in before}, rows[n].content.found, f)

\* The Findings page compares dates.
FindingsLifecycle(states, f) == IF states[f].first = states[f].last THEN "new" ELSE "recurring"
=============================================================================
