----------------------------- MODULE ReportSync -----------------------------
(***************************************************************************)
(* The report synchronization (internal/report/sync.go) between the        *)
(* scanner and the report history of every task: one goroutine runs cycles *)
(* by timer or on request; in a cycle the imports run concurrently. Scans  *)
(* go on and end meanwhile, reports disappear at the scanner, fetches and  *)
(* writes fail, and the process restarts.                                  *)
(***************************************************************************)
EXTENDS Snapshots

CONSTANTS
    Tasks,        \* scan tasks at the scanner
    MaxAttempts,  \* maxImportAttempts (5 in the code)
    Concurrency,  \* imports at a time
    MayLackEnd,   \* whether the report of an interrupted scan may lack its end
    MaxFaults,    \* bound: failed requests and writes, restarts, removed reports
    MaxRequests   \* bound: refreshes, annotations and removals by the operator

ASSUME SyncAssumption ==
    /\ IsFiniteSet(Tasks)
    /\ MaxAttempts \in Nat \ {0}
    /\ Concurrency \in Nat \ {0}
    /\ MayLackEnd \in BOOLEAN
    /\ MaxFaults \in Nat
    /\ MaxRequests \in Nat

VARIABLES
    scans,     \* the scanner's reports: [Tasks -> [Scans -> Content]]
    managed,   \* tasks that managed_resources knows
    rows,      \* report_snapshots, by task
    states,    \* finding_states, by task
    alerts,    \* scan failures in the audit journal, by task and report
    trigger,   \* a refresh is requested (channel of capacity 1)
    pc,        \* where the cycle is
    listing,   \* last report, its status, and whether it or its task has failed
    jobs,      \* imports of the cycle
    fetched,   \* reports fetched and not yet saved
    aborted,   \* a login was refused in this cycle
    waiting,   \* failed imports in backoff, in memory only
    seen,      \* history: ends of all reports imported with a finding, by task
    faults,    \* faults so far
    requests   \* requests so far

store == <<rows, states, alerts, seen>>
memory == <<pc, listing, jobs, fetched, aborted, waiting>>
counters == <<faults, requests>>
vars == <<scans, managed, store, trigger, memory, counters>>

JobKinds == {"none", "new", "retry", "fetched"}
Listed ==
    [last : 0 .. MaxScans, status : {"none", "running", "done", "interrupted"},
     failed : BOOLEAN]
NothingListed == [t \in Tasks |-> [last |-> 0, status |-> "none", failed |-> FALSE]]
NoJobs == [t \in Tasks |-> [n \in Scans |-> "none"]]
NothingFetched == [t \in Tasks |-> [n \in Scans |-> NoContent]]

TypeOK ==
    /\ scans \in [Tasks -> [Scans -> Content]]
    /\ managed \in SUBSET Tasks
    /\ rows \in [Tasks -> [Scans -> Row]]
    /\ \A t \in Tasks, n \in Scans :
           /\ rows[t][n].attempts <= MaxAttempts
           /\ rows[t][n].state = "imported" <=> rows[t][n].content # NoContent
    /\ states \in [Tasks -> [Fingerprints -> State]]
    /\ alerts \in [Tasks -> [Scans -> {"none", "open", "acknowledged"}]]
    /\ trigger \in BOOLEAN
    /\ pc \in {"idle", "listed", "importing"}
    /\ listing \in [Tasks -> Listed]
    /\ jobs \in [Tasks -> [Scans -> JobKinds]]
    /\ fetched \in [Tasks -> [Scans -> Content]]
    /\ aborted \in BOOLEAN
    /\ waiting \in SUBSET (Tasks \X Scans)
    /\ seen \in [Tasks -> [Fingerprints -> SUBSET Times]]
    /\ faults \in 0 .. MaxFaults
    /\ requests \in 0 .. MaxRequests

Init ==
    /\ scans = NothingFetched
    /\ managed = Tasks
    /\ rows = [t \in Tasks |-> [n \in Scans |-> NoRow]]
    /\ states = [t \in Tasks |-> [f \in Fingerprints |-> NoState]]
    /\ alerts = NoJobs
    /\ trigger = FALSE
    /\ pc = "idle"
    /\ listing = NothingListed
    /\ jobs = NoJobs
    /\ fetched = NothingFetched
    /\ aborted = FALSE
    /\ waiting = {}
    /\ seen = [t \in Tasks |-> [f \in Fingerprints |-> {}]]
    /\ faults = 0
    /\ requests = 0

Fault == faults < MaxFaults /\ faults' = faults + 1 /\ UNCHANGED requests
Request == requests < MaxRequests /\ requests' = requests + 1 /\ UNCHANGED faults

-----------------------------------------------------------------------------
(* The scanner *)

Visible(t) == {n \in Scans : scans[t][n].status \notin {"none", "gone"}}
Latest(t) ==
    IF Visible(t) = {} THEN 0 ELSE CHOOSE n \in Visible(t) : \A m \in Visible(t) : m <= n
LatestStatus(t) == IF Latest(t) = 0 THEN "none" ELSE scans[t][Latest(t)].status

StartScan(t, n) ==
    /\ LatestStatus(t) # "running"
    /\ scans[t][n].status = "none"
    /\ \A m \in Scans : m < n => scans[t][m].status # "none"
    /\ scans' = [scans EXCEPT ![t][n].status = "running"]
    /\ UNCHANGED <<managed, store, trigger, memory, counters>>

\* A scan ends by itself or because an operator stops it, which discovery does not
\* tell apart, or it is interrupted.
EndScan(t, n) ==
    /\ scans[t][n].status = "running"
    /\ \E found \in SUBSET Fingerprints :
           \/ scans' = [scans EXCEPT ![t][n] = [status |-> "done", end |-> n, found |-> found]]
           \/ \E end \in {n} \union (IF MayLackEnd THEN {0} ELSE {}) :
                  scans' = [scans EXCEPT ![t][n] =
                               [status |-> "interrupted", end |-> end, found |-> found]]
    /\ UNCHANGED <<managed, store, trigger, memory, counters>>

\* A resumed scan goes on in the same report.
ResumeScan(t, n) ==
    /\ n = Latest(t) /\ scans[t][n].status = "interrupted"
    /\ Request
    /\ scans' = [scans EXCEPT ![t][n].status = "running"]
    /\ UNCHANGED <<managed, store, trigger, memory>>

\* The scanner's own retention or its administrator removes a report.
LoseReport(t, n) ==
    /\ scans[t][n].status \in {"done", "interrupted"}
    /\ Fault
    /\ scans' = [scans EXCEPT ![t][n] = [NoContent EXCEPT !.status = "gone"]]
    /\ UNCHANGED <<managed, store, trigger, memory>>

-----------------------------------------------------------------------------
(* The operator *)

\* "Refresh reports".
Refresh ==
    /\ Request
    /\ trigger' = TRUE
    /\ UNCHANGED <<scans, managed, store, memory>>

\* The cleanup of a removed customer drops its managed_resources.
Release(t) ==
    /\ t \in managed
    /\ Request
    /\ managed' = managed \ {t}
    /\ UNCHANGED <<scans, store, trigger, memory>>

\* UpsertAnnotation: without a state the finding is not found.
Annotated(t, f) ==
    /\ states[t][f].known
    /\ states' = [states EXCEPT ![t][f].handled = ~@]

\* From the page of a report that has the finding,
Annotate(t, f) ==
    /\ \E n \in Imported(rows[t]) : f \in rows[t][n].content.found
    /\ Annotated(t, f)
    /\ Request
    /\ UNCHANGED <<scans, managed, rows, alerts, seen, trigger, memory>>

\* and from the Findings page, shown a while ago.
UpdateFindingState(t, f) ==
    /\ Annotated(t, f)
    /\ Request
    /\ UNCHANGED <<scans, managed, rows, alerts, seen, trigger, memory>>

\* OpenScanAlerts.
OpenAlerts == {report \in Tasks \X Scans : alerts[report[1]][report[2]] = "open"}

AcknowledgeScanAlert(t, n) ==
    /\ <<t, n>> \in OpenAlerts
    /\ Request
    /\ alerts' = [alerts EXCEPT ![t][n] = "acknowledged"]
    /\ UNCHANGED <<scans, managed, rows, states, seen, trigger, memory>>

-----------------------------------------------------------------------------
(* Starting a cycle *)

\* The report of a later scan is gone: the task's own status is that of that scan.
LostLatest(t) == \E n \in Scans : n > Latest(t) /\ scans[t][n].status = "gone"

\* What the scanner answers to get_tasks.
Listing(failing) ==
    [t \in Tasks |-> [last |-> Latest(t), status |-> LatestStatus(t),
                      failed |-> LatestStatus(t) = "interrupted" \/ t \in failing]]

\* syncOnce: a requested cycle rearms failed imports first. The scanner then
\* lists its tasks.
Begin(requested) ==
    /\ pc = "idle"
    /\ requested => trigger
    /\ trigger' = (trigger /\ ~requested)
    /\ rows' = IF requested THEN [t \in Tasks |-> ResetFailures(rows[t])] ELSE rows
    /\ waiting' = IF requested THEN {} ELSE waiting
    /\ \/ /\ pc' = "listed"
          /\ \E failing \in SUBSET {t \in Tasks : LostLatest(t)} : listing' = Listing(failing)
          /\ UNCHANGED counters
       \/ /\ Fault
          /\ UNCHANGED <<pc, listing>>
    /\ UNCHANGED <<scans, managed, states, alerts, seen, jobs, fetched, aborted>>

\* ResetFailedReportImports fails: the request is gone and nothing was rearmed.
BeginFails ==
    /\ pc = "idle" /\ trigger
    /\ Fault
    /\ trigger' = FALSE
    /\ UNCHANGED <<scans, managed, store, memory>>

-----------------------------------------------------------------------------
(* Discovery *)

\* importableStatus: whatever does not run.
Importable(status) == status \in {"done", "interrupted"}

\* failedScan: by the status of the last report, or else of the task.
FailedScan(t, n) == listing[t].last = n /\ listing[t].failed

\* Mutant of Alerted: only with the import of the report.
AlertedOnceImported(tasks) ==
    [t \in Tasks |-> [n \in Scans |->
        IF /\ t \in tasks \cap managed /\ FailedScan(t, n) /\ alerts[t][n] = "none"
           /\ rows[t][n].state = "imported"
        THEN "open" ELSE alerts[t][n]]]

\* RecordScanFailure: once for a report.
Alerted(tasks) ==
    [t \in Tasks |-> [n \in Scans |->
        IF t \in tasks \cap managed /\ FailedScan(t, n) /\ alerts[t][n] = "none" THEN "open"
        ELSE alerts[t][n]]]

IsNew(t, n) ==
    /\ t \in managed
    /\ listing[t].last = n /\ Importable(listing[t].status)
    /\ rows[t][n].state = "none"

IsRetry(t, n) == n \in Retryable(rows[t], MaxAttempts) /\ <<t, n>> \notin waiting

\* Mutant of Discovered: failed imports are left to the next scan.
DiscoveredNew == [t \in Tasks |-> [n \in Scans |-> IF IsNew(t, n) THEN "new" ELSE "none"]]

Discovered ==
    [t \in Tasks |-> [n \in Scans |->
        IF IsNew(t, n) THEN "new" ELSE IF IsRetry(t, n) THEN "retry" ELSE "none"]]

Discover ==
    /\ pc = "listed"
    /\ \/ /\ alerts' = Alerted(Tasks)
          /\ jobs' = Discovered
          /\ pc' = "importing"
          /\ UNCHANGED counters
       \/ \* a query fails after some tasks
          /\ Fault
          /\ \E tasks \in SUBSET Tasks : alerts' = Alerted(tasks)
          /\ pc' = "idle"
          /\ UNCHANGED jobs
    /\ listing' = NothingListed
    /\ UNCHANGED <<scans, managed, rows, states, seen, trigger, fetched, aborted, waiting>>

-----------------------------------------------------------------------------
(* Importing *)

InState(kinds) == {job \in Tasks \X Scans : jobs[job[1]][job[2]] \in kinds}
FreeSlot == Cardinality(InState({"fetched"})) < Concurrency

\* A request for the report of a queued job starts.
CanFetch(t, n) == pc = "importing" /\ jobs[t][n] \in {"new", "retry"} /\ FreeSlot

Fetch(t, n) ==
    /\ CanFetch(t, n)
    /\ scans[t][n].status # "gone"
    /\ jobs' = [jobs EXCEPT ![t][n] = "fetched"]
    /\ fetched' = [fetched EXCEPT ![t][n] = scans[t][n]]
    /\ UNCHANGED <<scans, managed, store, trigger, pc, listing, aborted, waiting, counters>>

\* The report cannot be fetched: the failure is recorded and backoff begins,
\* unless recording fails as well.
FetchFails(t, n) ==
    /\ CanFetch(t, n)
    /\ jobs' = [jobs EXCEPT ![t][n] = "none"]
    /\ \/ /\ IF jobs[t][n] = "new" /\ scans[t][n].status = "gone" THEN UNCHANGED counters
             ELSE Fault
          /\ rows' = [rows EXCEPT ![t] = RecordFailure(@, n)]
          /\ waiting' = waiting \union {<<t, n>>}
       \/ /\ Fault
          /\ UNCHANGED <<rows, waiting>>
    /\ UNCHANGED <<scans, managed, states, alerts, seen, trigger, pc, listing, fetched, aborted>>

\* A retry finds the report gone (404): its placeholder is dropped.
FetchFindsNothing(t, n) ==
    /\ CanFetch(t, n)
    /\ jobs[t][n] = "retry" /\ scans[t][n].status = "gone"
    /\ jobs' = [jobs EXCEPT ![t][n] = "none"]
    /\ \/ /\ rows' = [rows EXCEPT ![t] = DeleteFailure(@, n)]
          /\ waiting' = waiting \ {<<t, n>>}
          /\ UNCHANGED counters
       \/ /\ Fault
          /\ UNCHANGED <<rows, waiting>>
    /\ UNCHANGED <<scans, managed, states, alerts, seen, trigger, pc, listing, fetched, aborted>>

\* The login is refused: nothing is recorded and no further import starts.
LoginRefused(t, n) ==
    /\ CanFetch(t, n)
    /\ Fault
    /\ jobs' = [jobs EXCEPT ![t][n] = "none"]
    /\ aborted' = TRUE
    /\ UNCHANGED <<scans, managed, store, trigger, pc, listing, fetched, waiting>>

\* An import the cycle had not started when it was aborted.
Drop(t, n) ==
    /\ aborted /\ jobs[t][n] \in {"new", "retry"}
    /\ jobs' = [jobs EXCEPT ![t][n] = "none"]
    /\ UNCHANGED <<scans, managed, store, trigger, pc, listing, fetched, aborted, waiting,
                   counters>>

\* What an import adds to the history variable.
Noted(ends, history, n, content) ==
    IF history[n].state = "imported" THEN ends
    ELSE [f \in Fingerprints |-> ends[f] \union IF f \in content.found THEN {content.end} ELSE {}]

\* SaveReportSnapshot commits, or fails without leaving anything.
Save(t, n) ==
    /\ jobs[t][n] = "fetched"
    /\ jobs' = [jobs EXCEPT ![t][n] = "none"]
    /\ fetched' = [fetched EXCEPT ![t][n] = NoContent]
    /\ \/ /\ rows' = [rows EXCEPT ![t] = SavedRows(@, n, fetched[t][n])]
          /\ states' = [states EXCEPT ![t] = SavedStates(rows[t], @, n, fetched[t][n])]
          /\ waiting' = waiting \ {<<t, n>>}
          /\ seen' = [seen EXCEPT ![t] = Noted(@, rows[t], n, fetched[t][n])]
          /\ UNCHANGED counters
       \/ /\ Fault
          /\ UNCHANGED <<rows, states, seen, waiting>>
    /\ UNCHANGED <<scans, managed, alerts, trigger, pc, listing, aborted>>

\* All imports ended: unless the cycle was aborted old reports are removed.
Finish ==
    /\ pc = "importing" /\ jobs = NoJobs
    /\ \/ /\ ~aborted
          /\ rows' = [t \in Tasks |-> WithoutRows(rows[t], Expired(rows[t], states[t]))]
          /\ states' = [t \in Tasks |->
                           WithoutSnapshots(states[t], Expired(rows[t], states[t]))]
          /\ UNCHANGED counters
       \/ /\ IF aborted THEN UNCHANGED counters ELSE Fault
          /\ UNCHANGED <<rows, states>>
    /\ pc' = "idle"
    /\ aborted' = FALSE
    /\ UNCHANGED <<scans, managed, alerts, seen, trigger, listing, jobs, fetched, waiting>>

\* The backoff of a failed import ends.
BecomeDue(t, n) ==
    /\ <<t, n>> \in waiting
    /\ waiting' = waiting \ {<<t, n>>}
    /\ UNCHANGED <<scans, managed, store, trigger, pc, listing, jobs, fetched, aborted, counters>>

\* The process ends and starts again: backoff and requests are forgotten.
Restart ==
    /\ Fault
    /\ pc' = "idle" /\ listing' = NothingListed /\ jobs' = NoJobs /\ fetched' = NothingFetched
    /\ aborted' = FALSE /\ waiting' = {} /\ trigger' = FALSE
    /\ UNCHANGED <<scans, managed, store>>

-----------------------------------------------------------------------------
(* Specification *)

Cycle ==
    \/ \E requested \in BOOLEAN : Begin(requested)
    \/ BeginFails
    \/ Discover
    \/ Finish
    \/ \E t \in Tasks, n \in Scans :
           \/ Fetch(t, n)
           \/ FetchFails(t, n)
           \/ FetchFindsNothing(t, n)
           \/ LoginRefused(t, n)
           \/ Drop(t, n)
           \/ Save(t, n)

Scanner ==
    \E t \in Tasks, n \in Scans :
        \/ StartScan(t, n)
        \/ EndScan(t, n)
        \/ ResumeScan(t, n)
        \/ LoseReport(t, n)

Operator ==
    \/ Refresh
    \/ \E t \in Tasks : Release(t)
    \/ \E t \in Tasks, f \in Fingerprints : Annotate(t, f) \/ UpdateFindingState(t, f)
    \/ \E t \in Tasks, n \in Scans : AcknowledgeScanAlert(t, n)

Next ==
    \/ Cycle
    \/ Scanner
    \/ Operator
    \/ Restart
    \/ \E t \in Tasks, n \in Scans : BecomeDue(t, n)

Spec == Init /\ [][Next]_vars

\* The timer starts cycle after cycle, a cycle goes on, and time passes. Scans
\* and operators may stop.
FairSpec ==
    /\ Spec
    /\ WF_vars(Cycle)
    /\ \A t \in Tasks, n \in Scans : WF_vars(BecomeDue(t, n))
=============================================================================
