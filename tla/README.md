# Verification of openvasconf

TLA+ specifications of openvasconf, TLC configurations that check them on small
instances, and TLAPS proofs of the results that should hold for every instance.
Paths below are relative to the repository. Every definition that models code is
listed in `PROJECT.json` under `map` with the lines it stands for.

openvasconf is a single-administrator service that keeps the scanner Greenbone in
the state its SQLite database describes. Its parts that are modelled:

| part | acts on | keeps in | modules |
|---|---|---|---|
| update helper | Docker, the Greenbone database | one JSON file | `Updater`, `OperationLog` |
| update schedule | the update helper | two copies of the policy, the helper's dates and keys | `UpdateSchedule` |
| reconciler | schedules, targets and tasks of gvmd | checkpoint rows in SQLite | `Reconciler` |
| ticket outbox | Hookwise, which opens and closes tickets | outbox rows in SQLite | `Tickets` |
| report sync | nothing, it reads reports from gvmd | snapshots and finding states in SQLite | `ReportSync`, `Snapshots`, `Exposure` |
| network planner | nothing, it computes targets | nothing | `NetworkPlan`, `NetworkAnalysis` |
| customer editing | nothing | customers in SQLite, signed reviews in browsers | `CustomerEdits` |

Helper, reconciler, outbox and report sync have the same hard problem: another system that
cannot be put into a transaction with their own storage, and a crash, a lost answer or
another actor between an effect and its record. The schedule has to be right on every date,
the planner for every list of networks, and editing for every interleaving of requests.

## 1. Inventory

### Components and their interactions

* **Update helper** (`internal/updater`, `cmd/openvasconf-updater`). A process of its
  own with access to Docker. State: `Controller.state` in memory (policy, active
  operation, history, idempotency keys, pause, last feed and stack dates) and the same
  as a file. Operations: `Trigger` for a check, feed refresh or stack upgrade (by the
  API or by the schedule loop), `Configure`, `Acknowledge`, one goroutine per
  operation, recovery of an interrupted operation at start, shutdown. The web service
  calls it over a Unix socket (`client.go`, `server.go`) and keeps a copy of the
  policy in SQLite (`store/updater.go`). Hard: several goroutines share one state and
  each saves all of it; crashes at any point of an upgrade; saves that fail.
  Correct means: one operation works at a time, every operation gets one outcome,
  an interrupted upgrade is restored, and automation pauses until it was reviewed.
* **Reconciler** (`internal/reconcile`, `internal/store/resources.go`). For every
  customer it creates, modifies and deletes a schedule, targets and tasks at gvmd,
  writing a checkpoint row for each. It is triggered by timer, edits and the web
  interface and runs one pass at a time. Hard: answers that are lost, checkpoints that
  are not written, edits during a pass, objects in use, somebody else at the scanner.
  Correct means: no object twice, no foreign object touched, `applied` and `deleted`
  are true when shown.
* **Customer and settings store** (`internal/store/customers.go`, `settings.go`).
  Customers with networks and a reconciliation status, soft deletion, a revision that
  edits compare. The reconciler reads it and writes the status.
* **Network planner** (`internal/networkplan`). A pure function from networks to
  targets: overlaps removed, addresses classified, packed up to the scanner's limit. The
  review page warns of duplicates and overlaps, and the reconciler merges the prefixes of
  a target into host ranges. Hard: nested, repeated and touching networks, limits met
  exactly. Correct means: a plan scans what was entered, each address once, in targets
  within the limit.
* **Scanner client** (`internal/gmp`). XML requests to gvmd. The reconciler uses
  `FindResource`, `ResourceComment` and the create, modify and delete requests.
* **Report sync** (`internal/report/sync.go`) and **report snapshot store**
  (`internal/store/reports.go`, `findings.go`, `annotations.go`). Finished reports are
  imported once per report; the newest report of a task defines the current findings
  (`finding_states`), operators classify them, retention removes old ones. Hard:
  reports that come late, twice, or out of order; retries and their limits; refused
  logins. Correct means: the current findings are those of the newest report, dates and
  notes outlive the reports, and no finished scan is forgotten.
* **Ticket outbox** (`internal/store/hookwise.go`, `internal/hookwise/manager.go`).
  One dispatcher goroutine compares findings with the tickets they should have, queues
  open and close events in SQLite and delivers them to Hookwise with retries. Hard:
  refused and lost deliveries, changes while events are under way, restarts. Correct
  means: events reach Hookwise in order, none is forgotten, none is invented.
* **Scan alerts** (`internal/store/scan_alerts.go`). Failed scans, found by report sync and
  acknowledged by hand.
* **Sessions and login** (`internal/auth`, `internal/store/auth.go`). Password,
  sessions with absolute and idle expiry, logout everywhere.
* **Web editing** (`internal/web`). Forms, confirmation of edits with signed review
  tokens and revisions; triggers of everything above. Hard: two requests at once, reads in
  two queries, confirmations that are repeated or come late. Correct means: an edit
  replaces what its review showed, and a deletion is final.
* **Import and export** (`internal/customer/portable.go`, `internal/store/import.go`). One document,
  checked, matched with the customers there are, and applied in one transaction.
* **Rendering and configuration**: formatting; environment variables.

`PROJECT.json` has the same list with the sources and status of each component, and
under `hazards` what is hard to test in them, line by line.

### What is not modelled

* Sessions and login: each operation is one statement on one row, and the password is
  rotated before the server starts, so there is no order of steps to get wrong.
* Rendering, templates, configuration, command lines, XML, HTTP framing, validation of
  single fields, encryption of the Hookwise token and logs: they keep no state that the
  properties are about. Parsing and fingerprints of a report are abstracted to the set of
  findings it contains.
* Listing, filtering, paging and trends of stored reports: queries that change nothing.
* Daylight saving time: a zone of the update policy is an offset.
* Expiry dates of accepted risks, and the limit of 200 customers in a listing.

## 2. The update helper

`Updater.tla` has one action per locked section of the code. In the code every change
is "lock; change; unlock; `saveState`"; the save is a step of its own (`dirty`,
`WorkerSave`, `TriggerSave`, `RequestSave`), so that other goroutines and crashes come
between change and save, and a save publishes whatever the others have changed.

| model | code |
|---|---|
| `mem`, `durable` | `Controller.state`, the state file |
| `pc`, `dirty`, `local` | position, pending save and local variables of each operation's goroutine |
| `TriggerAdmin`, `TriggerSave`, `TriggerWithdraw` | `Trigger`, with the withdrawal after a failed save |
| `CheckSchedule`, `TriggerScheduled` | `checkSchedule`, which decides on a copy of the state |
| `Execute`, `Check`, `FeedStep`, `StackStep` | `execute`, `runCheck`, `runFeed`, `runStack` |
| `ScansActive`, `ScansIdle`, `Defer` | `waitForScans` |
| `RollbackStep`, `RecoverStep`, `Start` | `rollback`, `recoverInterrupted`, `Start` |
| `Stop`, `Exit`, `Crash` | shutdown, which cancels the context, and the end of the process |
| `running`, `pulled`, `db`, `dumps` | images, tags, database and dumps that `compose.go` acts on |

Docker and PostgreSQL are modelled by what the commands do to four values. A stack is a
version; while services are recreated they are `Mixed`. A migration may have happened
when an upgrade fails. History variables (`recorded`, `doubt`, `unreviewed`) remember
what was true before an upgrade; no guard reads them.

`OperationLog.tla` is the abstract specification: operations open one at a time, an
open operation gets one outcome, an outcome is never revised. `FileIsOperationLog`
says that the state file, read through `DurableStatus`, implements it.

| run | shows | bounds |
|---|---|---|
| `updater_crash` | An interrupted upgrade is recoverable at every moment; `rolled-back` means images and database are those from before, and automation stays paused until acknowledged; the file implements `OperationLog`, and what it has shown gets an outcome in it. | two operations (checks or upgrades), two crashes or shutdowns, history of one |
| `updater_saves_fail` | One operation works at a time and a listed operation keeps its idempotency key, when any save may fail. | three feed refreshes, by hand or of one of two dates, one request that saves, one crash or shutdown |

Why these bounds: two operations are the least for one to disturb another; two faults
are the least to interrupt a recovery; a history of one makes every second outcome push
the first one out; one retained dump makes pruning bite at once; two versions make an
upgrade differ from what ran. With a key of the administrator and those of two dates there are
more keys than a history of one retains, so trimming happens. A feed refresh leaves no phase that
recovery rolls back from, so `updater_crash` does without it: an interrupted check is recovered
in the same way. The properties about interrupted upgrades assume saves that succeed: with a
lost save of `applying` the code promises nothing.

Fairness of `FairSpec`: every goroutine is scheduled and every call returns or meets the
operation's deadline (`WF` of `Progress`); polling for scans may go on, but the deadline
ends it (`SF` of `StopsWaiting`); a container is restarted (`WF` of `Start`) and a
stopped one exits once its goroutines are done (`SF` of `Exit`: its server accepts no
further request). Nothing is assumed about requests, schedules, crashes or the clock.

### The schedule

`Updater` leaves the clock and the policy open: any date may be due that has not been
completed. `UpdateSchedule.tla` has them, and in turn takes the helper's steps as durable,
because `Updater` covers what fails between them.

| model | code |
|---|---|
| `stored`, `pending`, `notice` | the policy in SQLite, the handlers that have stored one and not yet sent it, the answer of the last one |
| `helper` | policy, active operation, keys, dates and pause of `persistentState` |
| `SavePolicy`, `ApplyPolicy`, `AppStarts` | `updatesSettings`, `Configure`, the start of the application |
| `CheckSchedule`, `TriggerScheduled` | `checkSchedule`, which decides on a copy, and its `Trigger` |
| `TriggerAdmin`, `Acknowledge` | the administrator |
| `Begin`, `PollScans`, `TimeOut`, `Conclude` | `execute`, `waitForScans`, the deadline, `finish` and `recordScheduleCompletion` |
| `Crash`, `Start` | the helper's process, with `recoverInterrupted` |
| `Pass` | time |

Time passes in slots. The schedule loop looks every minute and scans are polled every 30
seconds, so a slot stands for a few minutes: `SlotDone` lets it end only when a running helper
has looked, has triggered what it decided, has polled, and has ended what is past its deadline. A
date is a number, with Monday as day 1 of a policy and the last day of the week as 0 of
`Time.Weekday`. Keys are never forgotten: the code trims them after 100 operations, and no
date sees that many.

| run | shows | bounds |
|---|---|---|
| `update_schedule` | The times that are shown are those that are triggered; the schedule begins a date once; neither a day nor a window of an idle helper passes unused, except as the properties say; an upgrade is deferred exactly when its window is over. | seven slots of days of three, weeks of two days, three forms, one save, one operation or acknowledgement by hand, two crashes or restarts |

Why these bounds: seven slots hold both weekdays, and the first of them twice; three slots hold
a feed before or after a window, a window to the end of the day, and a refresh that passes
midnight; the second form moves the zone by a slot, so a save repeats or skips a date at any
moment, and the third one is refused. Nothing is left to do when the clock stops, so this
run does not look for deadlocks. There is no fairness: `Pass` waits for what takes less
than a slot, and everything is said of the slot that ends.

The properties say what the code does guarantee, and each names a case in which it gives less
than the page for updates offers. `FeedsAreNotSkipped` counts a date as done by a refresh that
was begun the day before and passed midnight (`controller.go:663`), `WindowsAreUsed` gives up a
window behind a refresh of the same date that failed (`controller.go:313`), and `SchedulesAgree`
speaks of a deferral until the weekday of the policy comes again: then `scheduledWindowExpired`
takes a wait of a week for one that has not reached its window (`controller.go:767`), which the
limit of 12 hours on an operation (`types.go:97`) keeps out of reach. An upgrade that waits for scans may begin after its window, for the
window is looked at only while scans are active (`controller.go:520`).

## 3. The reconciler

`Reconciler.tla` models one customer: customers share neither rows nor markers, and a
mutex admits one pass at a time. Every call to gvmd and every write to SQLite is a step.

| model | code |
|---|---|
| `desired`, `status` | the customer's row and networks, `reconciliation_status` |
| `rows` | `managed_resources`: state, gvmd id, desired hash |
| `objects` | what lives at the scanner, with its comment, from which ownership is read |
| `Begin`, `LoadNetworks`, `MarkSyncing` | loading, in two queries, and the first status write |
| `Apply`, `RecoverByMarker`, `CheckOwner`, `Modify`, `Create`, `Checkpoint` | `applyDesired`, `applyResource` |
| `Release`, `FindVictim` | `releaseTaskForTargetChange`, `replaceChangedTask`, `removeManagedTask` |
| `Cleanup`, `CheckVictim`, `Delete`, `DropRow` | `cleanupSurplus`, `cleanupCustomer`, `deleteResource` |
| `Finish`, `Fail` | the final status |
| `Edit`, `SoftDelete` | `UpdateCustomer`, `SoftDeleteCustomer` |
| `CallFails`, `Crash`, `RetentionFails`, the faults of `Modify`, `Create`, `Delete` | errors, lost answers, restarts |
| `Meddle` | somebody deletes or re-comments an object at the scanner |

A desired hash is the content it is computed from. A marker is its key, and `Shows`
keeps what matters of comparing markers as substrings: a sequence number matches every
number that begins with it. Targets are of one class, because each class is numbered on
its own and stands in the marker before the number. gvmd is external; from how the code treats it the model
takes that it refuses to delete or change an object in use, to create a task with a dead
target or schedule, and answers for unknown ids with `ErrNotFound`.

| run | shows | bounds |
|---|---|---|
| `reconciler` | No object in two rows, no second one for a row; `applied` means that what the pass loaded is in place; removal is true; objects that lost their marker between passes stay; once edits and faults are over, passes end without error with the definition that stands. | three definitions (one or two targets), two edits, two faults, one of which may be a change at the scanner |
| `reconciler_markers` | Violation, see findings. | targets 1 and 10, one edit, one fault |

Why these bounds: the definitions add a target, change what target, task and schedule
consist of, and drop the target; two edits visit all three, come back to the first or delete
in between; two faults interrupt a pass and its repetition. `reconciler_markers` uses targets
1 and 10 and leaves out 2 to 9, whose markers are no prefix of another one.

The passing run allows every edit, edits back to an earlier definition included. What the code
does not keep is named in the properties, and nothing else is left out:

* `ShownIsInPlace` says what `applied` does stand for: the definition that the pass loaded
  (`shown`), not the one that stands now, whose `pending` the end of the pass overwrites
  (`reconciler.go:360`). Every resource of it is
  checkpointed, exists once and names the live target and schedule. Its values are those
  of the definition unless it is `unrecorded`: modified behind an applied row, with
  a checkpoint that was lost, which an edit back hides (`reconciler.go:667`). It speaks of what nobody else has
  changed at the scanner.
* `NoSecondObject` and `SettlesUnlessGone` leave out `orphans`, objects that the next pass will not
  look for: that of a row without an id, which is dropped without a look at the scanner, and
  that of a row with the id of a former, gone object whose checkpoint was lost
  (`LosesCheckpoint`): a marker is only looked for when a row has no id.
* `SettlesUnlessGone` has one more exception, `GoneButApplied`: a removal is interrupted before its
  row is dropped, and an edit brings the resource back; the row says applied, the object is
  gone, and every later pass fails at it (a task, `reconciler.go:550`) or passes it over.

Fairness: `WF` of the pass, because the timer starts one in every interval and every
call has a deadline.

## 4. The ticket outbox

`Tickets.tla` models the findings of one scan task of one customer, the outbox, the
dispatcher and the last event Hookwise accepted for every ticket. A ticket is a finding
and a generation.

| model | code |
|---|---|
| `row` | `finding_states`: presence, severity, triage, `ticket_desired_open`, generation, shown state |
| `outbox` | `hookwise_outbox` in the order of its ids, unique by finding, generation and type |
| `BeginPass`, `Reconcile` | `DispatchOnce` up to and with `ReconcileHookwiseOutbox`, one transaction |
| `LoadBatch` | `PendingHookwiseEvents` |
| `SendAccepted`, `SendRefused`, `AnswerLost` | one delivery and what becomes of it |
| `MarkDelivered`, `MarkFailed` | `MarkHookwiseDelivered`, `MarkHookwiseFailed` |
| `PassEnds` | a database error or a restart: the batch is forgotten |
| `BackoffEnds` | `next_attempt_at` comes |
| `Retry`, `RetryFinding`, `RecreateFinding` | the administrator's requests |
| `Import`, `Annotate`, `EditRoute`, `DeleteCustomer`, `SaveSettings` | everything that changes eligibility between two steps |

| run | shows | bounds |
|---|---|---|
| `tickets` | Rows say what was queued last; each generation is opened once and closed once, in the queue's order; delivered means accepted; nothing delivered is sent again; the outbox drains and every finding ends with the ticket it should have, in its row and at Hookwise. | two findings, three changes, one failure, batches of one |
| `tickets_order` | Violation, see findings. | one finding, two changes, one failure |

Why these bounds: an import, a classification or recreation and a reopening are three
changes, enough for a second generation with a close between; with batches of one the
second finding's event waits over a pass; the one failure falls on any send or write.
There is no symmetry reduction, which would be unsound for the liveness properties. With
the integration disabled and the changes used up
nothing happens any more, so these runs do not look for deadlocks.

Fairness: `WF` of the dispatcher, which a ticker wakes every 30 seconds and whose
deliveries have a timeout, and of the end of each backoff, because time passes. Both
liveness properties speak of the time after the last change and failure.
`TicketsFollowFindings` asks the row of a finding and what Hookwise was told last of its
ticket (`Told`): a ticket that is not wanted is not open there. Two things are left out: deleted
customers, whose tickets stay as they are, and a ticket whose open was overtaken by its
close (`Overtaken`), which is the finding of `tickets_order`.

## 5. The report history

`Snapshots.tla` has the statements and transactions on the rows of one scan task as
operators; `ReportSync.tla` has the cycles that use them, the scanner and the operator.
Scans of a task are numbered, and the n-th ends at time n: a report's end is the only date
that the code orders by.

| model | code |
|---|---|
| `rows` | `report_snapshots`: state, attempts, id, and the contents of the report |
| `states` | `finding_states`: presence, first and last date, last snapshot, whether an operator handled it |
| `SavedRows`, `SavedStates` | `SaveReportSnapshot` with `reconcileFindingStatesTx` and `reconcileHistoricalFindingStatesTx`, one transaction |
| `RecordFailure`, `ResetFailures`, `DeleteFailure`, `Retryable` | `RecordReportImportFailure` and what follows from it |
| `Expired`, `WithoutRows`, `WithoutSnapshots` | `PruneReportSnapshots` with the foreign key |
| `Shown`, `FirstSeen`, `ReportLifecycle`, `FindingsLifecycle` | what the pages compute |
| `Begin`, `BeginFails`, `Discover` | the start of a cycle, by timer or request, with its query of the scanner, and `discover` |
| `Fetch`, `FetchFails`, `FetchFindsNothing`, `LoginRefused`, `Drop`, `Save` | the concurrent imports; a refused login ends the cycle |
| `Finish` | the end of a cycle and retention |
| `BecomeDue`, `waiting` | the backoff, kept in memory only |
| `StartScan`, `EndScan`, `ResumeScan`, `LoseReport` | the scanner: scans are done, interrupted, resumed in the same report, or their report disappears |
| `Refresh`, `Release`, `Annotate`, `UpdateFindingState`, `AcknowledgeScanAlert`, `Restart` | the operator and restarts |

`Exposure.tla` is the abstract specification for readers of current findings, the Findings
page and the tickets: a task's findings change as a whole and only to those of a scan that
did not end before. `ExposureMovesForward` says that the rows, read as `CurrentFindings`
does, implement it.

| run | shows | bounds |
|---|---|---|
| `reports_history` | Current findings are those of the newest import; first and last dates survive expiry; the two pages agree on recurring findings; only superseded reports expire; notes stay; `Exposure` is implemented; finished scans are shown and interrupted ones alerted in the end. | one task, one finding, two scans, one report kept (three in the code), two attempts, one import at a time, two faults, one request |
| `reports_interrupted` | Violation, see findings. | no faults, no requests |

Why these bounds: two scans are the least for a report to come late, to replace another or
to expire, and with one kept retention acts on the first chance; two faults use up the
attempts, or interrupt a retry; reports may lack an end (`MayLackEnd`), which sorts them
before all others. Tasks share no rows, so one task shows what any task may do; the model
has a set of them because a cycle lists and fails for all at once.

Fairness: `WF` of the cycle, which a timer starts again and again and whose requests have a
timeout, and of each backoff's end, because time passes. Scans and operators may stop.
`FinishedScansAreShown` names the exceptions: a newer report that the scanner lost since,
attempts used up, and a report imported when its scan was interrupted.

A task's own status is only looked at when its last report has not failed (`failedScan`). It
can say something else when the report of its last scan is gone; then the model lets it be any
(`LostLatest`), so that a report which was done may raise an alert.

## 6. The network planner

`NetworkPlan.tla` runs `Build` round by round: `Expand` and `NextInput` are
`parseAndExpand`, with the growing blocks of `parseRange`; `Keep` and `Skip` are
`removeOverlaps`, with coverage as one number; `Classify`; `Add`, `Flush`, `EndClass` and
`EndPlan` are `pack`. An address is a number, a CIDR a start and a size, and every input is
a range. The sizes of address space, /24 block, limit and classes are constants.
`NetworkAnalysis.tla` adds `Analyze`, with what its loop remembers as a function of the
block it visits, and `gmpHostSpecifications`, as a recursion over addresses in place of
sorted prefixes, and the properties, which speak of sets of addresses instead of prefixes.

| run | shows | bounds |
|---|---|---|
| `network_plan` | A plan scans exactly what was entered, each address once, no special one, private and public ones apart; targets count right, stay within the limit and have their own number; warnings are given exactly for networks that share addresses; host ranges are exact and fewest. | every list of up to two ranges in 16 addresses, blocks of two, at most five addresses in a target, seven prefixes, three targets |

Why these bounds: 16 addresses hold four sizes of prefixes above a block and every relation
of two ranges (apart, touching, nested, crossing, equal); the limit of five is met exactly
and not at all multiples of the block; both limits of rejection are reached. The proofs of
section 8 remove the bounds for all four properties.

## 7. Customer editing

`CustomerEdits.tla` has the requests of the web interface that change definitions. Each
query and each transaction is a step, and a handler remembers what it read in `requests`.

| model | code |
|---|---|
| `customers` | rows of `customers` with networks, revision and deletion |
| `tokens` | signed reviews: edits with the revision they were compared with, imports |
| `PreviewNew`, `ReadRow`, `ReadNetworks`, `Preview` | the review of a form; a customer is read in two queries |
| `ConfirmNew`, `CheckRevision`, `SaveConfirmed` | `customerCreate`, `customerUpdate` with `UpdateCustomer` |
| `Randomize`, `Clone`, `Delete` | the buttons, with `SoftDeleteCustomer` |
| `ImportPreview`, `ImportApply`, `ImportOne` | review and application of a document |
| `Expire`, `Restart` | reviews end after 15 minutes, or with the key that signs them |

| run | shows | bounds |
|---|---|---|
| `customer_edits` | A review that would be accepted was compared with the definition that stands; deletions are final; a revision names one definition. | two customers, two handlers, two documents, revisions up to three, one review at a time, one restart |
| `edits_stale` | Violation, see findings. | one customer, three forms, two handlers, two reviews, no imports |

Why these bounds: two handlers are the least for a race, and two customers for a name that
is taken or a document that touches both; one review can be confirmed twice, late, or by
both handlers. One weekly slot is enough, for what matters of randomizing is the definition
it writes back. Handlers are symmetric: they are identities without an order. When all
revisions are used nothing may be left to do, so these runs do not look for deadlocks.

A document also carries settings, which `ApplyImport` writes first in the same transaction
(`store/import.go:25-36`). They are left out: no definition of a customer depends on them.

## 8. Proofs

TLAPS proves the following for every value of the constants, from nothing but the
named assumptions of each module; a theorem that needs more says so in its `ASSUME`. A module
`XProofs` proves about `X` and `XProperties`. `NaturalRecursion` has what several of them need of
recursive functions.

| theorem | says |
|---|---|
| `UpdaterProofs!TypeCorrect` | the helper's state keeps its type; no history outgrows `MaxHistory` |
| `UpdaterProofs!OneAtATime` | no two operations are between acceptance and outcome |
| `UpdaterProofs!KeysStay` | a retried request finds the listed operation of its key |
| `UpdaterProofs!StaysPaused` | a listed rollback has paused automation until it is acknowledged |
| `UpdaterProofs!FileIsLog` | where saves succeed the state file implements `OperationLog` |
| `UpdaterProofs!Recoverable` | where saves succeed an interrupted upgrade finds in the file what a rollback needs |
| `UpdaterProofs!RestoredIsTrue` | where saves succeed `rolled-back` means services and database are those from before |
| `ReconcilerProofs!TypeCorrect` | rows, objects and the pass keep their types; an applied row has an id |
| `ReconcilerProofs!ForeignStay` | an object that lost its marker between passes is not touched |
| `ReconcilerProofs!NoTwins` | a row has at most one object that reconciliation can know of |
| `ReconcilerProofs!OwnObjects` | with distinct markers no two rows hold one live object |
| `ReconcilerProofs!RemovedAreTrashed` | with distinct markers nothing a row has known is left when a removal is shown as done |
| `ReconcilerProofs!AppliedStands` | with distinct markers, `applied` means that what the pass loaded is checkpointed and in place, but for values whose checkpoint was lost |
| `UpdateScheduleProofs!TypeCorrect` | policies and the helper keep their types; no window in force passes midnight |
| `UpdateScheduleProofs!OnceForADate` | the schedule begins an operation of a kind once for a date |
| `UpdateScheduleProofs!NoFeedIsSkipped` | a day of an idle helper had its refresh begun or completed |
| `UpdateScheduleProofs!NoWindowIsMissed` | a window of an idle helper had its upgrade, or stood behind an unfinished refresh |
| `UpdateScheduleProofs!CalendarsAgree` | the times shown are those at which the loop triggers, and an upgrade is deferred exactly when its window is over |
| `TicketsProofs!TypeCorrect` | the outbox and rows keep their types; no generation without a change that earned it |
| `TicketsProofs!RowsFollow` | the row of a finding says what was queued for it last |
| `TicketsProofs!DeliveredOnlyIfAccepted` | only events that Hookwise accepted last for their ticket are marked |
| `TicketsProofs!NeverDeliveredTwice` | nothing marked is sent again |
| `TicketsProofs!GenerationsLiveOnce` | a ticket is opened once, in a generation of its own, and closed at most once and right after |
| `ReportSyncProofs!TypeCorrect` | history, jobs and counters keep their types; attempts stay within their limit |
| `ReportSyncProofs!NewestIsShown` | the findings shown for a task are those of its newest imported report |
| `ReportSyncProofs!DatesSurvive` | first and last dates are those of all reports ever imported |
| `ReportSyncProofs!PagesAgree` | what the report page calls recurring the Findings page does not call new |
| `ReportSyncProofs!NotesAreKept` | only operators change notes, and no finding is forgotten |
| `ReportSyncProofs!NewestReportsStay` | a report only expires when `Keep` newer ones stay |
| `ReportSyncProofs!ExposureIsImplemented` | `ReportSync` implements `Exposure` |
| `NetworkPlanProofs!ScopeIsScanned` | a plan scans what was entered, each address in one target of its class |
| `NetworkPlanProofs!LimitIsKept` | targets count right, stay within the limit and have their own numbers |
| `NetworkPlanProofs!ReviewIsExact` | the review warns of an input exactly if it shares addresses with another one |
| `NetworkPlanProofs!ScannerGetsTheTargets` | host ranges are the addresses of a target, sorted and apart |
| `CustomerEditsProofs!TypeCorrect` | customers, reviews and requests keep their types, revisions their bound |
| `CustomerEditsProofs!ReviewsAreCurrent` | a review that would be accepted was compared with the definition that stands |
| `CustomerEditsProofs!DeletedStays` | nothing changes or brings back a deleted customer |
| `CustomerEditsProofs!RevisionsName` | a definition never changes under its revision, and revisions do not go back |

**Updater.** `OneOperationAtATime` is not inductive: it does not say what keeps a second
operation out. `WorkInv` does: a goroutine that may still run commands works on the
active operation, which has no outcome yet, and a helper that is down has no goroutine.
`Trigger` then finds the helper busy. One lemma per group of steps shows that `TypeOK`
and `WorkInv` are kept; failing saves, crashes and shutdowns are among them.

The steps of a goroutine are grouped by their `Effect` on lists, pause and file, so that each of
the other invariants has few cases. `ListsInv` says that an operation that is accepted is in no
list and one that is open in no history (`OpenInv`), and that a listed operation is found by its
key (`KeysInv`); without `OpenInv` a withdrawal could take the key of another one. `PauseInv`
follows a rollback from its pause to its entry. `LogInv` bounds how far memory is ahead of
the file: by nothing, by the outcome of what the file shows as open, by one operation
accepted since, or by both (`Ahead`). `UpgradeInv` follows the dump: what a goroutine
past its save has in the file (`OnFileInv`), what an upgrade has collected before it applies
(`PreparedInv`), that the newest dump is never pruned (`HostInv`), and what memory, file, goroutine
and services agree on once they change (`DoubtInv`). `FileIsLog`, `Recoverable` and `RestoredIsTrue`
assume `~SaveMayFail`, as their run does: the save of `applying` is best effort
(`controller.go:724`), and an acceptance whose save fails is withdrawn from the log.

**Reconciler.** `PassInv` says what each place of a pass has at hand: something to apply, an id
or none, and no row beyond the definition once it finishes. Lemmas say what each action does
to rows and objects (`InsertEffect` to `DropEffect`), and what the quiet ones, which change
neither, may do to the pass (`Moves`). On these rest the invariants. `ForeignInv`: what
lost its marker has none until the end, and no pass is about to touch it. `HeldInv`: the row that is
worked on holds what was found, or nothing alive. `TwinsInv`: while a pass works on a row
everything with its marker is what was found, and nothing is left when it comes to create.
`MarkersInv`: what a row holds, or a pass has found for it, has that marker or none, and nobody else
holds it. This one needs `UniqueMarkers`, that no marker is found in another one, as with up to nine
targets of a class; without it the property is false (`reconciler_markers`).

`AppliedStands` takes five more. `AliveInv`: an object that an applied row holds is what the row
says, or is `unrecorded`, or is the one whose checkpoint is about to be written (`Behind`); and what
is about to be recorded is there. `ProcessedInv`: what is not on the list of a pass any more is
unchanged and its task alive; the list is in order (`PlanIsOrderly`), so whatever is released or
dropped comes later. `UsesInv`: a live task names the live target and schedule of their
rows, which therefore cannot be deleted. `LoadedInv`: a pass works on a definition with targets.
`AppliedInv` keeps the rows and tasks until the next pass; `InPlaceInv` is all of these with
those above, from which the result follows. Nothing is assumed about edits: a row that an edit back makes match again is either what
its object is, or its object is `unrecorded`.

**Update schedule.** `PoliciesInv` says that every copy of the policy is valid, also those on
their way. `BegunInv` ties history to keys: what the schedule began has its date among
the keys, and keys are never removed, so a date cannot be begun twice; only `TriggerScheduled`
adds one. `LookInv` is the bridge from what was read to what is true later: after a
look at an idle helper nothing has moved as long as `looked` says so, so that the decision still
stands or its key is used. At the end of the slot no decision is left, and the two theorems
about days and windows follow from `FeedDue` and `StackDue` being false or the key
being there.

`CalendarsAgree` is about arithmetic only. A quotient and a remainder are unique (`OnlyQuotient`), so a time is
its date and minute (`AtIsTheTime`, `TimeIsKnown`) and a date its week and weekday (`DaysAhead`). What Status shows
a slot ahead is then any time of the right minute, and weekday (`FeedTimes`, `StackTimes`); that a window
ends before midnight, which `Validate` demands, makes it follow from its start (`WindowFollowsStart`), and
so does its end (`ExpiryFollowsStart`): on the date of the start by the minute, and on the days after it
because no other day of a week has its weekday.

**Tickets.** `IInv` has five parts. `RowsFollowTheQueue` is disturbed by a step that
changes a row and finds its event in the outbox already, for then nothing is queued.
`NextEventsAreMissing` excludes that: no event in the outbox is one that its row could
queue next. `PassHoldsPendingEvents` says that a batch names each of its events once,
all pending, so that marking the head leaves the rest pending, and that between an
accepted delivery and its mark Hookwise has that event. `GenerationsAreEarned` bounds
generations by changes, which type correctness needs: the model numbers generations up
to `MaxChanges`. `QueuedAndShown` carries the two steps that queue, `NothingQueued` and
`PassUndisturbed` the others. The order of new events is any order of a finite set
(`OrdersOfFiniteSet`, `EnqueueAppends`).

`OneLifePerGeneration` is about the order of events that have long been delivered. `LifeInv`
adds that later events of a finding have later generations or close the same one
(`EventsInOrder`), and that a ticket that is wanted and shown as open was delivered
(`ShownAsDelivered`), which is why a recreation may begin a generation without a close.

**Report history.** `CurrentIsNewest` is not inductive: it forgets the order in which
reports came. `HistoryInv` of one task says more. `RowsInv`: rows have ids of their own, so
that ends and ids order the imported reports totally (`OrderIsTotal`), an end is that of
its scan or missing, and what an imported report found counts as seen. `StatesInv`: a finding
is known exactly if it was seen, since the earliest time, and what is not known has no note.
`Decides`: the newest report decides what is present, and nothing was seen later. There is
a lemma for each statement of the store about one task (`SaveKeepsHistory`,
`PruneKeepsHistory`, ...), which also says what becomes of the newest report: it is replaced
by the one saved, which did not end earlier, or stays. `CycleInv` is about the
steps between: a job names a report that exists or did, with an end of its own, and a retry
finds the row it was made for, which bounds attempts. The theorems
about dates, pages and current findings follow from `IInv`, those about notes and the refinement
from what each statement does. `NewestStay` needs no invariant: of the reports that
expire with one, the newest has only reports before it that stay, and at least `Keep`.

**Network planner.** `AddressAssumption` says that sizes divide each other and blocks fit
into the limit, `ClassAssumption` that private and special space consist of whole blocks, which is
why looking at the ends of a prefix is enough. The lemma `Aligned` carries the rest: two
prefixes are nested or apart. `PlanInv` has a part for each loop. `ExpandInv`: the prefixes
cover the inputs before `at`. `OverlapsInv`: what was kept is apart and, with what is left,
covers the same; the last kept prefix begins before everything left, so a prefix that
begins within `covered` ends within it. `KeptInv` holds that result for packing. `PackInv`
and `TargetsAre`: targets, the one being filled and what is left are a partition of what was
kept, `held` counts the addresses, and sequence numbers of finished targets are lower.

`BlocksInv` adds what the review needs: blocks lie in their input, cover it, and are apart from the others of one
input. The loop of `Analyze` remembers one block, the first that reaches farthest. `EarlierIsNamed` says why
that is enough: a block that shares addresses with a later one either is the block remembered then or is itself
warned of. For host ranges `RangesHold` is the invariant of the loop over the addresses of a target
(`MergedHolds`): so far the ranges are sorted, apart and what was visited.

**Customer editing.** `RowsGoOn` says of every step that rows stay or get a later revision, and that deleted
ones stay as they are; revisions and deletions follow from it. For an import this is about every item of a document, whose
recursion is shown to have a value by the least counterexample (`HasRun`). `TokensAreBased` and `RequestIsBased` say that
what a review or a request remembers of a row is still true, unless the row has a later revision; hence a
review whose revision matches shows what stands.

**Recursive functions.** The library's induction theorems take an operator as a parameter and
cannot be used. `NaturalRecursion` gets what is needed from well-foundedness of `<`: a set of numbers has
a least element, what goes from each number to the next holds up to any, and a function defined by recursion
over an interval exists and is the only one (`LeastElement`, `UpTo`, `RecursionOverInterval`).
Imports, the order of a reconciler's plan, the overlaps of a review and host ranges are proved with it.

**Only model-checked:** liveness, which needs fairness and `ENABLED`. Every safety property of a passing
run is a theorem; those that assume more than the constants' assumptions are named above.

## Findings

Four runs end in a counterexample on purpose: each checks a sentence of the
repository that the code does not keep. `PROJECT.json` quotes the sentences.

1. `reconciler_markers` (`gmp/resources.go:366`): markers are compared as substrings and
   end with the sequence number, so the marker of target 1 is found in that of target 10.
2. `tickets_order` (`store/hookwise.go:504`): an open that waits for its backoff does not
   hold back its close; it is delivered afterwards and the ticket stays open.
3. `reports_interrupted` (`report/sync.go:383`): the report of an interrupted scan is
   imported as any other, and findings that it did not reach become absent.
4. `edits_stale` (`web/customers.go:215`): the revision of a confirmed edit is compared before the
   update and not in it, so that an edit saved in between is overwritten by a stale one.

Other disagreements have no run of their own. They are the named exceptions of the properties of
passing runs, and notes of the hazards in `PROJECT.json`: those of the schedule (section 2), and

* a pass ends with `applied` whatever was saved since it began (`reconciler.go:360`), so an edit is
  shown as applied before anything of it is checkpointed, until the next pass (against
  README.md:353);
* nothing is written before an object is modified (`reconciler.go:705`), so after a lost
  checkpoint an edit back counts as unchanged and is shown as applied over an object with the
  other values (against README.md:404-405), the `unrecorded` of `ShownIsInPlace`;
* an object whose checkpoint was lost is not found again when its row has the id of a
  former one (`reconciler.go:699-722`, against README.md:405-407), an orphan of `NoSecondObject`;
* of two policies saved at the same time one may be stored and the other applied, and both requests
  answer that theirs was saved and applied (`web/updates.go:59` and `:235`): nothing is
  claimed of the two copies.

Weaknesses that no document denies are hazards too: a failed recovery
publishes its outcome before it pauses (`controller.go:594`), and a row without an id is dropped
without looking for its object (`reconciler.go:859`).

## 9. Plan

Done, in this order: `Updater` and `OperationLog`; `Reconciler`; `Tickets`; `Snapshots`, `ReportSync` and
`Exposure`; `NetworkPlan` and `NetworkAnalysis`; `CustomerEdits`; `UpdateSchedule`. Every safety
property of theirs that a passing run checks is proved.

Next module: the composition of `ReportSync` and `Tickets`: its `Save` in place of the free `Import`,
with acceptances of risk that expire.

Next theorems: that the composition keeps the properties of both parts.

## Running

    tlc -config UpdaterCrash.cfg MCUpdater
    tlapm UpdaterProofs.tla

`PROJECT.json` names the module and configuration of each run, the properties it checks, and
for each property a mutated definition (marked `Mutant` in the modules) under which TLC
finds it violated.
