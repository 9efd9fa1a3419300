------------------------------- MODULE Updater -------------------------------
(***************************************************************************)
(* The update helper (internal/updater/controller.go): API requests, the   *)
(* schedule loop, one goroutine per operation and the recovery goroutine   *)
(* share one in-memory state, saved as a whole to one file.                *)
(*                                                                         *)
(* Every state change in the code is "lock; change; unlock; saveState".    *)
(* A step below is one locked change together with the runtime calls that  *)
(* precede it; the save that follows is a step of its own (dirty), so      *)
(* other goroutines, crashes and failing saves come in between.            *)
(*                                                                         *)
(* Phase stands for Operation.State and Operation.Phase together: the code *)
(* sets Phase = string(State) on the terminal states and the two           *)
(* non-terminal states follow from the phase.                              *)
(***************************************************************************)
EXTENDS Naturals, Sequences, FiniteSets

CONSTANTS
    AdminKeys,    \* idempotency keys that API requests carry
    Kinds,        \* kinds of operation a run considers
    MaxOps,       \* bound: operations ever accepted
    MaxDay,       \* bound: days the clock reaches
    MaxVersion,   \* bound: versions the registry publishes
    MaxHistory,   \* maxHistory, 100 in the code
    Retention,    \* Policy.BackupRetention
    MaxFaults,    \* bound: crashes and shutdowns
    MaxRequests,  \* bound: Acknowledge and Configure requests saving at once
    SaveMayFail   \* whether StateStore.Save may return an error

ASSUME ConstantsAssumption ==
    /\ AdminKeys # {}
    /\ Kinds \subseteq {"check", "feed", "stack"}
    /\ MaxOps \in Nat \ {0}
    /\ MaxDay \in Nat \ {0}
    /\ MaxVersion \in Nat \ {0}
    /\ MaxHistory \in Nat \ {0}
    /\ Retention \in Nat \ {0}
    /\ MaxFaults \in Nat
    /\ MaxRequests \in Nat
    /\ SaveMayFail \in BOOLEAN

-----------------------------------------------------------------------------
Ops == 1 .. MaxOps                    \* Operation.ID, in order of acceptance
NoOp == 0
Days == 1 .. MaxDay
Keys == AdminKeys \union ({"feed", "stack"} \X Days)
Triggers == {"admin", "scheduled"}

None == 0                             \* no images, no dump
Mixed == MaxVersion + 1               \* services of different versions
Images == 0 .. MaxVersion + 1

TerminalPhases == {"succeeded", "degraded", "rolled-back", "failed", "cancelled"}
Phases == TerminalPhases \union
    {"queued", "waiting-for-scans", "preflight", "checkpoint", "staging",
     "pulling", "applying", "importing", "verifying", "rolling-back", "cleanup"}

\* The phases recoverInterrupted rolls back from.
ChangingPhases == {"applying", "verifying", "rolling-back"}

Terminal(phase) == phase \in TerminalPhases

Operation == [id : Ops \union {NoOp}, phase : Phases, before : Images]
NoOperation == [id |-> NoOp, phase |-> "cancelled", before |-> None]

\* persistentState. Policy, Images and Feeds are display or configuration
\* data that no step below depends on; the clock and the policy decide only
\* whether a schedule is due, which is left open.
State ==
    [paused : BOOLEAN, active : Operation, backup : Ops \union {NoOp},
     history : Seq([id : Ops, phase : TerminalPhases]),
     idem : [Keys -> Ops \union {NoOp}],
     feedDate : Days \union {0}, stackDate : Days \union {0}]

EmptyState ==
    [paused |-> FALSE, active |-> NoOperation, backup |-> NoOp, history |-> <<>>,
     idem |-> [k \in Keys |-> NoOp], feedDate |-> 0, stackDate |-> 0]

\* Where a goroutine of an operation stands: the step it takes next.
Pcs ==
    {"idle", "saving", "withdraw", "start", "complete", "fail", "done",
     "scans", "deferred", "preflight", "checkpoint", "backup", "staging", "pull",
     "compare", "cleanup", "unchanged", "apply", "applying", "verifying", "verify",
     "record", "prune",
     "rollback", "restore", "restoring", "reverify", "finish-restored",
     "check", "check-saved",
     "feed-preflight", "feed-pulling", "feed-pull", "feed-compare", "feed-apply",
     "feed-importing", "feed-import", "feed-cleanup",
     "recover", "recover-restore", "recover-restoring", "recover-pause",
     "finish-recovered", "recover-stop"}

\* Saves whose error the code returns instead of only logging it.
StrictSaves == {"staging", "check-saved"}

\* Steps whose runtime or scanner call may return an error that ends the
\* operation without a rollback. waitForScans ends this way at its deadline.
FalliblePcs ==
    {"scans", "preflight", "backup", "pull", "unchanged", "check",
     "feed-preflight", "feed-pull", "feed-apply"}

Request == [kind : Kinds, trigger : Triggers, key : Keys]
Doubt == [op : Ops \union {NoOp}, image : Images, db : Images, settled : BOOLEAN]
NoDoubt == [op |-> NoOp, image |-> None, db |-> None, settled |-> FALSE]

VARIABLES
    up,          \* the helper process: "up", "stopping" (context done) or "down"
    mem,         \* Controller.state
    durable,     \* the state file
    pc, dirty,   \* per operation: next step, and whether a save comes first
    local,       \* per operation: what its goroutine remembers
    request,     \* per operation: Kind, Trigger and IdempotencyKey
    issued,      \* operations accepted so far
    requests,    \* Acknowledge and Configure requests that still have to save
    tick,        \* what checkSchedule has decided to trigger, if anything
    today,       \* the date
    running,     \* images the Greenbone services run
    pulled,      \* images the service tags name on this host
    db,          \* version whose schema and data the database holds
    dumps,       \* backup directory: database version per operation, or None
    faults,      \* crashes and shutdowns so far
    \* History variables; no guard depends on them.
    recorded,    \* operations that the file has ever shown
    doubt,       \* what the services were before an upgrade not yet concluded on disk
    unreviewed   \* operations that rolled back since the last acknowledgement

controller == <<mem, pc, dirty, local, request, issued, requests, tick>>
host == <<running, pulled, db, dumps>>
ghosts == <<recorded, doubt, unreviewed>>
vars == <<up, mem, durable, pc, dirty, local, request, issued, requests, tick,
          today, running, pulled, db, dumps, faults, recorded, doubt, unreviewed>>

NoTick == [kind |-> "none", key |-> CHOOSE k \in AdminKeys : TRUE]
NoRequest == [kind |-> "none", trigger |-> "admin", key |-> CHOOSE k \in AdminKeys : TRUE]
NoLocal == [before |-> None, backup |-> NoOp, cancelled |-> FALSE]

TypeOK ==
    /\ up \in {"up", "stopping", "down"}
    /\ mem \in State
    /\ durable \in State
    /\ pc \in [Ops -> Pcs]
    /\ dirty \in [Ops -> BOOLEAN]
    /\ local \in [Ops -> [before : Images, backup : Ops \union {NoOp}, cancelled : BOOLEAN]]
    /\ request \in [Ops -> Request \union {NoRequest}]
    /\ issued \in 0 .. MaxOps
    /\ requests \in Nat
    /\ tick \in {NoTick} \union [kind : Kinds, key : Keys]
    /\ today \in Days
    /\ running \in Images
    /\ pulled \in Images
    /\ db \in Images
    /\ dumps \in [Ops -> Images]
    /\ faults \in Nat
    /\ recorded \subseteq Ops
    /\ doubt \in Doubt
    /\ unreviewed \subseteq Ops
    /\ \A s \in {mem, durable} : Len(s.history) <= MaxHistory

Init ==
    /\ up = "down"
    /\ mem = EmptyState
    /\ durable = EmptyState
    /\ pc = [o \in Ops |-> "idle"]
    /\ dirty = [o \in Ops |-> FALSE]
    /\ local = [o \in Ops |-> NoLocal]
    /\ request = [o \in Ops |-> NoRequest]
    /\ issued = 0
    /\ requests = 0
    /\ tick = NoTick
    /\ today = 1
    /\ running = 1
    /\ pulled = 1
    /\ db = 1
    /\ dumps = [o \in Ops |-> None]
    /\ faults = 0
    /\ recorded = {}
    /\ doubt = NoDoubt
    /\ unreviewed = {}

-----------------------------------------------------------------------------
(* The state file *)

\* saveState, seen from the change that precedes it: the whole current state
\* replaces the file, or Save fails and the file keeps the older one.
Persist(saved) ==
    /\ saved \/ SaveMayFail
    /\ durable' = IF saved THEN mem ELSE durable
    /\ doubt' = IF durable'.active.id # doubt.op \/ Terminal(durable'.active.phase)
                THEN NoDoubt ELSE doubt
    /\ recorded' = (recorded \union {durable'.active.id}) \ {NoOp}

\* A save of an operation's goroutine, after a locked change.
WorkerSave(op) ==
    /\ dirty[op]
    /\ dirty' = [dirty EXCEPT ![op] = FALSE]
    /\ \E saved \in BOOLEAN :
        /\ Persist(saved)
        /\ pc' = IF ~saved /\ pc[op] \in StrictSaves
                 THEN [pc EXCEPT ![op] = "fail"] ELSE pc
    /\ UNCHANGED <<up, mem, local, request, issued, requests, tick, today, host,
                   faults, unreviewed>>

-----------------------------------------------------------------------------
(* Changes to the state under the lock *)

\* Mutant: an accepted operation that has not begun does not count.
BusyOnceBegun(s) == s.active.id # NoOp /\ ~Terminal(s.active.phase) /\ s.active.phase # "queued"

Busy(s) == s.active.id # NoOp /\ ~Terminal(s.active.phase)

\* Mutant: only the history counts.
RetainedInHistory(s) == {s.history[i].id : i \in DOMAIN s.history}

\* Operations that operationLocked finds and trimIdempotencyLocked keeps.
Retained(s) == {s.active.id} \union {s.history[i].id : i \in DOMAIN s.history}

\* trimIdempotencyLocked.
Trimmed(s) ==
    IF Cardinality({k \in Keys : s.idem[k] # NoOp}) <= MaxHistory + 1 THEN s
    ELSE [s EXCEPT !.idem = [k \in Keys |-> IF @[k] \in Retained(s) THEN @[k] ELSE NoOp]]

\* phase: it does not look whether the operation is terminal already.
InPhase(s, op, phase) ==
    IF s.active.id = op THEN [s EXCEPT !.active.phase = phase] ELSE s

\* setImages; the images after the update are only shown to the administrator.
WithImages(s, op, before) ==
    IF s.active.id = op THEN [s EXCEPT !.active.before = before] ELSE s

\* Mutant: a later outcome replaces an earlier one.
IsActive(s, op) == s.active.id = op

\* finish: the first outcome of an operation stands.
CanFinish(s, op) == s.active.id = op /\ ~Terminal(s.active.phase)

Newest(entries) == SubSeq(entries, 1, MaxHistory)

Finished(s, op, outcome) ==
    LET entries == <<[id |-> op, phase |-> outcome]>> \o s.history IN
    [s EXCEPT !.active.phase = outcome,
              !.history = IF Len(entries) > MaxHistory THEN Newest(entries) ELSE entries,
              !.backup = NoOp]

Paused(s) == [s EXCEPT !.paused = TRUE]

\* recordScheduleCompletion: the date is read when the operation completes.
ScheduleCompleted(s, kind) ==
    IF kind = "feed" THEN [s EXCEPT !.feedDate = today] ELSE [s EXCEPT !.stackDate = today]

-----------------------------------------------------------------------------
(* Requests and the schedule loop *)

\* Trigger up to the save of the accepted operation. A known key, a busy
\* helper and a paused stack answer without changing anything.
Acceptable(kind, key) ==
    /\ up = "up"
    /\ mem.idem[key] = NoOp
    /\ ~Busy(mem)
    /\ kind = "stack" => ~mem.paused
    /\ issued < MaxOps

Accept(kind, trigger, key) ==
    LET op == issued + 1 IN
    /\ issued' = op
    /\ request' = [request EXCEPT ![op] = [kind |-> kind, trigger |-> trigger, key |-> key]]
    /\ mem' = Trimmed([mem EXCEPT
                 !.active = [id |-> op, phase |-> "queued", before |-> None],
                 !.backup = NoOp,
                 !.idem[key] = op])
    /\ pc' = [pc EXCEPT ![op] = "saving"]
    /\ UNCHANGED <<up, durable, dirty, local, requests, today, host, faults, ghosts>>

TriggerAdmin(kind, key) ==
    /\ Acceptable(kind, key)
    /\ Accept(kind, "admin", key)
    /\ UNCHANGED tick

\* The operation is saved before its goroutine starts; a failing save leads
\* to a second locked section that withdraws it.
TriggerSave(op) ==
    /\ pc[op] = "saving"
    /\ \E saved \in BOOLEAN :
        /\ Persist(saved)
        /\ pc' = [pc EXCEPT ![op] = IF saved THEN "start" ELSE "withdraw"]
    /\ UNCHANGED <<up, mem, dirty, local, request, issued, requests, tick, today,
                   host, faults, unreviewed>>

TriggerWithdraw(op) ==
    /\ pc[op] = "withdraw"
    /\ pc' = [pc EXCEPT ![op] = "done"]
    /\ mem' = IF mem.active.id = op
              THEN [mem EXCEPT !.active = NoOperation, !.idem[request[op].key] = NoOp]
              ELSE mem
    /\ UNCHANGED <<up, durable, dirty, local, request, issued, requests, tick, today,
                   host, faults, ghosts>>

\* checkSchedule works on a copy of the state: whether a date is due is decided
\* here, the trigger follows later. Whether the policy enables a schedule and
\* the minute of the day has come is left open.
CheckSchedule ==
    /\ up = "up"
    /\ tick = NoTick
    /\ ~Busy(mem)
    /\ \/ /\ "feed" \in Kinds
          /\ mem.feedDate # today
          /\ tick' = [kind |-> "feed", key |-> <<"feed", today>>]
       \/ /\ "stack" \in Kinds
          /\ ~mem.paused
          /\ mem.stackDate # today
          /\ tick' = [kind |-> "stack", key |-> <<"stack", today>>]
    /\ UNCHANGED <<up, mem, durable, pc, dirty, local, request, issued, requests,
                   today, host, faults, ghosts>>

TriggerScheduled ==
    /\ tick # NoTick
    /\ tick' = NoTick
    /\ IF Acceptable(tick.kind, tick.key)
       THEN Accept(tick.kind, "scheduled", tick.key)
       ELSE UNCHANGED <<up, mem, durable, pc, dirty, local, request, issued, requests,
                        today, host, faults, ghosts>>

\* Acknowledge and Configure change the state and save it; an error of that
\* save goes to the caller and undoes nothing.
Acknowledge ==
    /\ up # "down"
    /\ requests < MaxRequests
    /\ requests' = requests + 1
    /\ mem' = [mem EXCEPT !.paused = FALSE]
    /\ unreviewed' = {}
    /\ UNCHANGED <<up, durable, pc, dirty, local, request, issued, tick, today, host,
                   faults, recorded, doubt>>

Configure ==
    /\ up # "down"
    /\ requests < MaxRequests
    /\ requests' = requests + 1
    /\ UNCHANGED <<up, mem, durable, pc, dirty, local, request, issued, tick, today,
                   host, faults, ghosts>>

RequestSave ==
    /\ requests > 0
    /\ requests' = requests - 1
    /\ \E saved \in BOOLEAN : Persist(saved)
    /\ UNCHANGED <<up, mem, pc, dirty, local, request, issued, tick, today, host,
                   faults, unreviewed>>

-----------------------------------------------------------------------------
(* Steps of an operation's goroutine *)

still == <<up, durable, request, issued, requests, tick, today, faults, recorded>>

At(op, place) == pc[op] = place /\ ~dirty[op]

\* A locked change whose save comes next.
Change(op, state, next) ==
    /\ mem' = state
    /\ pc' = [pc EXCEPT ![op] = next]
    /\ dirty' = [dirty EXCEPT ![op] = TRUE]
    /\ UNCHANGED still

\* A step that changes no state of the controller.
Move(op, next) ==
    /\ pc' = [pc EXCEPT ![op] = next]
    /\ UNCHANGED <<still, mem, dirty>>

\* phase(...) alone.
Enter(op, place, phase, next) ==
    /\ At(op, place)
    /\ Change(op, InPhase(mem, op, phase), next)
    /\ UNCHANGED <<local, host, doubt, unreviewed>>

\* execute: dispatch on the kind. The first phase of a check or a feed refresh
\* follows without a call that may fail.
Execute(op) ==
    /\ At(op, "start")
    /\ UNCHANGED <<local, host, doubt, unreviewed>>
    /\ \/ /\ request[op].kind = "stack"
          /\ Move(op, "scans")
       \/ /\ request[op].kind = "feed"
          /\ Change(op, InPhase(mem, op, "preflight"), "feed-preflight")
       \/ /\ request[op].kind = "check"
          /\ Change(op, InPhase(mem, op, "preflight"), "check")

\* An error of a runtime or scanner call, or the deadline of the operation. When
\* the helper is stopping the error may be the cancellation, which leaves the
\* operation as it is for the next start.
OperationError(op) ==
    /\ pc[op] \in FalliblePcs
    /\ ~dirty[op]
    /\ \E cancelled \in IF up = "stopping" THEN BOOLEAN ELSE {FALSE} :
        Move(op, IF cancelled THEN "done" ELSE "fail")
    /\ UNCHANGED <<local, host, doubt, unreviewed>>

\* finish(outcome), then the goroutine continues at next.
Finish(op, place, outcome, next) ==
    /\ At(op, place)
    /\ IF CanFinish(mem, op) THEN Change(op, Finished(mem, op, outcome), next)
                             ELSE Move(op, next)
    /\ UNCHANGED <<local, host, doubt, unreviewed>>

Succeed(op) ==
    \/ Finish(op, "complete", "succeeded", "done")
    \/ Finish(op, "check-saved", "succeeded", "done")

ReportFailure(op) == Finish(op, "fail", "failed", "done")

\* What Compose says of the images that the containers run and that the
\* service tags resolve to.
Snapshot == running
ResolvedSnapshot == pulled

\* runCheck.
Check(op) ==
    /\ At(op, "check")
    /\ Change(op, mem, "check-saved")
    /\ UNCHANGED <<local, host, doubt, unreviewed>>

\* runFeed. Feed data and its images carry no version here: whether a pull
\* changed anything is left open.
FeedStep(op) ==
    \/ /\ At(op, "feed-preflight")
       /\ Change(op, WithImages(mem, op, Snapshot), "feed-pulling")
       /\ UNCHANGED <<local, host, doubt, unreviewed>>
    \/ Enter(op, "feed-pulling", "pulling", "feed-pull")
    \/ /\ At(op, "feed-pull")
       /\ Change(op, WithImages(mem, op, Snapshot), "feed-compare")
       /\ UNCHANGED <<local, host, doubt, unreviewed>>
    \/ Enter(op, "feed-compare", "applying", "feed-apply")
    \/ /\ \/ At(op, "feed-compare")
          \/ At(op, "feed-import")
       /\ Change(op, ScheduleCompleted(mem, "feed"), "feed-cleanup")
       /\ UNCHANGED <<local, host, doubt, unreviewed>>
    \/ Enter(op, "feed-apply", "importing", "feed-import")
    \/ Finish(op, "feed-import", "degraded", "complete")
    \/ Enter(op, "feed-cleanup", "cleanup", "complete")

\* waitForScans: poll until no scan is active, the scheduled window ends or a
\* call fails (OperationError).
ScansActive(op) == Enter(op, "scans", "waiting-for-scans", "scans")

ScansIdle(op) == Enter(op, "scans", "preflight", "preflight")

Defer(op) ==
    \/ /\ request[op].trigger = "scheduled"
       /\ mem.active.phase = "waiting-for-scans"
       /\ Finish(op, "scans", "cancelled", "deferred")
    \/ /\ At(op, "deferred")
       /\ Change(op, ScheduleCompleted(mem, "stack"), "complete")
       /\ UNCHANGED <<local, host, doubt, unreviewed>>

\* runStack up to the recreation of the services.
Preflight(op) ==
    /\ At(op, "preflight")
    /\ local' = [local EXCEPT ![op].before = Snapshot]
    /\ Change(op, WithImages(mem, op, Snapshot), "checkpoint")
    /\ UNCHANGED <<host, doubt, unreviewed>>

Backup(op) ==
    /\ At(op, "backup")
    /\ dumps' = [dumps EXCEPT ![op] = db]
    /\ local' = [local EXCEPT ![op].backup = op]
    /\ Change(op, IF mem.active.id = op THEN [mem EXCEPT !.backup = op] ELSE mem, "staging")
    /\ UNCHANGED <<running, pulled, db, doubt, unreviewed>>

PullStack(op) ==
    /\ At(op, "pull")
    /\ pulled' \in 1 .. MaxVersion
    /\ Change(op, WithImages(mem, op, local[op].before), "compare")
    /\ UNCHANGED <<local, running, db, dumps, doubt, unreviewed>>

Unchanged(op) ==
    /\ At(op, "compare")
    /\ local[op].before = ResolvedSnapshot
    /\ Change(op, ScheduleCompleted(mem, "stack"), "cleanup")
    /\ UNCHANGED <<local, host, doubt, unreviewed>>

\* PruneBackups: only the newest dumps stay.
PrunedDumps ==
    [o \in Ops |-> IF Cardinality({p \in Ops : p > o /\ dumps[p] # None}) < Retention
                   THEN dumps[o] ELSE None]

PruneUnchanged(op) ==
    /\ At(op, "unchanged")
    /\ dumps' = PrunedDumps
    /\ Move(op, "complete")
    /\ UNCHANGED <<local, running, pulled, db, doubt, unreviewed>>

\* Mutant: the services are recreated without marking the change first.
ChangedUnmarked(op) ==
    /\ At(op, "compare")
    /\ local[op].before # ResolvedSnapshot
    /\ Move(op, "apply")
    /\ UNCHANGED <<local, host, doubt, unreviewed>>

Changed(op) ==
    /\ local[op].before # ResolvedSnapshot
    /\ Enter(op, "compare", "applying", "apply")

\* ApplyStack recreates the services one after the other: from its start until
\* it returns they are mixed, and the new gvmd may migrate the database.
ApplyBegin(op) ==
    /\ At(op, "apply")
    /\ running' = Mixed
    /\ doubt' = [op |-> op, image |-> running, db |-> db, settled |-> FALSE]
    /\ Move(op, "applying")
    /\ UNCHANGED <<local, pulled, db, dumps, unreviewed>>

\* rollback(...) is called; it remembers whether the cause was the shutdown.
FallBack(op) ==
    /\ \E cancelled \in IF up = "stopping" THEN BOOLEAN ELSE {FALSE} :
        local' = [local EXCEPT ![op].cancelled = cancelled]
    /\ Move(op, "rollback")

ApplyEnd(op) ==
    /\ At(op, "applying")
    /\ \/ /\ running' = pulled
          /\ db' = pulled
          /\ Move(op, "verifying")
          /\ UNCHANGED local
       \/ /\ db' \in {db, pulled}
          /\ FallBack(op)
          /\ UNCHANGED running
    /\ UNCHANGED <<pulled, dumps, doubt, unreviewed>>

\* waitForScanner, then Images; it fails at the deadline or on shutdown.
Verify(op) ==
    /\ At(op, "verify")
    /\ \/ /\ Change(op, mem, "record")
          /\ doubt' = [doubt EXCEPT !.settled = TRUE]
          /\ UNCHANGED local
       \/ /\ FallBack(op)
          /\ UNCHANGED doubt
    /\ UNCHANGED <<host, unreviewed>>

Record(op) ==
    /\ At(op, "record")
    /\ Change(op, ScheduleCompleted(mem, "stack"), "prune")
    /\ UNCHANGED <<local, host, doubt, unreviewed>>

Prune(op) ==
    /\ At(op, "prune")
    /\ dumps' \in {dumps, PrunedDumps}
    /\ Change(op, InPhase(mem, op, "cleanup"), "complete")
    /\ UNCHANGED <<local, running, pulled, db, doubt, unreviewed>>

StackStep(op) ==
    \/ Preflight(op)
    \/ Enter(op, "checkpoint", "checkpoint", "backup")
    \/ Backup(op)
    \/ Enter(op, "staging", "staging", "pull")
    \/ PullStack(op)
    \/ Unchanged(op)
    \/ Enter(op, "cleanup", "cleanup", "unchanged")
    \/ PruneUnchanged(op)
    \/ Changed(op)
    \/ ApplyBegin(op)
    \/ ApplyEnd(op)
    \/ Enter(op, "verifying", "verifying", "verify")
    \/ Verify(op)
    \/ Record(op)
    \/ Prune(op)

-----------------------------------------------------------------------------
(* Rollback, by the operation itself or by recovery after a restart *)

\* Compose.Rollback retags the recorded images, restores the dump if a path is
\* known, and recreates the services; it may stop after any of these.
RollbackBegin(op, place, next) ==
    /\ At(op, place)
    /\ pulled' = IF local[op].before = None THEN pulled ELSE local[op].before
    /\ running' = Mixed
    /\ unreviewed' = unreviewed \union {op}
    /\ Move(op, next)
    /\ UNCHANGED <<local, db, dumps, doubt>>

DumpReadable(op) == local[op].backup = NoOp \/ dumps[local[op].backup] # None

\* Mutant: only the images are restored.
DatabaseKept(op) == db

DatabaseAfterRestore(op) == IF local[op].backup = NoOp THEN db ELSE dumps[local[op].backup]

RollbackDone(op, place) ==
    /\ At(op, place)
    /\ DumpReadable(op)
    /\ running' = pulled
    /\ db' = DatabaseAfterRestore(op)
    /\ UNCHANGED <<local, pulled, dumps, doubt, unreviewed>>

RollbackFailed(op, place) ==
    /\ At(op, place)
    /\ db' \in {db, Mixed}
    /\ UNCHANGED <<local, running, pulled, dumps, doubt, unreviewed>>

\* How rollback returns an error to execute after pausing the automation.
AfterFailedRollback(op) == IF local[op].cancelled THEN "done" ELSE "fail"

RollbackStep(op) ==
    \/ Enter(op, "rollback", "rolling-back", "restore")
    \/ RollbackBegin(op, "restore", "restoring")
    \/ RollbackDone(op, "restoring") /\ Move(op, "reverify")
    \/ RollbackFailed(op, "restoring") /\ Change(op, Paused(mem), AfterFailedRollback(op))
    \/ /\ At(op, "reverify")
       /\ \/ Change(op, Paused(mem), "finish-restored")
          \/ Change(op, Paused(mem), AfterFailedRollback(op))
       /\ UNCHANGED <<local, host, doubt, unreviewed>>
    \/ Finish(op, "finish-restored", "rolled-back", "complete")

\* Recovery has restored the stack: the pause is saved before the outcome.
\* Mutant: the outcome first, as on the error path of the same function.
OutcomeBeforePause(op) ==
    RollbackDone(op, "recover-restoring")
    /\ Change(op, Finished(mem, op, "rolled-back"), "recover-pause")

Recovered(op) ==
    /\ RollbackDone(op, "recover-restoring")
    /\ Change(op, Paused(mem), "finish-recovered")

\* recoverInterrupted. Unlike rollback it does not wait for the scanner, and on
\* an error it finishes the operation before it pauses the automation.
RecoverStep(op) ==
    \/ Enter(op, "recover", "rolling-back", "recover-restore")
    \/ RollbackBegin(op, "recover-restore", "recover-restoring")
    \/ Recovered(op)
    \/ /\ RollbackFailed(op, "recover-restoring")
       /\ IF CanFinish(mem, op)
          THEN Change(op, Finished(mem, op, "failed"), "recover-pause")
          ELSE Move(op, "recover-pause")
    \/ /\ At(op, "recover-pause")
       /\ Change(op, Paused(mem), "done")
       /\ UNCHANGED <<local, host, doubt, unreviewed>>
    \/ Finish(op, "finish-recovered", "rolled-back", "done")
    \/ Finish(op, "recover-stop", "degraded", "done")

-----------------------------------------------------------------------------
(* The process and the clock *)

\* NewController and Start: load the file, and recover an operation that it
\* shows as unfinished. A preflight error ends the process again.
\* Mutant: only an upgrade that was changing the services is looked at.
InterruptedChange == Busy(durable) /\ durable.active.phase \in ChangingPhases

Interrupted == Busy(durable)

Start ==
    /\ up = "down"
    /\ up' = "up"
    /\ mem' = durable
    /\ LET op == durable.active.id IN
       IF Interrupted
       THEN /\ pc' = [pc EXCEPT ![op] =
                         IF request[op].kind = "stack" /\ durable.active.phase \in ChangingPhases
                         THEN "recover" ELSE "recover-stop"]
            /\ local' = [local EXCEPT ![op] = [before |-> durable.active.before,
                                              backup |-> durable.backup, cancelled |-> FALSE]]
       ELSE UNCHANGED <<pc, local>>
    /\ UNCHANGED <<durable, dirty, request, issued, requests, tick, today, host, faults, ghosts>>

\* SIGTERM cancels the context; Close then waits for the goroutines.
Stop ==
    /\ up = "up"
    /\ faults < MaxFaults
    /\ faults' = faults + 1
    /\ up' = "stopping"
    /\ UNCHANGED <<controller, durable, today, host, ghosts>>

Quiet == requests = 0 /\ tick = NoTick /\ \A op \in Ops : pc[op] \in {"idle", "done"} /\ ~dirty[op]

\* The process is gone and with it everything that was only in memory.
Gone ==
    /\ up' = "down"
    /\ mem' = durable
    /\ pc' = [op \in Ops |-> IF pc[op] = "idle" THEN "idle" ELSE "done"]
    /\ dirty' = [op \in Ops |-> FALSE]
    /\ local' = [op \in Ops |-> NoLocal]
    /\ requests' = 0
    /\ tick' = NoTick
    /\ UNCHANGED <<durable, request, issued, today, host, ghosts>>

Exit == up = "stopping" /\ Quiet /\ Gone /\ UNCHANGED faults

Crash == up # "down" /\ faults < MaxFaults /\ faults' = faults + 1 /\ Gone

NextDay ==
    /\ today < MaxDay
    /\ today' = today + 1
    /\ UNCHANGED <<up, controller, durable, host, faults, ghosts>>

-----------------------------------------------------------------------------
\* The steps that end: polling again while scans run is not one of them.
Progress(op) ==
    \/ TriggerSave(op)
    \/ TriggerWithdraw(op)
    \/ WorkerSave(op)
    \/ Execute(op)
    \/ OperationError(op)
    \/ Succeed(op)
    \/ ReportFailure(op)
    \/ Check(op)
    \/ FeedStep(op)
    \/ ScansIdle(op)
    \/ Defer(op)
    \/ StackStep(op)
    \/ RollbackStep(op)
    \/ RecoverStep(op)

\* One way or another the operation's deadline ends the wait for scans.
StopsWaiting(op) == pc[op] = "scans" /\ (ScansIdle(op) \/ OperationError(op) \/ Defer(op))

Next ==
    \/ \E kind \in Kinds, key \in AdminKeys : TriggerAdmin(kind, key)
    \/ CheckSchedule
    \/ TriggerScheduled
    \/ Acknowledge
    \/ Configure
    \/ RequestSave
    \/ \E op \in Ops : Progress(op) \/ ScansActive(op)
    \/ Start
    \/ Stop
    \/ Exit
    \/ Crash
    \/ NextDay

\* Every goroutine is scheduled, every call returns or meets the deadline of its
\* operation's context, and a stopped helper is restarted by its container. A
\* stopping API server accepts no more connections, so the pauses between two
\* requests in which the helper may exit cannot come back forever unused.
Fairness ==
    /\ \A op \in Ops : WF_vars(Progress(op)) /\ SF_vars(StopsWaiting(op))
    /\ WF_vars(RequestSave)
    /\ WF_vars(TriggerScheduled)
    /\ WF_vars(Start)
    /\ SF_vars(Exit)

Spec == Init /\ [][Next]_vars
FairSpec == Spec /\ Fairness
=============================================================================
