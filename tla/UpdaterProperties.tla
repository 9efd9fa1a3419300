-------------------------- MODULE UpdaterProperties --------------------------
(***************************************************************************)
(* What the update helper must guarantee, checked by the runs and proved   *)
(* in UpdaterProofs.                                                       *)
(***************************************************************************)
EXTENDS Updater

-----------------------------------------------------------------------------
(* One operation at a time *)

\* Steps from the acceptance of an operation to its outcome, in memory.
WorkingPcs ==
    Pcs \ {"idle", "withdraw", "deferred", "complete", "recover-pause", "done"}

\* No two goroutines run Docker or database commands at the same time: Trigger
\* refuses while an operation is active, a goroutine that has finished its
\* operation runs no further command, and recovery blocks new operations.
OneOperationAtATime ==
    \A o, p \in Ops : pc[o] \in WorkingPcs /\ pc[p] \in WorkingPcs => o = p

\* A retry of a request whose operation is still listed finds that operation
\* instead of starting another: trimming, withdrawing and truncating never drop
\* or redirect the idempotency key of a listed operation.
ListedOperationsKeepTheirKey ==
    \A o \in Ops :
        (mem.active.id = o \/ \E i \in DOMAIN mem.history : mem.history[i].id = o)
        => mem.idem[request[o].key] = o

-----------------------------------------------------------------------------
(* Interrupted upgrades *)

\* While the services may differ from both the old and a verified new stack, a
\* crash at this moment is recovered: the file shows the upgrade as changing,
\* with the images that ran before it and a dump of the database of that time.
InterruptedUpgradeIsRecoverable ==
    doubt.op # NoOp /\ ~doubt.settled =>
        /\ durable.active.id = doubt.op
        /\ durable.active.phase \in {"applying", "verifying", "rolling-back"}
        /\ durable.active.before = doubt.image
        /\ durable.backup = doubt.op
        /\ dumps[doubt.op] = doubt.db

\* An operation is reported as rolled back only when the services and the
\* database are again those from before the upgrade, also after several crashes
\* in the middle of the upgrade, of the rollback or of its recovery.
RolledBackMeansRestored ==
    [][ \A op \in Ops :
          /\ doubt.op = op
          /\ mem.active = [mem'.active EXCEPT !.phase = mem.active.phase]
          /\ mem.active.id = op
          /\ mem'.active.phase = "rolled-back"
          /\ mem.active.phase # "rolled-back"
          => running = doubt.image /\ db = doubt.db ]_vars

\* The outcome a state lists for an operation.
Lists(s, op, outcome) ==
    \E i \in DOMAIN s.history : s.history[i] = [id |-> op, phase |-> outcome]

\* Wherever an upgrade is listed as rolled back, in memory or in the file, the
\* automation is paused, until an administrator acknowledges that rollback.
RolledBackStaysPaused ==
    \A op \in unreviewed, s \in {mem, durable} :
        Lists(s, op, "rolled-back") => s.paused

-----------------------------------------------------------------------------
(* The file as an operation log *)

DurableStatus ==
    [op \in Ops |->
        IF \E i \in DOMAIN durable.history : durable.history[i].id = op
        THEN (CHOOSE e \in {durable.history[i] : i \in DOMAIN durable.history} : e.id = op).phase
        ELSE IF durable.active.id = op /\ ~Terminal(durable.active.phase) THEN "open"
        ELSE IF op \in recorded THEN "forgotten"
        ELSE "none"]

Log == INSTANCE OperationLog WITH
           Outcomes <- TerminalPhases, status <- DurableStatus

\* The state file implements the operation log, whatever crashes in between.
FileIsOperationLog == Log!Spec

\* Every operation the file has shown gets an outcome on disk, through crashes,
\* shutdowns and scans that never end: again and again the file shows none without.
AcceptedOperationsConclude ==
    []<>(\A op \in recorded : DurableStatus[op] \in TerminalPhases \union {"forgotten"})
=============================================================================
