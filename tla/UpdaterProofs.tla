---------------------------- MODULE UpdaterProofs ----------------------------
(***************************************************************************)
(* Proofs about the update helper, for every value of its constants.       *)
(***************************************************************************)
EXTENDS UpdaterProperties, FiniteSetTheorems, SequenceTheorems, TLAPS

-----------------------------------------------------------------------------
(* Type correctness *)

\* A state as the controller keeps it: its type and the length of its history.
Proper(s) == s \in State /\ Len(s.history) <= MaxHistory

LEMMA OpIsNotNoOp == \A op \in Ops : op # NoOp /\ op \in Nat
  BY ConstantsAssumption DEF Ops, NoOp

LEMMA KnownImages == Mixed \in Images /\ None \in Images /\ 1 \in Images
                     /\ 1 .. MaxVersion \subseteq Images
  BY ConstantsAssumption DEF Mixed, None, Images

LEMMA EmptyStateIsProper == Proper(EmptyState)
  BY ConstantsAssumption, KnownImages
  DEF Proper, EmptyState, State, NoOperation, Operation, Phases, TerminalPhases

LEMMA TrimmedIsProper ==
  ASSUME NEW s, Proper(s)
  PROVE  /\ Proper(Trimmed(s))
         /\ Trimmed(s).active = s.active
         /\ Trimmed(s).backup = s.backup
         /\ Trimmed(s).paused = s.paused
         /\ Trimmed(s).history = s.history
  BY DEF Proper, Trimmed, State

LEMMA InPhaseIsProper ==
  ASSUME NEW s, Proper(s), NEW op, NEW phase \in Phases
  PROVE  /\ Proper(InPhase(s, op, phase))
         /\ InPhase(s, op, phase).active.id = s.active.id
         /\ InPhase(s, op, phase).active.before = s.active.before
         /\ s.active.id = op => InPhase(s, op, phase).active.phase = phase
         /\ InPhase(s, op, phase).backup = s.backup
         /\ InPhase(s, op, phase).paused = s.paused
         /\ InPhase(s, op, phase).history = s.history
         /\ InPhase(s, op, phase).idem = s.idem
  BY DEF Proper, InPhase, State, Operation

LEMMA WithImagesIsProper ==
  ASSUME NEW s, Proper(s), NEW op, NEW before \in Images
  PROVE  /\ Proper(WithImages(s, op, before))
         /\ WithImages(s, op, before).active.id = s.active.id
         /\ WithImages(s, op, before).active.phase = s.active.phase
         /\ s.active.id = op => WithImages(s, op, before).active.before = before
         /\ WithImages(s, op, before).backup = s.backup
         /\ WithImages(s, op, before).paused = s.paused
         /\ WithImages(s, op, before).history = s.history
         /\ WithImages(s, op, before).idem = s.idem
  BY DEF Proper, WithImages, State, Operation

LEMMA NewestIsShort ==
  ASSUME NEW S, NEW entries \in Seq(S), Len(entries) > MaxHistory
  PROVE  Newest(entries) \in Seq(S) /\ Len(Newest(entries)) = MaxHistory
<1>1. MaxHistory \in Int /\ 1 \in Int /\ 1 <= MaxHistory /\ MaxHistory - 1 + 1 = MaxHistory
  BY ConstantsAssumption
<1>2. \A i \in 1 .. MaxHistory : entries[i] \in S
  BY ConstantsAssumption
<1>3. /\ SubSeq(entries, 1, MaxHistory) \in Seq(S)
      /\ Len(SubSeq(entries, 1, MaxHistory)) = IF 1 <= MaxHistory THEN MaxHistory - 1 + 1 ELSE 0
  BY ONLY <1>1, <1>2, SubSeqProperties
<1> QED
  BY <1>1, <1>3 DEF Newest

LEMMA FinishedIsProper ==
  ASSUME NEW s, Proper(s), NEW op \in Ops, NEW outcome \in TerminalPhases
  PROVE  /\ Proper(Finished(s, op, outcome))
         /\ Finished(s, op, outcome).active.id = s.active.id
         /\ Finished(s, op, outcome).active.phase = outcome
         /\ Finished(s, op, outcome).paused = s.paused
         /\ Finished(s, op, outcome).idem = s.idem
<1> DEFINE Entry == [id : Ops, phase : TerminalPhases]
           entries == <<[id |-> op, phase |-> outcome]>> \o s.history
<1>1. s.history \in Seq(Entry) /\ Len(s.history) <= MaxHistory /\ s \in State
  BY DEF Proper, State
<1>2. entries \in Seq(Entry) /\ Len(entries) = Len(s.history) + 1
  BY <1>1
<1> HIDE DEF entries, Entry
<1>3. (IF Len(entries) > MaxHistory THEN Newest(entries) ELSE entries) \in
        {h \in Seq(Entry) : Len(h) <= MaxHistory}
  <2>1. CASE Len(entries) > MaxHistory
    BY <1>2, <2>1, NewestIsShort, ConstantsAssumption
  <2>2. CASE ~(Len(entries) > MaxHistory)
    BY <1>1, <1>2, <2>2, ConstantsAssumption
  <2> QED
    BY <2>1, <2>2
<1>4. Proper(Finished(s, op, outcome))
  BY <1>1, <1>3 DEF Finished, Proper, State, Operation, Phases, NoOp, entries, Entry
<1> QED
  BY <1>1, <1>4, Zenon DEF Finished, State, Operation

LEMMA PausedIsProper ==
  ASSUME NEW s, Proper(s)
  PROVE  /\ Proper(Paused(s))
         /\ Paused(s).active = s.active
         /\ Paused(s).backup = s.backup
         /\ Paused(s).paused
         /\ Paused(s).history = s.history
         /\ Paused(s).idem = s.idem
  BY DEF Proper, Paused, State

LEMMA ScheduleCompletedIsProper ==
  ASSUME NEW s, Proper(s), NEW kind, today \in Days
  PROVE  /\ Proper(ScheduleCompleted(s, kind))
         /\ ScheduleCompleted(s, kind).active = s.active
         /\ ScheduleCompleted(s, kind).backup = s.backup
         /\ ScheduleCompleted(s, kind).paused = s.paused
         /\ ScheduleCompleted(s, kind).history = s.history
         /\ ScheduleCompleted(s, kind).idem = s.idem
  BY DEF Proper, ScheduleCompleted, State

\* A save keeps the types: the file is the current state or the older one.
LEMMA PersistTypes ==
  ASSUME TypeOK, NEW saved \in BOOLEAN, Persist(saved)
  PROVE  Proper(durable') /\ doubt' \in Doubt /\ recorded' \subseteq Ops
<1>1. Proper(mem) /\ Proper(durable) /\ doubt \in Doubt /\ recorded \subseteq Ops
  BY DEF TypeOK, Proper
<1>2. Proper(durable')
  BY <1>1 DEF Persist
<1>3. durable'.active.id \in Ops \union {NoOp}
  BY <1>2 DEF Proper, State, Operation
<1>4. NoDoubt \in Doubt
  BY KnownImages DEF NoDoubt, Doubt
<1> QED
  BY <1>1, <1>2, <1>3, <1>4 DEF Persist

\* What a step of an operation's goroutine has to keep within its type.
WorkerTypes ==
    /\ Proper(mem)
    /\ pc \in [Ops -> Pcs]
    /\ dirty \in [Ops -> BOOLEAN]
    /\ local \in [Ops -> [before : Images, backup : Ops \union {NoOp}, cancelled : BOOLEAN]]
    /\ running \in Images /\ pulled \in Images /\ db \in Images
    /\ dumps \in [Ops -> Images]
    /\ doubt \in Doubt
    /\ unreviewed \subseteq Ops

LEMMA WorkerTypesSuffice == TypeOK /\ UNCHANGED still /\ WorkerTypes' => TypeOK'
  BY DEF TypeOK, WorkerTypes, still, Proper

LEMMA WorkerTypesHold == TypeOK => WorkerTypes /\ today \in Days
  BY DEF TypeOK, WorkerTypes, Proper

LEMMA ChangeTypes ==
  ASSUME WorkerTypes, NEW op \in Ops, NEW s, Proper(s), NEW next \in Pcs, Change(op, s, next)
  PROVE  Proper(mem') /\ pc' \in [Ops -> Pcs] /\ dirty' \in [Ops -> BOOLEAN] /\ UNCHANGED still
  BY DEF WorkerTypes, Change

LEMMA MoveTypes ==
  ASSUME WorkerTypes, NEW op \in Ops, NEW next \in Pcs, Move(op, next)
  PROVE  Proper(mem') /\ pc' \in [Ops -> Pcs] /\ dirty' \in [Ops -> BOOLEAN] /\ UNCHANGED still
  BY DEF WorkerTypes, Move

LEMMA EnterTypes ==
  ASSUME WorkerTypes, NEW op \in Ops, NEW place, NEW phase \in Phases, NEW next \in Pcs,
         Enter(op, place, phase, next)
  PROVE  WorkerTypes' /\ UNCHANGED still
<1>1. Proper(InPhase(mem, op, phase))
  BY InPhaseIsProper DEF WorkerTypes
<1>2. Change(op, InPhase(mem, op, phase), next)
  BY DEF Enter
<1>3. Proper(mem') /\ pc' \in [Ops -> Pcs] /\ dirty' \in [Ops -> BOOLEAN] /\ UNCHANGED still
  BY <1>1, <1>2, ChangeTypes
<1> QED
  BY <1>3 DEF WorkerTypes, Enter, host

LEMMA FinishTypes ==
  ASSUME WorkerTypes, NEW op \in Ops, NEW place, NEW outcome \in TerminalPhases,
         NEW next \in Pcs, Finish(op, place, outcome, next)
  PROVE  WorkerTypes' /\ UNCHANGED still
<1>1. Proper(Finished(mem, op, outcome))
  BY FinishedIsProper DEF WorkerTypes
<1>2. Proper(mem') /\ pc' \in [Ops -> Pcs] /\ dirty' \in [Ops -> BOOLEAN] /\ UNCHANGED still
  BY <1>1, ChangeTypes, MoveTypes DEF Finish
<1> QED
  BY <1>2 DEF WorkerTypes, Finish, host

LEMMA FallBackTypes ==
  ASSUME WorkerTypes, NEW op \in Ops, FallBack(op)
  PROVE  /\ Proper(mem') /\ pc' \in [Ops -> Pcs] /\ dirty' \in [Ops -> BOOLEAN]
         /\ local' \in [Ops -> [before : Images, backup : Ops \union {NoOp}, cancelled : BOOLEAN]]
         /\ UNCHANGED still
<1>1. Move(op, "rollback") /\ "rollback" \in Pcs
  BY DEF FallBack, Pcs
<1>2. PICK cancelled \in BOOLEAN : local' = [local EXCEPT ![op].cancelled = cancelled]
  BY DEF FallBack
<1> QED
  BY <1>1, <1>2, MoveTypes DEF WorkerTypes

\* The steps of an operation's goroutine, one lemma per action with
\* alternatives of its own.
LEMMA FeedStepTypes ==
  ASSUME WorkerTypes, today \in Days, NEW op \in Ops, FeedStep(op)
  PROVE  WorkerTypes' /\ UNCHANGED still
<1>1. Proper(mem) /\ running \in Images
  BY DEF WorkerTypes
<1>2. /\ Proper(WithImages(mem, op, Snapshot))
      /\ Proper(ScheduleCompleted(mem, "feed"))
  BY <1>1, WithImagesIsProper, ScheduleCompletedIsProper DEF Snapshot
<1>3. CASE \/ Enter(op, "feed-pulling", "pulling", "feed-pull")
           \/ Enter(op, "feed-compare", "applying", "feed-apply")
           \/ Enter(op, "feed-apply", "importing", "feed-import")
           \/ Enter(op, "feed-cleanup", "cleanup", "complete")
  BY <1>3, EnterTypes DEF Phases, Pcs
<1>4. CASE Finish(op, "feed-import", "degraded", "complete")
  BY <1>4, FinishTypes DEF TerminalPhases, Pcs
<1>5. CASE \/ Change(op, WithImages(mem, op, Snapshot), "feed-pulling")
           \/ Change(op, WithImages(mem, op, Snapshot), "feed-compare")
           \/ Change(op, ScheduleCompleted(mem, "feed"), "feed-cleanup")
  <2>1. Proper(mem') /\ pc' \in [Ops -> Pcs] /\ dirty' \in [Ops -> BOOLEAN] /\ UNCHANGED still
    BY <1>2, <1>5, ChangeTypes DEF Pcs
  <2>2. UNCHANGED <<local, host, doubt, unreviewed>>
    BY DEF FeedStep, Enter, Finish
  <2> QED
    BY <2>1, <2>2 DEF WorkerTypes, host
<1> QED
  BY <1>3, <1>4, <1>5 DEF FeedStep

LEMMA PrunedDumpsType == dumps \in [Ops -> Images] => PrunedDumps \in [Ops -> Images]
  BY KnownImages DEF PrunedDumps

LEMMA StackStepTypes ==
  ASSUME WorkerTypes, today \in Days, NEW op \in Ops, StackStep(op)
  PROVE  WorkerTypes' /\ UNCHANGED still
<1> USE DEF host
<1>1. /\ Proper(mem) /\ running \in Images /\ db \in Images /\ pulled \in Images
      /\ local[op].before \in Images
      /\ PrunedDumps \in [Ops -> Images]
  BY PrunedDumpsType DEF WorkerTypes
<1>2. /\ Proper(WithImages(mem, op, Snapshot))
      /\ Proper(WithImages(mem, op, local[op].before))
      /\ Proper(ScheduleCompleted(mem, "stack"))
      /\ Proper(InPhase(mem, op, "cleanup"))
  BY <1>1, WithImagesIsProper, ScheduleCompletedIsProper, InPhaseIsProper DEF Phases, Snapshot
<1>3. CASE \/ Enter(op, "checkpoint", "checkpoint", "backup")
           \/ Enter(op, "staging", "staging", "pull")
           \/ Enter(op, "cleanup", "cleanup", "unchanged")
           \/ Enter(op, "compare", "applying", "apply")
           \/ Enter(op, "verifying", "verifying", "verify")
  BY <1>3, EnterTypes DEF Phases, Pcs
<1>4. CASE Preflight(op)
  <2>1. Proper(mem') /\ pc' \in [Ops -> Pcs] /\ dirty' \in [Ops -> BOOLEAN] /\ UNCHANGED still
    BY <1>2, <1>4, ChangeTypes DEF Pcs, Preflight
  <2>2. local' \in [Ops -> [before : Images, backup : Ops \union {NoOp}, cancelled : BOOLEAN]]
    BY <1>1, <1>4 DEF WorkerTypes, Preflight, Snapshot
  <2> QED
    BY <1>1, <1>4, <2>1, <2>2 DEF WorkerTypes, Preflight, host
<1>5. CASE Backup(op)
  <2>1. Proper(IF mem.active.id = op THEN [mem EXCEPT !.backup = op] ELSE mem)
    BY <1>1 DEF Proper, State
  <2>2. Proper(mem') /\ pc' \in [Ops -> Pcs] /\ dirty' \in [Ops -> BOOLEAN] /\ UNCHANGED still
    BY <1>5, <2>1, ChangeTypes DEF Pcs, Backup
  <2>3. dumps' \in [Ops -> Images]
    BY <1>1, <1>5 DEF WorkerTypes, Backup
  <2>4. local' \in [Ops -> [before : Images, backup : Ops \union {NoOp}, cancelled : BOOLEAN]]
    BY <1>5 DEF WorkerTypes, Backup
  <2>5. doubt' \in Doubt /\ unreviewed' \subseteq Ops
        /\ running' \in Images /\ pulled' \in Images /\ db' \in Images
    BY <1>5 DEF WorkerTypes, Backup
  <2> QED
    BY <2>2, <2>3, <2>4, <2>5 DEF WorkerTypes
<1>6. CASE PullStack(op)
  <2>1. Proper(mem') /\ pc' \in [Ops -> Pcs] /\ dirty' \in [Ops -> BOOLEAN] /\ UNCHANGED still
    BY <1>2, <1>6, ChangeTypes DEF Pcs, PullStack
  <2>2. pulled' \in Images
    BY <1>6, KnownImages DEF PullStack
  <2> QED
    BY <1>6, <2>1, <2>2 DEF WorkerTypes, PullStack
<1>7. CASE Unchanged(op) \/ Record(op)
  <2>1. Proper(mem') /\ pc' \in [Ops -> Pcs] /\ dirty' \in [Ops -> BOOLEAN] /\ UNCHANGED still
    BY <1>2, <1>7, ChangeTypes DEF Pcs, Unchanged, Record
  <2> QED
    BY <1>7, <2>1 DEF WorkerTypes, Unchanged, Record
<1>8. CASE PruneUnchanged(op)
  <2>1. Proper(mem') /\ pc' \in [Ops -> Pcs] /\ dirty' \in [Ops -> BOOLEAN] /\ UNCHANGED still
    BY <1>8, MoveTypes DEF Pcs, PruneUnchanged
  <2> QED
    BY <1>1, <1>8, <2>1 DEF WorkerTypes, PruneUnchanged
<1>9. CASE Prune(op)
  <2>1. Proper(mem') /\ pc' \in [Ops -> Pcs] /\ dirty' \in [Ops -> BOOLEAN] /\ UNCHANGED still
    BY <1>2, <1>9, ChangeTypes DEF Pcs, Prune
  <2> QED
    BY <1>1, <1>9, <2>1 DEF WorkerTypes, Prune
<1>10. CASE ApplyBegin(op)
  <2>1. Proper(mem') /\ pc' \in [Ops -> Pcs] /\ dirty' \in [Ops -> BOOLEAN] /\ UNCHANGED still
    BY <1>10, MoveTypes DEF Pcs, ApplyBegin
  <2> QED
    BY <1>1, <1>10, <2>1, KnownImages DEF WorkerTypes, ApplyBegin, Doubt
<1>11. CASE ApplyEnd(op)
  <2>1. CASE running' = pulled /\ db' = pulled /\ Move(op, "verifying") /\ UNCHANGED local
    <3>1. Proper(mem') /\ pc' \in [Ops -> Pcs] /\ dirty' \in [Ops -> BOOLEAN] /\ UNCHANGED still
      BY <2>1, MoveTypes DEF Pcs
    <3> QED
      BY <1>1, <1>11, <2>1, <3>1 DEF WorkerTypes, ApplyEnd
  <2>2. CASE db' \in {db, pulled} /\ FallBack(op) /\ UNCHANGED running
    BY <1>1, <1>11, <2>2, FallBackTypes DEF WorkerTypes, ApplyEnd
  <2> QED
    BY <1>11, <2>1, <2>2 DEF ApplyEnd
<1>12. CASE Verify(op)
  <2>1. CASE /\ Change(op, mem, "record")
             /\ doubt' = [doubt EXCEPT !.settled = TRUE]
             /\ UNCHANGED local
    <3>1. Proper(mem') /\ pc' \in [Ops -> Pcs] /\ dirty' \in [Ops -> BOOLEAN] /\ UNCHANGED still
      BY <1>1, <2>1, ChangeTypes DEF Pcs
    <3> QED
      BY <1>12, <2>1, <3>1 DEF WorkerTypes, Verify, Doubt
  <2>2. CASE FallBack(op) /\ UNCHANGED doubt
    BY <1>12, <2>2, FallBackTypes DEF WorkerTypes, Verify
  <2> QED
    BY <1>12, <2>1, <2>2 DEF Verify
<1> QED
  BY <1>3, <1>4, <1>5, <1>6, <1>7, <1>8, <1>9, <1>10, <1>11, <1>12 DEF StackStep, Changed

LEMMA RollbackBeginTypes ==
  ASSUME WorkerTypes, NEW op \in Ops, NEW place, NEW next \in Pcs, RollbackBegin(op, place, next)
  PROVE  WorkerTypes' /\ UNCHANGED still
<1>1. Proper(mem') /\ pc' \in [Ops -> Pcs] /\ dirty' \in [Ops -> BOOLEAN] /\ UNCHANGED still
  BY MoveTypes DEF RollbackBegin
<1>2. pulled' \in Images /\ running' \in Images /\ unreviewed' \subseteq Ops
  BY KnownImages DEF RollbackBegin, WorkerTypes
<1> QED
  BY <1>1, <1>2 DEF WorkerTypes, RollbackBegin

LEMMA RollbackEndTypes ==
  ASSUME WorkerTypes, NEW op \in Ops, NEW place,
         RollbackDone(op, place) \/ RollbackFailed(op, place)
  PROVE  /\ running' \in Images /\ db' \in Images
         /\ UNCHANGED <<local, pulled, dumps, doubt, unreviewed>>
<1>1. DatabaseAfterRestore(op) \in Images
  BY DEF DatabaseAfterRestore, WorkerTypes
<1> QED
  BY <1>1, KnownImages DEF WorkerTypes, RollbackDone, RollbackFailed

LEMMA RestoredChangeTypes ==
  ASSUME WorkerTypes, NEW op \in Ops, NEW place, NEW s, Proper(s), NEW next \in Pcs,
         RollbackDone(op, place) \/ RollbackFailed(op, place),
         Change(op, s, next) \/ Move(op, next)
  PROVE  WorkerTypes' /\ UNCHANGED still
<1>1. Proper(mem') /\ pc' \in [Ops -> Pcs] /\ dirty' \in [Ops -> BOOLEAN] /\ UNCHANGED still
  BY ChangeTypes, MoveTypes
<1> QED
  BY <1>1, RollbackEndTypes DEF WorkerTypes

LEMMA RollbackStepTypes ==
  ASSUME WorkerTypes, NEW op \in Ops, RollbackStep(op)
  PROVE  WorkerTypes' /\ UNCHANGED still
<1>1. /\ Proper(Paused(mem)) /\ Proper(mem)
      /\ AfterFailedRollback(op) \in Pcs
  BY PausedIsProper DEF WorkerTypes, AfterFailedRollback, Pcs
<1>2. CASE Enter(op, "rollback", "rolling-back", "restore")
  BY <1>2, EnterTypes DEF Phases, Pcs
<1>3. CASE RollbackBegin(op, "restore", "restoring")
  BY <1>3, RollbackBeginTypes DEF Pcs
<1>4. CASE RollbackDone(op, "restoring") /\ Move(op, "reverify")
  BY <1>1, <1>4, RestoredChangeTypes DEF Pcs
<1>5. CASE RollbackFailed(op, "restoring") /\ Change(op, Paused(mem), AfterFailedRollback(op))
  BY <1>1, <1>5, RestoredChangeTypes
<1>6. CASE /\ At(op, "reverify")
           /\ \/ Change(op, Paused(mem), "finish-restored")
              \/ Change(op, Paused(mem), AfterFailedRollback(op))
           /\ UNCHANGED <<local, host, doubt, unreviewed>>
  <2>1. Proper(mem') /\ pc' \in [Ops -> Pcs] /\ dirty' \in [Ops -> BOOLEAN] /\ UNCHANGED still
    BY <1>1, <1>6, ChangeTypes DEF Pcs
  <2> QED
    BY <1>6, <2>1 DEF WorkerTypes, host
<1>7. CASE Finish(op, "finish-restored", "rolled-back", "complete")
  BY <1>7, FinishTypes DEF TerminalPhases, Pcs
<1> QED
  BY <1>2, <1>3, <1>4, <1>5, <1>6, <1>7 DEF RollbackStep

LEMMA RecoverStepTypes ==
  ASSUME WorkerTypes, NEW op \in Ops, RecoverStep(op)
  PROVE  WorkerTypes' /\ UNCHANGED still
<1>1. Proper(Paused(mem)) /\ Proper(mem) /\ Proper(Finished(mem, op, "failed"))
  BY PausedIsProper, FinishedIsProper DEF WorkerTypes, TerminalPhases
<1>2. CASE Enter(op, "recover", "rolling-back", "recover-restore")
  BY <1>2, EnterTypes DEF Phases, Pcs
<1>3. CASE RollbackBegin(op, "recover-restore", "recover-restoring")
  BY <1>3, RollbackBeginTypes DEF Pcs
<1>4. CASE Recovered(op)
  BY <1>1, <1>4, RestoredChangeTypes DEF Pcs, Recovered
<1>5. CASE /\ RollbackFailed(op, "recover-restoring")
           /\ IF CanFinish(mem, op)
              THEN Change(op, Finished(mem, op, "failed"), "recover-pause")
              ELSE Move(op, "recover-pause")
  BY <1>1, <1>5, RestoredChangeTypes DEF Pcs
<1>6. CASE /\ At(op, "recover-pause")
           /\ Change(op, Paused(mem), "done")
           /\ UNCHANGED <<local, host, doubt, unreviewed>>
  <2>1. Proper(mem') /\ pc' \in [Ops -> Pcs] /\ dirty' \in [Ops -> BOOLEAN] /\ UNCHANGED still
    BY <1>1, <1>6, ChangeTypes DEF Pcs
  <2> QED
    BY <1>6, <2>1 DEF WorkerTypes, host
<1>7. CASE \/ Finish(op, "finish-recovered", "rolled-back", "done")
           \/ Finish(op, "recover-stop", "degraded", "done")
  BY <1>7, FinishTypes DEF TerminalPhases, Pcs
<1> QED
  BY <1>2, <1>3, <1>4, <1>5, <1>6, <1>7 DEF RecoverStep

\* The remaining steps of a goroutine that its own loop may repeat.
LEMMA ShortStepTypes ==
  ASSUME WorkerTypes, today \in Days, NEW op \in Ops,
         \/ Execute(op)
         \/ OperationError(op)
         \/ Succeed(op)
         \/ ReportFailure(op)
         \/ Check(op)
         \/ ScansIdle(op)
         \/ ScansActive(op)
         \/ Defer(op)
  PROVE  WorkerTypes' /\ UNCHANGED still
<1>1. /\ Proper(mem) /\ Proper(InPhase(mem, op, "preflight"))
      /\ Proper(ScheduleCompleted(mem, "stack"))
  BY InPhaseIsProper, ScheduleCompletedIsProper DEF WorkerTypes, Phases
<1>2. CASE Execute(op) \/ OperationError(op) \/ Check(op)
  <2>1. Proper(mem') /\ pc' \in [Ops -> Pcs] /\ dirty' \in [Ops -> BOOLEAN] /\ UNCHANGED still
    <3>1. {"scans", "feed-preflight", "check", "done", "fail", "check-saved"} \subseteq Pcs
      BY DEF Pcs
    <3>2. \/ \E next \in {"scans", "done", "fail"} : Move(op, next)
          \/ \E next \in {"feed-preflight", "check", "check-saved"} :
                \E s \in {mem, InPhase(mem, op, "preflight")} : Change(op, s, next)
      BY <1>2 DEF Execute, OperationError, Check
    <3> QED
      BY <1>1, <3>1, <3>2, ChangeTypes, MoveTypes
  <2>2. UNCHANGED <<local, host, doubt, unreviewed>>
    BY <1>2 DEF Execute, OperationError, Check
  <2> QED
    BY <2>1, <2>2 DEF WorkerTypes, host
<1>3. CASE \/ Succeed(op) \/ ReportFailure(op)
           \/ Finish(op, "scans", "cancelled", "deferred")
  BY <1>3, FinishTypes DEF TerminalPhases, Pcs, Succeed, ReportFailure
<1>4. CASE ScansIdle(op) \/ ScansActive(op)
  BY <1>4, EnterTypes DEF Phases, Pcs, ScansIdle, ScansActive
<1>5. CASE /\ At(op, "deferred")
           /\ Change(op, ScheduleCompleted(mem, "stack"), "complete")
           /\ UNCHANGED <<local, host, doubt, unreviewed>>
  <2>1. Proper(mem') /\ pc' \in [Ops -> Pcs] /\ dirty' \in [Ops -> BOOLEAN] /\ UNCHANGED still
    BY <1>1, <1>5, ChangeTypes DEF Pcs
  <2> QED
    BY <1>5, <2>1 DEF WorkerTypes, host
<1> QED
  BY <1>2, <1>3, <1>4, <1>5 DEF Defer

\* Saves at the end of a locked change, of Trigger and of a request.
LEMMA SavingTypes ==
  ASSUME TypeOK,
         RequestSave \/ \E op \in Ops : WorkerSave(op) \/ TriggerSave(op)
  PROVE  TypeOK'
<1>1. \E saved \in BOOLEAN : Persist(saved)
  BY DEF RequestSave, WorkerSave, TriggerSave
<1>2. Proper(durable') /\ doubt' \in Doubt /\ recorded' \subseteq Ops
  BY <1>1, PersistTypes
<1>3. CASE RequestSave
  BY <1>2, <1>3 DEF TypeOK, RequestSave, host, Proper
<1>4. ASSUME NEW op \in Ops, WorkerSave(op) PROVE TypeOK'
  BY <1>2, <1>4 DEF TypeOK, WorkerSave, host, Proper, Pcs
<1>5. ASSUME NEW op \in Ops, TriggerSave(op) PROVE TypeOK'
  BY <1>2, <1>5 DEF TypeOK, TriggerSave, host, Proper, Pcs
<1> QED
  BY <1>3, <1>4, <1>5

LEMMA AcceptTypes ==
  ASSUME TypeOK, NEW kind \in Kinds, NEW trigger \in Triggers, NEW key \in Keys,
         Acceptable(kind, key), Accept(kind, trigger, key),
         tick' \in {NoTick} \union [kind : Kinds, key : Keys]
  PROVE  TypeOK'
<1> DEFINE op == issued + 1
           accepted == [mem EXCEPT
                 !.active = [id |-> op, phase |-> "queued", before |-> None],
                 !.backup = NoOp,
                 !.idem[key] = op]
<1>1. op \in Ops /\ issued + 1 \in 0 .. MaxOps
  BY ConstantsAssumption DEF TypeOK, Acceptable, Ops
<1>2. Proper(accepted)
  BY <1>1, KnownImages DEF TypeOK, Proper, State, Operation, Phases
<1>3. Proper(mem')
  BY <1>2, TrimmedIsProper DEF Accept
<1>4. /\ request' \in [Ops -> Request \union {NoRequest}]
      /\ pc' \in [Ops -> Pcs]
  BY <1>1 DEF TypeOK, Accept, Request, Pcs
<1> QED
  BY <1>1, <1>3, <1>4 DEF TypeOK, Accept, host, ghosts, Proper

LEMMA RequestTypes ==
  ASSUME TypeOK,
         \/ \E kind \in Kinds, key \in AdminKeys : TriggerAdmin(kind, key)
         \/ \E op \in Ops : TriggerWithdraw(op)
         \/ CheckSchedule
         \/ TriggerScheduled
         \/ Acknowledge
         \/ Configure
  PROVE  TypeOK'
<1>1. ASSUME NEW kind \in Kinds, NEW key \in AdminKeys, TriggerAdmin(kind, key) PROVE TypeOK'
  <2>1. key \in Keys /\ "admin" \in Triggers /\ tick' \in {NoTick} \union [kind : Kinds, key : Keys]
    BY <1>1 DEF Keys, Triggers, TypeOK, TriggerAdmin
  <2> QED
    BY <1>1, <2>1, AcceptTypes DEF TriggerAdmin
<1>2. ASSUME NEW op \in Ops, TriggerWithdraw(op) PROVE TypeOK'
  <2>1. NoOperation \in Operation
    BY KnownImages DEF NoOperation, Operation, Phases, TerminalPhases
  <2>2. Proper(mem')
    BY <1>2, <2>1 DEF TypeOK, Proper, State, TriggerWithdraw
  <2> QED
    BY <1>2, <2>2 DEF TypeOK, TriggerWithdraw, host, ghosts, Proper, Pcs
<1>3. CASE CheckSchedule
  <2>1. tick' \in [kind : Kinds, key : Keys]
    BY <1>3 DEF CheckSchedule, Keys, TypeOK
  <2> QED
    BY <1>3, <2>1 DEF TypeOK, CheckSchedule, host, ghosts
<1>4. CASE TriggerScheduled
  <2>1. CASE Acceptable(tick.kind, tick.key)
    <3>1. tick.kind \in Kinds /\ tick.key \in Keys /\ "scheduled" \in Triggers
      BY <1>4 DEF TriggerScheduled, TypeOK, Triggers
    <3>2. Accept(tick.kind, "scheduled", tick.key) /\ tick' = NoTick
      BY <1>4, <2>1 DEF TriggerScheduled
    <3> QED
      BY <2>1, <3>1, <3>2, AcceptTypes
  <2>2. CASE ~Acceptable(tick.kind, tick.key)
    BY <1>4, <2>2 DEF TypeOK, TriggerScheduled, host, ghosts
  <2> QED
    BY <2>1, <2>2
<1>5. CASE Acknowledge
  <2>1. Proper(mem')
    BY <1>5 DEF TypeOK, Proper, State, Acknowledge
  <2> QED
    BY <1>5, <2>1 DEF TypeOK, Acknowledge, host, Proper
<1>6. CASE Configure
  BY <1>6 DEF TypeOK, Configure, host, ghosts
<1> QED
  BY <1>1, <1>2, <1>3, <1>4, <1>5, <1>6

LEMMA ProcessTypes ==
  ASSUME TypeOK, Start \/ Stop \/ Exit \/ Crash \/ NextDay
  PROVE  TypeOK'
<1>1. CASE Start
  <2>1. durable.active.id \in Ops \union {NoOp} /\ durable.active.before \in Images
        /\ durable.backup \in Ops \union {NoOp}
    BY DEF TypeOK, State, Operation
  <2>2. pc' \in [Ops -> Pcs]
    BY <1>1 DEF TypeOK, Start, Pcs
  <2>3. local' \in [Ops -> [before : Images, backup : Ops \union {NoOp}, cancelled : BOOLEAN]]
    <3>1. [before |-> durable.active.before, backup |-> durable.backup, cancelled |-> FALSE]
            \in [before : Images, backup : Ops \union {NoOp}, cancelled : BOOLEAN]
      BY <2>1
    <3>2. local' = local \/ local' = [local EXCEPT ![durable.active.id] =
             [before |-> durable.active.before, backup |-> durable.backup, cancelled |-> FALSE]]
      BY <1>1 DEF Start
    <3> QED
      BY <3>1, <3>2 DEF TypeOK
  <2> QED
    BY <1>1, <2>2, <2>3 DEF TypeOK, Start, host, ghosts
<1>2. CASE Gone /\ faults' \in Nat
  <2>1. NoLocal \in [before : Images, backup : Ops \union {NoOp}, cancelled : BOOLEAN]
    BY KnownImages DEF NoLocal
  <2> QED
    BY <1>2, <2>1 DEF TypeOK, Gone, host, ghosts, Pcs
<1>3. CASE Stop
  BY <1>3 DEF TypeOK, Stop, controller, host, ghosts
<1>4. CASE NextDay
  BY <1>4, ConstantsAssumption DEF TypeOK, NextDay, controller, host, ghosts, Days
<1> QED
  BY <1>1, <1>2, <1>3, <1>4 DEF Exit, Crash, TypeOK

LEMMA InitTypes == Init => TypeOK
<1> SUFFICES ASSUME Init PROVE TypeOK
  OBVIOUS
<1>1. NoLocal \in [before : Images, backup : Ops \union {NoOp}, cancelled : BOOLEAN]
      /\ NoDoubt \in Doubt /\ 1 \in Days
  BY KnownImages, ConstantsAssumption DEF NoLocal, NoDoubt, Doubt, Days
<1> QED
  BY <1>1, EmptyStateIsProper, KnownImages, ConstantsAssumption DEF Init, TypeOK, Proper, Pcs

LEMMA NextTypes == TypeOK /\ [Next]_vars => TypeOK'
<1> SUFFICES ASSUME TypeOK, [Next]_vars PROVE TypeOK'
  OBVIOUS
<1>1. ASSUME NEW op \in Ops, Progress(op) \/ ScansActive(op) PROVE TypeOK'
  <2>1. CASE TriggerSave(op) \/ WorkerSave(op)
    BY <2>1, SavingTypes
  <2>2. CASE TriggerWithdraw(op)
    BY <2>2, RequestTypes
  <2>3. CASE ~(TriggerSave(op) \/ WorkerSave(op) \/ TriggerWithdraw(op))
    <3>1. WorkerTypes' /\ UNCHANGED still
      BY <1>1, <2>3, WorkerTypesHold, ShortStepTypes, FeedStepTypes, StackStepTypes,
         RollbackStepTypes, RecoverStepTypes
      DEF Progress
    <3> QED
      BY <3>1, WorkerTypesSuffice
  <2> QED
    BY <2>1, <2>2, <2>3
<1>2. CASE UNCHANGED vars
  BY <1>2 DEF TypeOK, vars
<1> QED
  BY <1>1, <1>2, RequestTypes, SavingTypes, ProcessTypes DEF Next

\* Every reachable state is one the code could hold: the history never outgrows
\* its limit and images, dumps and operations stay within their ranges.
THEOREM TypeCorrect == Spec => []TypeOK
BY InitTypes, NextTypes, PTL DEF Spec

-----------------------------------------------------------------------------
(* One operation at a time                                                  *)
(*                                                                          *)
(* OneOperationAtATime is not inductive: it says nothing of what keeps a    *)
(* second operation out. The invariant that does: a goroutine that may      *)
(* still run commands works on the active operation, which has no outcome   *)
(* yet, and a helper that is down has no goroutine.                         *)

WorkersOwnTheActiveOperation ==
    \A o \in Ops : pc[o] \in WorkingPcs => mem.active.id = o /\ ~Terminal(mem.active.phase)

DownIsIdle == up = "down" => \A o \in Ops : pc[o] \in {"idle", "done"}

WorkInv == WorkersOwnTheActiveOperation /\ DownIsIdle

\* What a step of op's goroutine must respect.
LEMMA GoroutineStepKeepsWork ==
  ASSUME TypeOK, WorkInv, NEW op \in Ops, NEW next,
         pc[op] \notin {"idle", "done"},
         pc' = [pc EXCEPT ![op] = next],
         UNCHANGED up,
         mem'.active.id = mem.active.id,
         mem.active.id # op => mem'.active.phase = mem.active.phase,
         next \in WorkingPcs =>
            pc[op] \in WorkingPcs /\ (Terminal(mem'.active.phase) => Terminal(mem.active.phase))
  PROVE  WorkInv'
<1>1. up' # "down"
  BY DEF WorkInv, DownIsIdle
<1>2. ASSUME NEW o \in Ops, pc'[o] \in WorkingPcs
      PROVE  mem'.active.id = o /\ ~Terminal(mem'.active.phase)
  <2>1. CASE o = op
    BY <1>2, <2>1 DEF TypeOK, WorkInv, WorkersOwnTheActiveOperation
  <2>2. CASE o # op
    BY <1>2, <2>2 DEF TypeOK, WorkInv, WorkersOwnTheActiveOperation
  <2> QED
    BY <2>1, <2>2
<1>3. WorkersOwnTheActiveOperation'
  BY <1>2, Zenon DEF WorkersOwnTheActiveOperation, WorkingPcs, Pcs
<1> QED
  BY <1>1, <1>3 DEF WorkInv, DownIsIdle

\* A step that leaves the active operation and its phase alone.
LEMMA PhaseKeptKeepsWork ==
  ASSUME TypeOK, WorkInv, NEW op \in Ops, NEW s, NEW next,
         Change(op, s, next) \/ Move(op, next),
         s.active.id = mem.active.id, s.active.phase = mem.active.phase,
         pc[op] \notin {"idle", "done"},
         next \in WorkingPcs => pc[op] \in WorkingPcs
  PROVE  WorkInv'
BY GoroutineStepKeepsWork DEF Change, Move, still

LEMMA EnterKeepsWork ==
  ASSUME TypeOK, WorkInv, NEW op \in Ops, NEW place \in WorkingPcs,
         NEW phase \in Phases \ TerminalPhases, NEW next,
         Enter(op, place, phase, next)
  PROVE  WorkInv'
<1>1. /\ pc[op] \in WorkingPcs
      /\ pc' = [pc EXCEPT ![op] = next]
      /\ mem' = InPhase(mem, op, phase)
      /\ UNCHANGED up
  BY DEF Enter, At, Change, still
<1>2. pc[op] \notin {"idle", "done"}
  BY <1>1 DEF WorkingPcs
<1>3. mem.active.id = op /\ mem'.active.id = op /\ mem'.active.phase = phase
  BY <1>1 DEF WorkInv, WorkersOwnTheActiveOperation, InPhase, TypeOK, State, Operation
<1> QED
  BY <1>1, <1>2, <1>3, GoroutineStepKeepsWork DEF Terminal

LEMMA FinishKeepsWork ==
  ASSUME TypeOK, WorkInv, NEW op \in Ops, NEW place, NEW outcome \in TerminalPhases, NEW next,
         place \notin {"idle", "done"}, next \notin WorkingPcs,
         Finish(op, place, outcome, next)
  PROVE  WorkInv'
<1>1. CASE CanFinish(mem, op)
  <2>1. Proper(mem)
    BY DEF TypeOK, Proper
  <2> QED
    BY <1>1, <2>1, FinishedIsProper, GoroutineStepKeepsWork DEF Finish, At, Change, still, CanFinish
<1>2. CASE ~CanFinish(mem, op)
  BY <1>2, PhaseKeptKeepsWork DEF Finish, At
<1> QED
  BY <1>1, <1>2

LEMMA FeedStepKeepsWork ==
  ASSUME TypeOK, WorkInv, NEW op \in Ops, FeedStep(op)
  PROVE  WorkInv'
<1>1. /\ Proper(mem) /\ running \in Images /\ today \in Days
  BY DEF TypeOK, Proper
<1>2. CASE \/ Enter(op, "feed-pulling", "pulling", "feed-pull")
           \/ Enter(op, "feed-compare", "applying", "feed-apply")
           \/ Enter(op, "feed-apply", "importing", "feed-import")
           \/ Enter(op, "feed-cleanup", "cleanup", "complete")
  BY <1>2, EnterKeepsWork, SMTT(30) DEF Phases, TerminalPhases, WorkingPcs, Pcs
<1>3. CASE Finish(op, "feed-import", "degraded", "complete")
  <2>1. "degraded" \in TerminalPhases /\ "complete" \notin WorkingPcs
    BY DEF TerminalPhases, WorkingPcs
  <2> QED
    BY <1>3, <2>1, FinishKeepsWork
<1>4. CASE At(op, "feed-preflight") /\ Change(op, WithImages(mem, op, Snapshot), "feed-pulling")
  BY <1>1, <1>4, WithImagesIsProper, PhaseKeptKeepsWork DEF At, WorkingPcs, Pcs, Snapshot
<1>6. CASE At(op, "feed-pull") /\ Change(op, WithImages(mem, op, Snapshot), "feed-compare")
  BY <1>1, <1>6, WithImagesIsProper, PhaseKeptKeepsWork DEF At, WorkingPcs, Pcs, Snapshot
<1>5. CASE /\ At(op, "feed-compare") \/ At(op, "feed-import")
           /\ Change(op, ScheduleCompleted(mem, "feed"), "feed-cleanup")
  BY <1>1, <1>5, ScheduleCompletedIsProper, PhaseKeptKeepsWork DEF At, WorkingPcs, Pcs
<1> QED
  BY <1>2, <1>3, <1>4, <1>5, <1>6 DEF FeedStep

LEMMA StackStepKeepsWork ==
  ASSUME TypeOK, WorkInv, NEW op \in Ops, StackStep(op)
  PROVE  WorkInv'
<1>1. /\ Proper(mem) /\ running \in Images /\ today \in Days
      /\ local[op].before \in Images
  BY DEF TypeOK, Proper
<1>2. CASE \/ Enter(op, "checkpoint", "checkpoint", "backup")
           \/ Enter(op, "staging", "staging", "pull")
           \/ Enter(op, "cleanup", "cleanup", "unchanged")
           \/ Enter(op, "compare", "applying", "apply")
           \/ Enter(op, "verifying", "verifying", "verify")
  BY <1>2, EnterKeepsWork DEF Phases, TerminalPhases, WorkingPcs, Pcs
<1>3. CASE Preflight(op) \/ PullStack(op)
  BY <1>1, <1>3, WithImagesIsProper, PhaseKeptKeepsWork
  DEF At, WorkingPcs, Pcs, Preflight, PullStack, Snapshot
<1>4. CASE Backup(op)
  BY <1>1, <1>4, PhaseKeptKeepsWork DEF At, WorkingPcs, Pcs, Backup, Proper, State
<1>5. CASE Unchanged(op) \/ Record(op)
  BY <1>1, <1>5, ScheduleCompletedIsProper, PhaseKeptKeepsWork
  DEF At, WorkingPcs, Pcs, Unchanged, Record
<1>6. CASE PruneUnchanged(op) \/ ApplyBegin(op)
  BY <1>6, PhaseKeptKeepsWork DEF At, WorkingPcs, Pcs, PruneUnchanged, ApplyBegin
<1>7. CASE Prune(op)
  <2>1. Proper(mem) /\ "cleanup" \in Phases
    BY <1>1 DEF Phases
  <2> QED
    BY <1>7, <2>1, InPhaseIsProper, GoroutineStepKeepsWork
    DEF At, WorkingPcs, Prune, Change, still, InPhase
<1>8. CASE ApplyEnd(op) \/ Verify(op)
  BY <1>8, PhaseKeptKeepsWork DEF At, WorkingPcs, Pcs, ApplyEnd, Verify, FallBack
<1> QED
  BY <1>2, <1>3, <1>4, <1>5, <1>6, <1>7, <1>8 DEF StackStep, Changed

LEMMA RollbackStepKeepsWork ==
  ASSUME TypeOK, WorkInv, NEW op \in Ops, RollbackStep(op)
  PROVE  WorkInv'
<1>1. /\ Paused(mem).active = mem.active
      /\ AfterFailedRollback(op) \in {"done", "fail"}
  BY PausedIsProper DEF TypeOK, Proper, AfterFailedRollback
<1>2. CASE Enter(op, "rollback", "rolling-back", "restore")
  BY <1>2, EnterKeepsWork DEF Phases, TerminalPhases, WorkingPcs, Pcs
<1>3. CASE RollbackBegin(op, "restore", "restoring")
  BY <1>3, PhaseKeptKeepsWork DEF At, WorkingPcs, Pcs, RollbackBegin
<1>4. CASE RollbackDone(op, "restoring") /\ Move(op, "reverify")
  BY <1>4, PhaseKeptKeepsWork DEF At, WorkingPcs, Pcs, RollbackDone
<1>5. CASE RollbackFailed(op, "restoring") /\ Change(op, Paused(mem), AfterFailedRollback(op))
  BY <1>1, <1>5, PhaseKeptKeepsWork DEF At, WorkingPcs, Pcs, RollbackFailed
<1>6. CASE /\ At(op, "reverify")
           /\ \/ Change(op, Paused(mem), "finish-restored")
              \/ Change(op, Paused(mem), AfterFailedRollback(op))
  BY <1>1, <1>6, PhaseKeptKeepsWork DEF At, WorkingPcs, Pcs
<1>7. CASE Finish(op, "finish-restored", "rolled-back", "complete")
  BY <1>7, FinishKeepsWork DEF TerminalPhases, WorkingPcs
<1> QED
  BY <1>2, <1>3, <1>4, <1>5, <1>6, <1>7 DEF RollbackStep

LEMMA RecoverStepKeepsWork ==
  ASSUME TypeOK, WorkInv, NEW op \in Ops, RecoverStep(op)
  PROVE  WorkInv'
<1>1. /\ Proper(mem)
      /\ Paused(mem).active = mem.active
  BY PausedIsProper DEF TypeOK, Proper
<1>2. CASE Enter(op, "recover", "rolling-back", "recover-restore")
  BY <1>2, EnterKeepsWork DEF Phases, TerminalPhases, WorkingPcs, Pcs
<1>3. CASE RollbackBegin(op, "recover-restore", "recover-restoring")
  BY <1>3, PhaseKeptKeepsWork DEF At, WorkingPcs, Pcs, RollbackBegin
<1>4. CASE Recovered(op)
  BY <1>1, <1>4, PhaseKeptKeepsWork DEF At, WorkingPcs, Pcs, RollbackDone, Recovered
<1>5. CASE /\ RollbackFailed(op, "recover-restoring")
           /\ CanFinish(mem, op)
           /\ Change(op, Finished(mem, op, "failed"), "recover-pause")
  <2>1. pc[op] = "recover-restoring" /\ mem.active.id = op
    BY <1>5 DEF RollbackFailed, At, CanFinish
  <2>2. "failed" \in TerminalPhases
    BY DEF TerminalPhases
  <2>3. Finished(mem, op, "failed").active.id = mem.active.id
    BY <1>1, <2>2, FinishedIsProper
  <2> QED
    BY <1>5, <2>1, <2>3, GoroutineStepKeepsWork DEF Change, still, WorkingPcs
<1>6. CASE RollbackFailed(op, "recover-restoring") /\ Move(op, "recover-pause")
  BY <1>6, PhaseKeptKeepsWork DEF At, WorkingPcs, RollbackFailed
<1>7. CASE At(op, "recover-pause") /\ Change(op, Paused(mem), "done")
  BY <1>1, <1>7, PhaseKeptKeepsWork DEF At, WorkingPcs
<1>8. CASE \/ Finish(op, "finish-recovered", "rolled-back", "done")
           \/ Finish(op, "recover-stop", "degraded", "done")
  <2>1. "done" \notin WorkingPcs /\ {"rolled-back", "degraded"} \subseteq TerminalPhases
    BY DEF WorkingPcs, TerminalPhases
  <2> QED
    BY <1>8, <2>1, FinishKeepsWork
<1> QED
  BY <1>2, <1>3, <1>4, <1>5, <1>6, <1>7, <1>8 DEF RecoverStep

LEMMA ShortStepKeepsWork ==
  ASSUME TypeOK, WorkInv, NEW op \in Ops,
         \/ Execute(op)
         \/ OperationError(op)
         \/ Succeed(op)
         \/ ReportFailure(op)
         \/ Check(op)
         \/ ScansIdle(op)
         \/ ScansActive(op)
         \/ Defer(op)
  PROVE  WorkInv'
<1>1. Proper(mem) /\ today \in Days
  BY DEF TypeOK, Proper
<1>2. CASE Execute(op)
  <2>1. CASE At(op, "start") /\ Move(op, "scans")
    BY <2>1, PhaseKeptKeepsWork DEF At, WorkingPcs, Pcs
  <2>2. CASE \/ Enter(op, "start", "preflight", "feed-preflight")
             \/ Enter(op, "start", "preflight", "check")
    BY <2>2, EnterKeepsWork DEF Phases, TerminalPhases, WorkingPcs, Pcs
  <2> QED
    BY <1>2, <2>1, <2>2 DEF Execute, Enter
<1>3. CASE OperationError(op) \/ Check(op)
  <2>1. CASE OperationError(op)
    <3>1. pc[op] \in WorkingPcs /\ pc[op] \notin {"idle", "done"}
      BY <2>1 DEF OperationError, FalliblePcs, WorkingPcs, Pcs
    <3>2. Move(op, "done") \/ Move(op, "fail")
      BY <2>1 DEF OperationError
    <3> QED
      BY <3>1, <3>2, PhaseKeptKeepsWork
  <2>2. CASE Check(op)
    BY <2>2, PhaseKeptKeepsWork DEF At, WorkingPcs, Pcs, Check
  <2> QED
    BY <1>3, <2>1, <2>2
<1>4. CASE Succeed(op) \/ ReportFailure(op) \/ Finish(op, "scans", "cancelled", "deferred")
  BY <1>4, FinishKeepsWork DEF TerminalPhases, WorkingPcs, Succeed, ReportFailure
<1>5. CASE ScansIdle(op) \/ ScansActive(op)
  BY <1>5, EnterKeepsWork
  DEF Phases, TerminalPhases, WorkingPcs, Pcs, ScansIdle, ScansActive
<1>6. CASE At(op, "deferred") /\ Change(op, ScheduleCompleted(mem, "stack"), "complete")
  BY <1>1, <1>6, ScheduleCompletedIsProper, PhaseKeptKeepsWork DEF At, WorkingPcs
<1> QED
  BY <1>2, <1>3, <1>4, <1>5, <1>6 DEF Defer

LEMMA SavingKeepsWork ==
  ASSUME TypeOK, WorkInv,
         RequestSave \/ \E op \in Ops : WorkerSave(op) \/ TriggerSave(op)
  PROVE  WorkInv'
<1>1. CASE RequestSave
  BY <1>1 DEF RequestSave, WorkInv, WorkersOwnTheActiveOperation, DownIsIdle
<1>2. ASSUME NEW op \in Ops, TriggerSave(op) PROVE WorkInv'
  <2>1. PICK next \in {"start", "withdraw"} : pc' = [pc EXCEPT ![op] = next]
    BY <1>2 DEF TriggerSave
  <2> QED
    BY <1>2, <2>1, GoroutineStepKeepsWork DEF TriggerSave, WorkingPcs, Pcs
<1>3. ASSUME NEW op \in Ops, WorkerSave(op) PROVE WorkInv'
  <2>1. CASE pc' = pc
    BY <1>3, <2>1 DEF WorkerSave, WorkInv, WorkersOwnTheActiveOperation, DownIsIdle
  <2>2. CASE pc[op] \in StrictSaves /\ pc' = [pc EXCEPT ![op] = "fail"]
    <3>1. pc[op] \in WorkingPcs /\ pc[op] \notin {"idle", "done"}
      BY <2>2 DEF StrictSaves, WorkingPcs, Pcs
    <3> QED
      BY <1>3, <2>2, <3>1, GoroutineStepKeepsWork DEF WorkerSave
  <2> QED
    BY <1>3, <2>1, <2>2 DEF WorkerSave
<1> QED
  BY <1>1, <1>2, <1>3

LEMMA AcceptKeepsWork ==
  ASSUME TypeOK, WorkInv, NEW kind \in Kinds, NEW trigger, NEW key \in Keys,
         Acceptable(kind, key), Accept(kind, trigger, key)
  PROVE  WorkInv'
<1> DEFINE op == issued + 1
           accepted == [mem EXCEPT
                 !.active = [id |-> op, phase |-> "queued", before |-> None],
                 !.backup = NoOp,
                 !.idem[key] = op]
<1>1. op \in Ops
  BY ConstantsAssumption DEF TypeOK, Acceptable, Ops
<1>2. Proper(accepted)
  BY <1>1, KnownImages DEF TypeOK, Proper, State, Operation, Phases
<1>3. mem'.active = [id |-> op, phase |-> "queued", before |-> None]
  <2>1. mem' = Trimmed(accepted)
    BY DEF Accept
  <2>2. accepted.active = [id |-> op, phase |-> "queued", before |-> None]
    BY DEF TypeOK, State
  <2> QED
    BY <1>2, <2>1, <2>2, TrimmedIsProper
<1>4. \A o \in Ops : pc[o] \notin WorkingPcs
  BY OpIsNotNoOp DEF Acceptable, Busy, WorkInv, WorkersOwnTheActiveOperation
<1>5. \A o \in Ops : pc'[o] \in WorkingPcs => o = op
  BY <1>1, <1>4 DEF Accept, TypeOK
<1>6. up' # "down"
  BY DEF Accept, Acceptable
<1> QED
  BY <1>1, <1>3, <1>5, <1>6
  DEF WorkInv, WorkersOwnTheActiveOperation, DownIsIdle, Terminal, TerminalPhases

LEMMA RequestKeepsWork ==
  ASSUME TypeOK, WorkInv,
         \/ \E kind \in Kinds, key \in AdminKeys : TriggerAdmin(kind, key)
         \/ \E op \in Ops : TriggerWithdraw(op)
         \/ CheckSchedule
         \/ TriggerScheduled
         \/ Acknowledge
         \/ Configure
  PROVE  WorkInv'
<1>1. ASSUME NEW kind \in Kinds, NEW key \in AdminKeys, TriggerAdmin(kind, key) PROVE WorkInv'
  BY <1>1, AcceptKeepsWork DEF TriggerAdmin, Keys
<1>2. ASSUME NEW op \in Ops, TriggerWithdraw(op) PROVE WorkInv'
  <2>1. \A o \in Ops \ {op} : pc'[o] = pc[o]
    BY <1>2 DEF TriggerWithdraw, TypeOK
  <2>2. pc'[op] \notin WorkingPcs
    BY <1>2 DEF TriggerWithdraw, TypeOK, WorkingPcs
  <2>3. mem.active.id # op => mem' = mem
    BY <1>2 DEF TriggerWithdraw
  <2>4. \A o \in Ops : pc'[o] \in WorkingPcs => mem'.active.id = o /\ ~Terminal(mem'.active.phase)
    BY <2>1, <2>2, <2>3 DEF WorkInv, WorkersOwnTheActiveOperation
  <2>5. up' # "down"
    BY <1>2 DEF TriggerWithdraw, WorkInv, DownIsIdle
  <2> QED
    BY <2>4, <2>5 DEF WorkInv, WorkersOwnTheActiveOperation, DownIsIdle
<1>3. CASE CheckSchedule \/ Configure
  BY <1>3 DEF CheckSchedule, Configure, WorkInv, WorkersOwnTheActiveOperation, DownIsIdle
<1>4. CASE TriggerScheduled
  <2>1. CASE Acceptable(tick.kind, tick.key)
    <3>1. tick.kind \in Kinds /\ tick.key \in Keys
      BY <1>4 DEF TriggerScheduled, TypeOK
    <3> QED
      BY <1>4, <2>1, <3>1, AcceptKeepsWork DEF TriggerScheduled
  <2>2. CASE ~Acceptable(tick.kind, tick.key)
    BY <1>4, <2>2 DEF TriggerScheduled, WorkInv, WorkersOwnTheActiveOperation, DownIsIdle
  <2> QED
    BY <2>1, <2>2
<1>5. CASE Acknowledge
  <2>1. mem'.active = mem.active /\ pc' = pc /\ up' = up
    BY <1>5 DEF Acknowledge, TypeOK, State
  <2> QED
    BY <2>1 DEF WorkInv, WorkersOwnTheActiveOperation, DownIsIdle
<1> QED
  BY <1>1, <1>2, <1>3, <1>4, <1>5

LEMMA ProcessKeepsWork ==
  ASSUME TypeOK, WorkInv, Start \/ Stop \/ Exit \/ Crash \/ NextDay
  PROVE  WorkInv'
<1>1. CASE Start
  <2>1. \A o \in Ops : pc[o] \notin WorkingPcs
    BY <1>1 DEF Start, WorkInv, DownIsIdle, WorkingPcs
  <2>2. CASE Interrupted
    <3>1. \A o \in Ops : pc'[o] # pc[o] => o = durable.active.id
      BY <1>1, <2>2 DEF Start, TypeOK
    <3> QED
      BY <1>1, <2>1, <2>2, <3>1
      DEF Start, Interrupted, Busy, WorkInv, WorkersOwnTheActiveOperation, DownIsIdle
  <2>3. CASE ~Interrupted
    BY <1>1, <2>1, <2>3 DEF Start, WorkInv, WorkersOwnTheActiveOperation, DownIsIdle
  <2> QED
    BY <2>2, <2>3
<1>2. CASE Gone
  BY <1>2 DEF Gone, WorkInv, WorkersOwnTheActiveOperation, DownIsIdle, WorkingPcs
<1>3. CASE Stop \/ NextDay
  BY <1>3 DEF Stop, NextDay, controller, WorkInv, WorkersOwnTheActiveOperation, DownIsIdle
<1> QED
  BY <1>1, <1>2, <1>3 DEF Exit, Crash

LEMMA InitWork == Init => WorkInv
  BY DEF Init, WorkInv, WorkersOwnTheActiveOperation, DownIsIdle, WorkingPcs

LEMMA NextKeepsWork == TypeOK /\ WorkInv /\ [Next]_vars => WorkInv'
<1> SUFFICES ASSUME TypeOK, WorkInv, [Next]_vars PROVE WorkInv'
  OBVIOUS
<1>1. ASSUME NEW op \in Ops, Progress(op) \/ ScansActive(op) PROVE WorkInv'
  BY <1>1, SavingKeepsWork, RequestKeepsWork, ShortStepKeepsWork, FeedStepKeepsWork,
     StackStepKeepsWork, RollbackStepKeepsWork, RecoverStepKeepsWork
  DEF Progress
<1>2. CASE UNCHANGED vars
  BY <1>2 DEF vars, WorkInv, WorkersOwnTheActiveOperation, DownIsIdle
<1> QED
  BY <1>1, <1>2, RequestKeepsWork, SavingKeepsWork, ProcessKeepsWork DEF Next

\* At most one goroutine is ever between the acceptance of an operation and its
\* outcome, through requests that race the schedule, failing saves, shutdowns,
\* crashes and recovery.
THEOREM OneAtATime == Spec => []OneOperationAtATime
<1>1. WorkInv => OneOperationAtATime
  BY DEF WorkInv, WorkersOwnTheActiveOperation, OneOperationAtATime
<1> QED
  BY <1>1, InitTypes, NextTypes, InitWork, NextKeepsWork, PTL DEF Spec

-----------------------------------------------------------------------------
(* What a step of a goroutine may change                                    *)
(*                                                                          *)
(* The invariants below need little of the many steps of an operation:      *)
(* either the lists of the state stay, or the operation gets its outcome.   *)

GoroutineStep(op) ==
    \/ Execute(op)
    \/ OperationError(op)
    \/ Succeed(op)
    \/ ReportFailure(op)
    \/ Check(op)
    \/ ScansIdle(op)
    \/ ScansActive(op)
    \/ Defer(op)
    \/ FeedStep(op)
    \/ StackStep(op)
    \/ RollbackStep(op)
    \/ RecoverStep(op)

\* Places where no goroutine runs, or not yet.
Resting == {"idle", "saving", "withdraw", "done"}
\* Places from which a restored upgrade gets its outcome.
Restored == {"finish-restored", "finish-recovered"}

\* s has the operation, the lists and the pause of the state in memory.
Keeps(s) ==
    /\ s.active.id = mem.active.id
    /\ Terminal(s.active.phase) <=> Terminal(mem.active.phase)
    /\ s.history = mem.history
    /\ s.idem = mem.idem
    /\ mem.paused => s.paused

Concludes(op) ==
    \E outcome \in TerminalPhases :
        /\ CanFinish(mem, op)
        /\ mem' = Finished(mem, op, outcome)
        /\ outcome = "rolled-back" => pc[op] \in Restored

Goes(op, next) ==
    /\ pc' = [pc EXCEPT ![op] = next]
    /\ next \in WorkingPcs => pc[op] \in WorkingPcs
    /\ next \in Restored => mem'.paused

Effect(op) ==
    /\ UNCHANGED still
    /\ pc[op] \in Pcs \ Resting
    /\ ~dirty[op]
    /\ \E next \in Pcs \ {"idle", "saving", "withdraw"} : Goes(op, next)
    /\ \/ mem' = mem /\ dirty' = dirty
       \/ Keeps(mem') /\ dirty' = [dirty EXCEPT ![op] = TRUE]
       \/ Concludes(op) /\ dirty' = [dirty EXCEPT ![op] = TRUE]
    /\ \/ unreviewed' = unreviewed
       \/ unreviewed' = unreviewed \union {op} /\ pc[op] \in WorkingPcs /\ mem' = mem

LEMMA ChangeEffect ==
  ASSUME NEW op \in Ops, NEW s, NEW next \in Pcs \ {"idle", "saving", "withdraw"},
         Change(op, s, next), Keeps(s),
         pc[op] \in Pcs \ Resting, ~dirty[op],
         next \in WorkingPcs => pc[op] \in WorkingPcs,
         next \in Restored => s.paused,
         UNCHANGED unreviewed
  PROVE  Effect(op)
BY DEF Effect, Change, Goes, Keeps

LEMMA MoveEffect ==
  ASSUME NEW op \in Ops, NEW next \in Pcs \ {"idle", "saving", "withdraw"},
         Move(op, next),
         pc[op] \in Pcs \ Resting, ~dirty[op],
         next \in WorkingPcs => pc[op] \in WorkingPcs,
         next \notin Restored,
         \/ unreviewed' = unreviewed
         \/ unreviewed' = unreviewed \union {op} /\ pc[op] \in WorkingPcs
  PROVE  Effect(op)
BY DEF Effect, Move, Goes

LEMMA EnterEffect ==
  ASSUME TypeOK, WorkInv, NEW op \in Ops, NEW place \in WorkingPcs \ Resting,
         NEW phase \in Phases \ TerminalPhases,
         NEW next \in Pcs \ (Restored \union {"idle", "saving", "withdraw"}),
         Enter(op, place, phase, next)
  PROVE  Effect(op)
<1>1. mem.active.id = op /\ ~Terminal(mem.active.phase) /\ pc[op] = place /\ ~dirty[op]
  BY DEF WorkInv, WorkersOwnTheActiveOperation, Enter, At
<1>2. Proper(mem)
  BY DEF TypeOK, Proper
<1>3. InPhase(mem, op, phase).active.phase = phase
  BY <1>1, <1>2 DEF InPhase, Proper, State, Operation
<1>4. Keeps(InPhase(mem, op, phase))
  <2>1. /\ InPhase(mem, op, phase).active.id = mem.active.id
        /\ InPhase(mem, op, phase).history = mem.history
        /\ InPhase(mem, op, phase).idem = mem.idem
        /\ InPhase(mem, op, phase).paused = mem.paused
    BY <1>2, InPhaseIsProper
  <2>2. ~Terminal(InPhase(mem, op, phase).active.phase)
    BY <1>3 DEF Terminal
  <2> QED
    BY <1>1, <2>1, <2>2, Zenon DEF Keeps
<1> QED
  BY <1>1, <1>4, ChangeEffect DEF Enter, WorkingPcs

LEMMA FinishEffect ==
  ASSUME NEW op \in Ops, NEW place \in Pcs \ Resting, NEW outcome \in TerminalPhases,
         NEW next \in Pcs \ (WorkingPcs \union Restored \union {"idle", "saving", "withdraw"}),
         Finish(op, place, outcome, next),
         outcome = "rolled-back" => place \in Restored
  PROVE  Effect(op)
<1>1. pc[op] = place /\ ~dirty[op] /\ UNCHANGED unreviewed
  BY DEF Finish, At
<1>2. CASE CanFinish(mem, op)
  <2>1. Concludes(op) /\ dirty' = [dirty EXCEPT ![op] = TRUE]
        /\ UNCHANGED still /\ pc' = [pc EXCEPT ![op] = next]
    BY <1>1, <1>2 DEF Finish, Change, Concludes
  <2> QED
    BY <1>1, <2>1 DEF Effect, Goes
<1>3. CASE ~CanFinish(mem, op)
  BY <1>1, <1>3, MoveEffect DEF Finish
<1> QED
  BY <1>2, <1>3

LEMMA FeedStepEffect ==
  ASSUME TypeOK, WorkInv, NEW op \in Ops, FeedStep(op)
  PROVE  Effect(op)
<1>1. /\ Proper(mem) /\ running \in Images /\ today \in Days
  BY DEF TypeOK, Proper
<1>2. CASE \/ Enter(op, "feed-pulling", "pulling", "feed-pull")
           \/ Enter(op, "feed-compare", "applying", "feed-apply")
           \/ Enter(op, "feed-apply", "importing", "feed-import")
           \/ Enter(op, "feed-cleanup", "cleanup", "complete")
  <2>1. {"pulling", "applying", "importing", "cleanup"} \subseteq Phases \ TerminalPhases
    BY DEF Phases, TerminalPhases
  <2>2. {"feed-pulling", "feed-compare", "feed-apply", "feed-cleanup"} \subseteq WorkingPcs \ Resting
    BY DEF WorkingPcs, Pcs, Resting
  <2>3. {"feed-pull", "feed-apply", "feed-import", "complete"} \subseteq
            Pcs \ (Restored \union {"idle", "saving", "withdraw"})
    BY DEF Pcs, Restored
  <2> QED
    BY <1>2, <2>1, <2>2, <2>3, EnterEffect
<1>3. CASE Finish(op, "feed-import", "degraded", "complete")
  BY <1>3, FinishEffect DEF TerminalPhases, WorkingPcs, Pcs, Resting, Restored
<1>4. Keeps(WithImages(mem, op, Snapshot)) /\ Keeps(ScheduleCompleted(mem, "feed"))
  BY <1>1, WithImagesIsProper, ScheduleCompletedIsProper DEF Keeps, Snapshot
<1>5. CASE /\ At(op, "feed-preflight")
           /\ Change(op, WithImages(mem, op, Snapshot), "feed-pulling")
           /\ UNCHANGED unreviewed
  BY <1>4, <1>5, ChangeEffect DEF At, WorkingPcs, Pcs, Resting, Restored
<1>6. CASE /\ At(op, "feed-pull")
           /\ Change(op, WithImages(mem, op, Snapshot), "feed-compare")
           /\ UNCHANGED unreviewed
  BY <1>4, <1>6, ChangeEffect DEF At, WorkingPcs, Pcs, Resting, Restored
<1>7. CASE /\ At(op, "feed-compare") \/ At(op, "feed-import")
           /\ Change(op, ScheduleCompleted(mem, "feed"), "feed-cleanup")
           /\ UNCHANGED unreviewed
  BY <1>4, <1>7, ChangeEffect DEF At, WorkingPcs, Pcs, Resting, Restored
<1> QED
  BY <1>2, <1>3, <1>5, <1>6, <1>7 DEF FeedStep

LEMMA StackStepEffect ==
  ASSUME TypeOK, WorkInv, NEW op \in Ops, StackStep(op)
  PROVE  Effect(op)
<1>1. /\ Proper(mem) /\ running \in Images /\ today \in Days
      /\ local[op].before \in Images
  BY DEF TypeOK, Proper
<1>2. CASE \/ Enter(op, "checkpoint", "checkpoint", "backup")
           \/ Enter(op, "staging", "staging", "pull")
           \/ Enter(op, "cleanup", "cleanup", "unchanged")
           \/ Enter(op, "compare", "applying", "apply")
           \/ Enter(op, "verifying", "verifying", "verify")
  <2>1. {"checkpoint", "staging", "cleanup", "applying", "verifying"} \subseteq
            Phases \ TerminalPhases
    BY DEF Phases, TerminalPhases
  <2>2. {"checkpoint", "staging", "cleanup", "compare", "verifying"} \subseteq WorkingPcs \ Resting
    BY DEF WorkingPcs, Pcs, Resting
  <2>3. {"backup", "pull", "unchanged", "apply", "verify"} \subseteq
            Pcs \ (Restored \union {"idle", "saving", "withdraw"})
    BY DEF Pcs, Restored
  <2> QED
    BY <1>2, <2>1, <2>2, <2>3, EnterEffect
<1>3. CASE Preflight(op) \/ PullStack(op)
  <2>1. /\ Keeps(WithImages(mem, op, Snapshot))
        /\ Keeps(WithImages(mem, op, local[op].before))
    BY <1>1, WithImagesIsProper DEF Keeps, Snapshot
  <2> QED
    BY <1>3, <2>1, ChangeEffect DEF At, WorkingPcs, Pcs, Resting, Restored, Preflight, PullStack
<1>4. CASE Backup(op)
  <2>1. Keeps([mem EXCEPT !.backup = op]) /\ Keeps(mem)
    BY <1>1 DEF Keeps, Proper, State
  <2> QED
    BY <1>4, <2>1, ChangeEffect DEF At, WorkingPcs, Pcs, Resting, Restored, Backup
<1>5. CASE Unchanged(op) \/ Record(op)
  <2>1. Keeps(ScheduleCompleted(mem, "stack"))
    BY <1>1, ScheduleCompletedIsProper DEF Keeps
  <2> QED
    BY <1>5, <2>1, ChangeEffect DEF At, WorkingPcs, Pcs, Resting, Restored, Unchanged, Record
<1>6. CASE PruneUnchanged(op) \/ ApplyBegin(op)
  BY <1>6, MoveEffect DEF At, WorkingPcs, Pcs, Resting, Restored, PruneUnchanged, ApplyBegin
<1>7. CASE Prune(op)
  <2>1. mem.active.id = op /\ ~Terminal(mem.active.phase) /\ pc[op] = "prune" /\ ~dirty[op]
    BY <1>7 DEF WorkInv, WorkersOwnTheActiveOperation, Prune, At, WorkingPcs, Pcs
  <2>2. /\ InPhase(mem, op, "cleanup").active.phase = "cleanup"
        /\ InPhase(mem, op, "cleanup").active.id = mem.active.id
        /\ InPhase(mem, op, "cleanup").history = mem.history
        /\ InPhase(mem, op, "cleanup").idem = mem.idem
        /\ InPhase(mem, op, "cleanup").paused = mem.paused
    BY <1>1, <2>1 DEF InPhase, Proper, State, Operation
  <2>3. Keeps(InPhase(mem, op, "cleanup"))
    BY <2>1, <2>2 DEF Keeps, Terminal, TerminalPhases
  <2> QED
    BY <1>7, <2>1, <2>3, ChangeEffect DEF WorkingPcs, Pcs, Resting, Restored, Prune
<1>8. CASE ApplyEnd(op)
  <2>1. /\ pc[op] = "applying" /\ ~dirty[op] /\ UNCHANGED unreviewed
        /\ Move(op, "verifying") \/ Move(op, "rollback")
    BY <1>8 DEF At, ApplyEnd, FallBack
  <2>2. /\ "applying" \in WorkingPcs \cap (Pcs \ Resting)
        /\ {"verifying", "rollback"} \subseteq Pcs \ (Restored \union {"idle", "saving", "withdraw"})
    BY DEF WorkingPcs, Pcs, Resting, Restored
  <2> QED
    BY <2>1, <2>2, MoveEffect
<1>9. CASE Verify(op)
  <2>1. Keeps(mem)
    BY DEF Keeps
  <2> QED
    BY <1>9, <2>1, ChangeEffect, MoveEffect
    DEF At, WorkingPcs, Pcs, Resting, Restored, Verify, FallBack
<1> QED
  BY <1>2, <1>3, <1>4, <1>5, <1>6, <1>7, <1>8, <1>9 DEF StackStep, Changed

LEMMA RollbackStepEffect ==
  ASSUME TypeOK, WorkInv, NEW op \in Ops, RollbackStep(op)
  PROVE  Effect(op)
<1>1. Keeps(Paused(mem)) /\ Paused(mem).paused /\ AfterFailedRollback(op) \in {"done", "fail"}
  BY PausedIsProper DEF TypeOK, Proper, Keeps, AfterFailedRollback
<1>2. CASE Enter(op, "rollback", "rolling-back", "restore")
  BY <1>2, EnterEffect DEF Phases, TerminalPhases, WorkingPcs, Pcs, Resting, Restored
<1>3. CASE RollbackBegin(op, "restore", "restoring")
  BY <1>3, MoveEffect DEF At, WorkingPcs, Pcs, Resting, Restored, RollbackBegin
<1>4. CASE RollbackDone(op, "restoring") /\ Move(op, "reverify")
  BY <1>4, MoveEffect DEF At, WorkingPcs, Pcs, Resting, Restored, RollbackDone
<1>5. CASE RollbackFailed(op, "restoring") /\ Change(op, Paused(mem), AfterFailedRollback(op))
  BY <1>1, <1>5, ChangeEffect DEF At, WorkingPcs, Pcs, Resting, RollbackFailed
<1>6. CASE /\ At(op, "reverify")
           /\ \/ Change(op, Paused(mem), "finish-restored")
              \/ Change(op, Paused(mem), AfterFailedRollback(op))
           /\ UNCHANGED unreviewed
  BY <1>1, <1>6, ChangeEffect DEF At, WorkingPcs, Pcs, Resting
<1>7. CASE Finish(op, "finish-restored", "rolled-back", "complete")
  BY <1>7, FinishEffect DEF TerminalPhases, WorkingPcs, Pcs, Resting, Restored
<1> QED
  BY <1>2, <1>3, <1>4, <1>5, <1>6, <1>7 DEF RollbackStep

LEMMA RecoverStepEffect ==
  ASSUME TypeOK, WorkInv, NEW op \in Ops, RecoverStep(op)
  PROVE  Effect(op)
<1>1. Keeps(Paused(mem)) /\ Paused(mem).paused
  BY PausedIsProper DEF TypeOK, Proper, Keeps
<1>2. CASE Enter(op, "recover", "rolling-back", "recover-restore")
  BY <1>2, EnterEffect DEF Phases, TerminalPhases, WorkingPcs, Pcs, Resting, Restored
<1>3. CASE RollbackBegin(op, "recover-restore", "recover-restoring")
  BY <1>3, MoveEffect DEF At, WorkingPcs, Pcs, Resting, Restored, RollbackBegin
<1>4. CASE Recovered(op)
  BY <1>1, <1>4, ChangeEffect DEF At, WorkingPcs, Pcs, Resting, Recovered, RollbackDone
<1>5. CASE /\ RollbackFailed(op, "recover-restoring")
           /\ CanFinish(mem, op)
           /\ Change(op, Finished(mem, op, "failed"), "recover-pause")
  <2>1. Concludes(op)
    BY <1>5 DEF Concludes, Change, TerminalPhases
  <2>2. /\ UNCHANGED still /\ pc' = [pc EXCEPT ![op] = "recover-pause"]
        /\ dirty' = [dirty EXCEPT ![op] = TRUE]
        /\ pc[op] = "recover-restoring" /\ ~dirty[op]
        /\ UNCHANGED unreviewed
    BY <1>5 DEF Change, RollbackFailed, At
  <2>3. /\ "recover-restoring" \in Pcs \ Resting
        /\ "recover-pause" \in Pcs \ (WorkingPcs \union Restored \union {"idle", "saving", "withdraw"})
    BY DEF WorkingPcs, Pcs, Resting, Restored
  <2> QED
    BY <2>1, <2>2, <2>3 DEF Effect, Goes
<1>6. CASE RollbackFailed(op, "recover-restoring") /\ Move(op, "recover-pause")
  BY <1>6, MoveEffect DEF At, WorkingPcs, Pcs, Resting, Restored, RollbackFailed
<1>7. CASE /\ At(op, "recover-pause")
           /\ Change(op, Paused(mem), "done")
           /\ UNCHANGED unreviewed
  BY <1>1, <1>7, ChangeEffect DEF At, WorkingPcs, Pcs, Resting, Restored
<1>8. CASE \/ Finish(op, "finish-recovered", "rolled-back", "done")
           \/ Finish(op, "recover-stop", "degraded", "done")
  <2>1. {"rolled-back", "degraded"} \subseteq TerminalPhases
    BY DEF TerminalPhases
  <2>2. /\ {"finish-recovered", "recover-stop"} \subseteq Pcs \ Resting
        /\ "finish-recovered" \in Restored
        /\ "done" \in Pcs \ (WorkingPcs \union Restored \union {"idle", "saving", "withdraw"})
    BY DEF WorkingPcs, Pcs, Resting, Restored
  <2> QED
    BY <1>8, <2>1, <2>2, FinishEffect
<1> QED
  BY <1>2, <1>3, <1>4, <1>5, <1>6, <1>7, <1>8 DEF RecoverStep

LEMMA StepEffect ==
  ASSUME TypeOK, WorkInv, NEW op \in Ops, GoroutineStep(op)
  PROVE  Effect(op)
<1>1. Proper(mem) /\ today \in Days
  BY DEF TypeOK, Proper
<1>2. CASE Execute(op)
  <2>1. CASE At(op, "start") /\ Move(op, "scans") /\ UNCHANGED unreviewed
    BY <2>1, MoveEffect DEF At, WorkingPcs, Pcs, Resting, Restored
  <2>2. CASE \/ Enter(op, "start", "preflight", "feed-preflight")
             \/ Enter(op, "start", "preflight", "check")
    BY <2>2, EnterEffect DEF Phases, TerminalPhases, WorkingPcs, Pcs, Resting, Restored
  <2> QED
    BY <1>2, <2>1, <2>2 DEF Execute, Enter
<1>3. CASE OperationError(op)
  <2>1. pc[op] \in WorkingPcs /\ pc[op] \in Pcs \ Resting /\ ~dirty[op]
    BY <1>3 DEF OperationError, FalliblePcs, WorkingPcs, Pcs, Resting
  <2>2. {"done", "fail"} \subseteq Pcs \ (Restored \union {"idle", "saving", "withdraw"})
    BY DEF Pcs, Restored
  <2>3. Move(op, "done") \/ Move(op, "fail")
    BY <1>3 DEF OperationError
  <2> QED
    BY <1>3, <2>1, <2>2, <2>3, MoveEffect DEF OperationError
<1>4. CASE Check(op)
  <2>1. Keeps(mem)
    BY DEF Keeps
  <2> QED
    BY <1>4, <2>1, ChangeEffect DEF At, WorkingPcs, Pcs, Resting, Restored, Check
<1>5. CASE Succeed(op) \/ ReportFailure(op) \/ Finish(op, "scans", "cancelled", "deferred")
  <2>1. {"succeeded", "failed", "cancelled"} \subseteq TerminalPhases \ {"rolled-back"}
    BY DEF TerminalPhases
  <2>2. /\ {"complete", "check-saved", "fail", "scans"} \subseteq Pcs \ Resting
        /\ {"done", "deferred"} \subseteq
              Pcs \ (WorkingPcs \union Restored \union {"idle", "saving", "withdraw"})
    BY DEF WorkingPcs, Pcs, Resting, Restored
  <2> QED
    BY <1>5, <2>1, <2>2, FinishEffect DEF Succeed, ReportFailure
<1>6. CASE ScansIdle(op) \/ ScansActive(op)
  <2>1. {"waiting-for-scans", "preflight"} \subseteq Phases \ TerminalPhases
    BY DEF Phases, TerminalPhases
  <2>2. /\ "scans" \in WorkingPcs \ Resting
        /\ {"scans", "preflight"} \subseteq Pcs \ (Restored \union {"idle", "saving", "withdraw"})
    BY DEF WorkingPcs, Pcs, Resting, Restored
  <2> QED
    BY <1>6, <2>1, <2>2, EnterEffect DEF ScansIdle, ScansActive
<1>7. CASE /\ At(op, "deferred")
           /\ Change(op, ScheduleCompleted(mem, "stack"), "complete")
           /\ UNCHANGED unreviewed
  <2>1. Keeps(ScheduleCompleted(mem, "stack"))
    BY <1>1, ScheduleCompletedIsProper DEF Keeps
  <2> QED
    BY <1>7, <2>1, ChangeEffect DEF At, WorkingPcs, Pcs, Resting, Restored
<1> QED
  BY <1>2, <1>3, <1>4, <1>5, <1>6, <1>7, FeedStepEffect, StackStepEffect,
     RollbackStepEffect, RecoverStepEffect
  DEF GoroutineStep, Defer

-----------------------------------------------------------------------------
(* Lists and keys                                                           *)
(*                                                                          *)
(* An operation that is accepted is new to both lists, and one that is open *)
(* is in neither, so that withdrawing it takes nobody else's key and a      *)
(* rollback that begins is not listed yet.                                  *)

Listed(s) == {s.history[i].id : i \in DOMAIN s.history}

NumberedInv == \A s \in {mem, durable} : \A o \in Retained(s) : o <= issued

OpenInv ==
    /\ \A s \in {mem, durable} : Busy(s) => s.active.id \notin Listed(s)
    /\ Busy(mem) => mem.active.id \notin Listed(durable)
    /\ \A o \in Ops : pc[o] = "withdraw" => o \notin Listed(mem)

KeysInv ==
    \A s \in {mem, durable}, o \in Ops : o \in Retained(s) => s.idem[request[o].key] = o

ListsInv == NumberedInv /\ OpenInv /\ KeysInv

\* An outcome puts one entry in front; the oldest may go.
LEMMA FinishedHistory ==
  ASSUME NEW s, Proper(s), NEW op \in Ops, NEW outcome \in TerminalPhases
  PROVE  LET h == Finished(s, op, outcome).history IN
         /\ Len(h) \in 1 .. Len(s.history) + 1
         /\ DOMAIN h = 1 .. Len(h)
         /\ DOMAIN s.history = 1 .. Len(s.history) /\ Len(s.history) \in Nat
         /\ \A i \in DOMAIN h :
               h[i] = IF i = 1 THEN [id |-> op, phase |-> outcome] ELSE s.history[i - 1]
<1> DEFINE Entry == [id : Ops, phase : TerminalPhases]
           entry == [id |-> op, phase |-> outcome]
           entries == <<entry>> \o s.history
           h == IF Len(entries) > MaxHistory THEN Newest(entries) ELSE entries
<1>1. Finished(s, op, outcome).history = h /\ s.history \in Seq(Entry)
  BY DEF Finished, Proper, State
<1>2. /\ entries \in Seq(Entry)
      /\ Len(entries) = Len(s.history) + 1
      /\ \A i \in 1 .. Len(entries) : entries[i] = IF i = 1 THEN entry ELSE s.history[i - 1]
  BY <1>1
<1> HIDE DEF Entry, entries, entry
<1>3. /\ Len(h) \in 1 .. Len(entries)
      /\ DOMAIN h = 1 .. Len(h)
      /\ \A i \in DOMAIN h : h[i] = entries[i]
  <2>1. CASE Len(entries) > MaxHistory
    <3>1. h = SubSeq(entries, 1, MaxHistory)
      BY <2>1 DEF Newest
    <3>2. MaxHistory \in Nat \ {0} /\ MaxHistory <= Len(entries)
      BY <1>2, <2>1, ConstantsAssumption
    <3> HIDE DEF h
    <3> QED
      BY <1>2, <3>1, <3>2
  <2>2. CASE ~(Len(entries) > MaxHistory)
    BY <1>1, <1>2, <2>2
  <2> QED
    BY <2>1, <2>2
<1> HIDE DEF h
<1>4. DOMAIN s.history = 1 .. Len(s.history) /\ Len(s.history) \in Nat
  BY <1>1
<1>5. \A i \in DOMAIN h : h[i] = IF i = 1 THEN entry ELSE s.history[i - 1]
  BY <1>2, <1>3
<1> QED
  BY <1>1, <1>2, <1>3, <1>4, <1>5 DEF entry

LEMMA FinishedEntries ==
  ASSUME NEW s, Proper(s), NEW op \in Ops, NEW outcome \in TerminalPhases
  PROVE  LET F == Finished(s, op, outcome) IN
         \A i \in DOMAIN F.history :
            \/ F.history[i] = [id |-> op, phase |-> outcome]
            \/ \E j \in DOMAIN s.history : F.history[i] = s.history[j]
<1> DEFINE h == Finished(s, op, outcome).history
<1>1. /\ Len(h) \in 1 .. Len(s.history) + 1
      /\ DOMAIN h = 1 .. Len(h)
      /\ DOMAIN s.history = 1 .. Len(s.history) /\ Len(s.history) \in Nat
      /\ \A i \in DOMAIN h :
            h[i] = IF i = 1 THEN [id |-> op, phase |-> outcome] ELSE s.history[i - 1]
  BY FinishedHistory
<1> HIDE DEF h
<1>2. \A i \in DOMAIN h : i # 1 => i - 1 \in DOMAIN s.history
  BY <1>1
<1>3. \A i \in DOMAIN h : \/ h[i] = [id |-> op, phase |-> outcome]
                         \/ \E j \in DOMAIN s.history : h[i] = s.history[j]
  BY <1>1, <1>2
<1> QED
  BY <1>3 DEF h

LEMMA FinishedListed ==
  ASSUME NEW s, Proper(s), NEW op \in Ops, NEW outcome \in TerminalPhases
  PROVE  Listed(Finished(s, op, outcome)) \subseteq {op} \union Listed(s)
<1> DEFINE F == Finished(s, op, outcome)
<1>1. \A i \in DOMAIN F.history :
            \/ F.history[i] = [id |-> op, phase |-> outcome]
            \/ \E j \in DOMAIN s.history : F.history[i] = s.history[j]
  BY FinishedEntries
<1> HIDE DEF F
<1>2. \A i \in DOMAIN F.history : F.history[i].id \in {op} \union Listed(s)
  BY <1>1 DEF Listed
<1>3. Listed(F) \subseteq {op} \union Listed(s)
  BY <1>2 DEF Listed
<1> QED
  BY <1>3 DEF F

LEMMA RetainedIsListed == \A s : Retained(s) = {s.active.id} \union Listed(s)
  BY DEF Retained, Listed

LEMMA ListedAreOps == \A s : Proper(s) => Listed(s) \subseteq Ops
<1> SUFFICES ASSUME NEW s, Proper(s) PROVE Listed(s) \subseteq Ops
  OBVIOUS
<1> DEFINE Entry == [id : Ops, phase : TerminalPhases]
<1>1. s.history \in Seq(Entry)
  BY DEF Proper, State
<1> HIDE DEF Entry
<1>2. \A i \in DOMAIN s.history : s.history[i] \in Entry
  BY <1>1
<1>3. \A i \in DOMAIN s.history : s.history[i].id \in Ops
  BY <1>2 DEF Entry
<1> QED
  BY <1>3 DEF Listed

\* A step that adds nothing to the lists of the state in memory.
AddsNothing ==
    /\ UNCHANGED <<durable, issued, request>>
    /\ mem'.idem = mem.idem
    /\ Retained(mem') \subseteq Retained(mem)
    /\ Busy(mem') => /\ Busy(mem) /\ mem'.active.id = mem.active.id
                     /\ Listed(mem') \subseteq Listed(mem)
    /\ \A o \in Ops : pc'[o] = "withdraw" =>
            pc[o] = "withdraw" /\ (o \in Listed(mem') => o \in Listed(mem))

LEMMA AddsNothingKeepsLists == ListsInv /\ AddsNothing => ListsInv'
<1> SUFFICES ASSUME ListsInv, AddsNothing PROVE ListsInv'
  OBVIOUS
<1>1. NumberedInv'
  BY DEF ListsInv, NumberedInv, AddsNothing
<1>2. OpenInv'
  <2>1. \A s \in {mem', durable'} : Busy(s) => s.active.id \notin Listed(s)
    BY DEF ListsInv, OpenInv, AddsNothing
  <2>2. Busy(mem') => mem'.active.id \notin Listed(durable')
    BY DEF ListsInv, OpenInv, AddsNothing
  <2>3. \A o \in Ops : pc'[o] = "withdraw" => o \notin Listed(mem')
    BY DEF ListsInv, OpenInv, AddsNothing
  <2> QED
    BY <2>1, <2>2, <2>3 DEF OpenInv
<1>3. KeysInv'
  BY DEF ListsInv, KeysInv, AddsNothing
<1> QED
  BY <1>1, <1>2, <1>3 DEF ListsInv

\* A state with the operation, history and keys of another one has its lists.
LEMMA SameLists ==
  \A s, t : t.active.id = s.active.id /\ t.history = s.history
            => Listed(t) = Listed(s) /\ Retained(t) = Retained(s)
  BY DEF Listed, Retained

LEMMA GoroutineKeepsLists ==
  ASSUME TypeOK, ListsInv, NEW op \in Ops, Effect(op)
  PROVE  ListsInv'
<1>1. UNCHANGED <<durable, issued, request>>
  BY DEF Effect, still
<1>2. \A o \in Ops : pc'[o] = "withdraw" => pc[o] = "withdraw" /\ o # op
  BY DEF TypeOK, Effect, Goes
<1>3. CASE mem' = mem \/ Keeps(mem')
  <2>1. mem'.active.id = mem.active.id /\ mem'.history = mem.history /\ mem'.idem = mem.idem
        /\ (Busy(mem') <=> Busy(mem))
    BY <1>3 DEF Keeps, Busy
  <2> QED
    BY <1>1, <1>2, <2>1, SameLists, AddsNothingKeepsLists DEF AddsNothing
<1>4. CASE Concludes(op)
  <2>1. PICK outcome \in TerminalPhases : CanFinish(mem, op) /\ mem' = Finished(mem, op, outcome)
    BY <1>4 DEF Concludes
  <2>2. Proper(mem) /\ mem.active.id = op
    BY <2>1 DEF TypeOK, Proper, CanFinish
  <2>3. mem'.active.id = op /\ mem'.active.phase = outcome /\ mem'.idem = mem.idem
    BY <2>1, <2>2, FinishedIsProper
  <2>4. Listed(mem') \subseteq {op} \union Listed(mem)
    BY <2>1, <2>2, FinishedListed
  <2>5. ~Busy(mem')
    BY <2>3 DEF Busy, Terminal
  <2> QED
    BY <1>1, <1>2, <2>2, <2>3, <2>4, <2>5, RetainedIsListed, AddsNothingKeepsLists
    DEF AddsNothing
<1> QED
  BY <1>3, <1>4 DEF Effect

\* A save makes the file the state in memory, or changes nothing.
LEMMA SavesKeepLists ==
  ASSUME TypeOK, WorkInv, ListsInv,
         RequestSave \/ \E op \in Ops : WorkerSave(op) \/ TriggerSave(op)
  PROVE  ListsInv'
<1>1. UNCHANGED <<mem, issued, request>> /\ durable' \in {mem, durable}
  BY DEF RequestSave, WorkerSave, TriggerSave, Persist
<1>2. \A o \in Ops : pc'[o] = "withdraw" => o \notin Listed(mem')
  <2> SUFFICES ASSUME NEW o \in Ops, pc'[o] = "withdraw" PROVE o \notin Listed(mem)
    BY <1>1
  <2>1. CASE pc[o] = "withdraw"
    BY <2>1 DEF ListsInv, OpenInv
  <2>2. CASE pc[o] # "withdraw"
    <3>1. pc[o] = "saving"
      BY <2>2 DEF RequestSave, WorkerSave, TriggerSave, TypeOK
    <3>2. mem.active.id = o /\ Busy(mem)
      BY <3>1, OpIsNotNoOp DEF WorkInv, WorkersOwnTheActiveOperation, WorkingPcs, Pcs, Busy
    <3> QED
      BY <3>2 DEF ListsInv, OpenInv
  <2> QED
    BY <2>1, <2>2
<1>3. NumberedInv' /\ KeysInv'
  BY <1>1 DEF ListsInv, NumberedInv, KeysInv
<1>4. OpenInv'
  BY <1>1, <1>2 DEF ListsInv, OpenInv
<1> QED
  BY <1>3, <1>4 DEF ListsInv

\* Trigger gives a new operation a free key, and trimming keeps the key of every
\* operation that is retained.
LEMMA AcceptKeepsLists ==
  ASSUME TypeOK, ListsInv, NEW kind \in Kinds, NEW trigger, NEW key \in Keys,
         Acceptable(kind, key), Accept(kind, trigger, key)
  PROVE  ListsInv'
<1> DEFINE op == issued + 1
           accepted == [mem EXCEPT
                 !.active = [id |-> op, phase |-> "queued", before |-> None],
                 !.backup = NoOp,
                 !.idem[key] = op]
<1>1. op \in Ops /\ issued \in Nat /\ op # NoOp /\ issued' = op
  BY ConstantsAssumption DEF TypeOK, Acceptable, Ops, Accept, NoOp
<1>2. Proper(mem) /\ Proper(durable)
  BY DEF TypeOK, Proper
<1>3. Proper(accepted)
  BY <1>1, <1>2, KnownImages DEF Proper, State, Operation, Phases
<1>4. /\ accepted.active.id = op
      /\ accepted.history = mem.history
      /\ \A k \in Keys : accepted.idem[k] = IF k = key THEN op ELSE mem.idem[k]
  BY <1>2 DEF Proper, State
<1>5. /\ mem' = Trimmed(accepted)
      /\ durable' = durable
      /\ request' = [request EXCEPT ![op] = [kind |-> kind, trigger |-> trigger, key |-> key]]
      /\ pc' = [pc EXCEPT ![op] = "saving"]
  BY DEF Accept
<1> HIDE DEF accepted
<1>6. /\ mem'.active.id = op
      /\ mem'.history = mem.history
      /\ Retained(accepted) = {op} \union Listed(mem)
      /\ Retained(mem') = {op} \union Listed(mem)
      /\ Listed(mem') = Listed(mem)
  <2>1. mem'.active = accepted.active /\ mem'.history = accepted.history
    BY <1>3, <1>5, TrimmedIsProper
  <2> QED
    BY <1>4, <2>1, RetainedIsListed DEF Listed
<1>7. \A k \in Keys : accepted.idem[k] \in Retained(accepted) => mem'.idem[k] = accepted.idem[k]
  <2>1. accepted \in [paused : BOOLEAN, active : Operation, backup : Ops \union {NoOp},
                      history : Seq([id : Ops, phase : TerminalPhases]),
                      idem : [Keys -> Ops \union {NoOp}],
                      feedDate : Days \union {0}, stackDate : Days \union {0}]
    BY <1>3 DEF Proper, State
  <2> QED
    BY <1>5, <2>1 DEF Trimmed
<1>8. \A o \in Listed(mem) \union Retained(durable) : o <= issued /\ o # op
  <2>1. \A o \in Listed(mem) \union Retained(durable) : o <= issued
    BY RetainedIsListed DEF ListsInv, NumberedInv
  <2>2. Listed(mem) \union Retained(durable) \subseteq Ops \union {NoOp}
    BY <1>2, ListedAreOps, RetainedIsListed DEF Proper, State, Operation
  <2> QED
    BY <1>1, <2>1, <2>2, OpIsNotNoOp DEF NoOp
<1>9. NumberedInv'
  <2>1. \A o \in Retained(mem') : o <= op
    BY <1>1, <1>6, <1>8, OpIsNotNoOp, ListedAreOps, <1>2
  <2>2. \A o \in Retained(durable) : o <= op
    <3>1. Retained(durable) \subseteq Ops \union {NoOp}
      BY <1>2, ListedAreOps, RetainedIsListed DEF Proper, State, Operation
    <3> QED
      BY <1>1, <1>8, <3>1, OpIsNotNoOp DEF NoOp
  <2> QED
    BY <1>1, <1>5, <2>1, <2>2 DEF NumberedInv
<1>10. OpenInv'
  <2>1. op \notin Listed(mem) /\ op \notin Listed(durable)
    BY <1>8, RetainedIsListed
  <2>2. \A o \in Ops : pc'[o] = "withdraw" => o \notin Listed(mem')
    BY <1>1, <1>5, <1>6 DEF TypeOK, ListsInv, OpenInv
  <2> QED
    BY <1>5, <1>6, <2>1, <2>2 DEF ListsInv, OpenInv
<1>11. KeysInv'
  <2>2. /\ request'[op].key = key
        /\ \A o \in Ops : o # op => request'[o] = request[o]
        /\ \A o \in Ops : request'[o].key \in Keys
    <3>1. \A o \in Ops : request[o].key \in Keys
      <4>1. NoRequest.key \in Keys
        BY ConstantsAssumption DEF NoRequest, Keys
      <4> QED
        BY <4>1 DEF TypeOK, Request
    <3> QED
      BY <1>1, <1>5, <3>1 DEF TypeOK
  <2>3. ASSUME NEW o \in Ops, o \in Retained(mem') PROVE mem'.idem[request'[o].key] = o
    <3>1. CASE o = op
      BY <1>4, <1>6, <1>7, <2>2, <3>1
    <3>2. CASE o # op
      <4>1. mem.idem[request[o].key] = o
        BY <1>6, <2>3, <3>2, RetainedIsListed DEF ListsInv, KeysInv
      <4>2. request[o].key # key
        BY <4>1, OpIsNotNoOp DEF Acceptable
      <4>3. accepted.idem[request[o].key] = o
        BY <1>4, <2>2, <3>2, <4>1, <4>2
      <4> QED
        BY <1>6, <1>7, <2>2, <2>3, <3>2, <4>3
    <3> QED
      BY <3>1, <3>2
  <2>4. ASSUME NEW o \in Ops, o \in Retained(durable) PROVE durable.idem[request'[o].key] = o
    BY <1>8, <2>2, <2>4 DEF ListsInv, KeysInv
  <2> QED
    BY <1>5, <2>3, <2>4 DEF KeysInv
<1> QED
  BY <1>9, <1>10, <1>11 DEF ListsInv

\* An operation that could not be saved is in no list; only its own key goes.
LEMMA WithdrawKeepsLists ==
  ASSUME TypeOK, ListsInv, NEW op \in Ops, TriggerWithdraw(op)
  PROVE  ListsInv'
<1>1. UNCHANGED <<durable, issued, request>> /\ pc' = [pc EXCEPT ![op] = "done"]
  BY DEF TriggerWithdraw
<1>2. \A o \in Ops : pc'[o] = "withdraw" => pc[o] = "withdraw"
  BY <1>1 DEF TypeOK
<1>3. CASE mem.active.id # op
  <2>1. mem' = mem
    BY <1>3 DEF TriggerWithdraw
  <2> QED
    BY <1>1, <1>2, <2>1, AddsNothingKeepsLists DEF AddsNothing
<1>4. CASE mem.active.id = op
  <2>1. mem' = [mem EXCEPT !.active = NoOperation, !.idem[request[op].key] = NoOp]
    BY <1>4 DEF TriggerWithdraw
  <2>2. Proper(mem)
    BY DEF TypeOK, Proper
  <2>3. /\ mem'.active.id = NoOp
        /\ mem'.history = mem.history
        /\ \A k \in Keys : k # request[op].key => mem'.idem[k] = mem.idem[k]
    BY <2>1, <2>2 DEF Proper, State, NoOperation
  <2>4. Listed(mem') = Listed(mem) /\ Retained(mem') = {NoOp} \union Listed(mem)
    BY <2>3, RetainedIsListed DEF Listed
  <2>5. op \notin Listed(mem)
    BY DEF TriggerWithdraw, ListsInv, OpenInv
  <2>6. NumberedInv'
    <3>1. \A o \in Retained(mem') : o <= issued
      BY <2>4, RetainedIsListed DEF ListsInv, NumberedInv, TypeOK, NoOp
    <3> QED
      BY <1>1, <3>1 DEF ListsInv, NumberedInv
  <2>7. OpenInv'
    BY <1>1, <1>2, <2>3, <2>4 DEF ListsInv, OpenInv, Busy
  <2>8. ASSUME NEW o \in Ops, o \in Retained(mem') PROVE mem'.idem[request[o].key] = o
    <3>1. o \in Listed(mem) /\ o # op
      BY <2>4, <2>5, <2>8, OpIsNotNoOp
    <3>2. mem.idem[request[o].key] = o /\ mem.idem[request[op].key] = op
      BY <1>4, <3>1, RetainedIsListed DEF ListsInv, KeysInv
    <3>3. request[o].key \in Keys
      <4>1. NoRequest.key \in Keys
        BY ConstantsAssumption DEF NoRequest, Keys
      <4> QED
        BY <4>1 DEF TypeOK, Request
    <3> QED
      BY <2>3, <3>1, <3>2, <3>3
  <2>9. KeysInv'
    BY <1>1, <2>8 DEF ListsInv, KeysInv
  <2> QED
    BY <2>6, <2>7, <2>9 DEF ListsInv
<1> QED
  BY <1>3, <1>4

\* A start, like an end, leaves what the file says.
LEMMA ReloadKeepsLists ==
  ASSUME TypeOK, WorkInv, ListsInv, Start \/ Gone
  PROVE  ListsInv'
<1>1. UNCHANGED <<durable, issued, request>> /\ mem' = durable
  BY DEF Start, Gone
<1>2. \A o \in Ops : pc'[o] = "withdraw" => o \notin Listed(mem')
  <2>1. CASE Start
    BY <2>1 DEF Start, WorkInv, DownIsIdle, TypeOK
  <2>2. CASE Gone
    BY <2>2 DEF Gone
  <2> QED
    BY <2>1, <2>2
<1> QED
  BY <1>1, <1>2 DEF ListsInv, NumberedInv, OpenInv, KeysInv

\* Steps besides those of goroutines, saves, acceptance, withdrawal and reloading
\* leave the lists alone.
OtherSteps == CheckSchedule \/ Acknowledge \/ Configure \/ Stop \/ NextDay \/ UNCHANGED vars

LEMMA OtherStepsEffect ==
  ASSUME TypeOK, OtherSteps
  PROVE  /\ UNCHANGED <<durable, pc, dirty, issued, request, recorded, doubt, local, host>>
         /\ mem'.active = mem.active /\ mem'.backup = mem.backup
         /\ mem'.history = mem.history /\ mem'.idem = mem.idem
         /\ unreviewed' = {} \/ (mem' = mem /\ unreviewed' = unreviewed)
         /\ up' = "down" => up = "down"
         /\ up = "down" => mem' = mem
<1>1. CASE CheckSchedule \/ Configure
  BY <1>1 DEF CheckSchedule, Configure, ghosts
<1>2. CASE Acknowledge
  BY <1>2 DEF Acknowledge, TypeOK, State
<1>3. CASE Stop \/ NextDay \/ UNCHANGED vars
  BY <1>3 DEF Stop, NextDay, vars, controller, host, ghosts
<1> QED
  BY <1>1, <1>2, <1>3 DEF OtherSteps

\* The kinds of steps that the proofs below tell apart.
LEMMA KindsOfSteps ==
  ASSUME TypeOK, [Next]_vars
  PROVE  \/ \E op \in Ops : GoroutineStep(op)
         \/ RequestSave \/ \E op \in Ops : WorkerSave(op) \/ TriggerSave(op)
         \/ \E kind \in Kinds, trigger \in Triggers, key \in Keys :
                Acceptable(kind, key) /\ Accept(kind, trigger, key)
         \/ \E op \in Ops : TriggerWithdraw(op)
         \/ Start
         \/ Gone
         \/ OtherSteps
         \/ TriggerScheduled /\ UNCHANGED <<up, mem, durable, pc, dirty, local, request, issued,
                                            requests, today, host, faults, ghosts>>
<1>1. CASE \E op \in Ops : Progress(op) \/ ScansActive(op)
  BY <1>1 DEF Progress, GoroutineStep
<1>2. CASE \E kind \in Kinds, key \in AdminKeys : TriggerAdmin(kind, key)
  BY <1>2 DEF TriggerAdmin, Keys, Triggers
<1>3. CASE TriggerScheduled
  <2>1. tick.kind \in Kinds /\ tick.key \in Keys
    BY <1>3 DEF TriggerScheduled, TypeOK
  <2> QED
    BY <1>3, <2>1 DEF TriggerScheduled, Triggers
<1> QED
  BY <1>1, <1>2, <1>3 DEF Next, Exit, Crash, OtherSteps

LEMMA NextKeepsLists ==
  ASSUME TypeOK, WorkInv, ListsInv, [Next]_vars
  PROVE  ListsInv'
<1>1. CASE \E op \in Ops : GoroutineStep(op)
  BY <1>1, StepEffect, GoroutineKeepsLists
<1>2. CASE OtherSteps \/ UNCHANGED <<mem, durable, pc, request, issued>>
  <2>1. /\ UNCHANGED <<durable, issued, request, pc>>
        /\ mem'.active = mem.active /\ mem'.history = mem.history /\ mem'.idem = mem.idem
    BY <1>2, OtherStepsEffect
  <2>2. Listed(mem') = Listed(mem) /\ Retained(mem') = Retained(mem) /\ (Busy(mem') <=> Busy(mem))
    BY <2>1, SameLists DEF Busy
  <2> QED
    BY <2>1, <2>2, AddsNothingKeepsLists DEF AddsNothing
<1>3. CASE \E kind \in Kinds, trigger \in Triggers, key \in Keys :
              Acceptable(kind, key) /\ Accept(kind, trigger, key)
  BY <1>3, AcceptKeepsLists
<1>4. CASE \E op \in Ops : TriggerWithdraw(op)
  BY <1>4, WithdrawKeepsLists
<1> QED
  BY <1>1, <1>2, <1>3, <1>4, SavesKeepLists, ReloadKeepsLists, KindsOfSteps

LEMMA InitLists == Init => ListsInv
<1> SUFFICES ASSUME Init PROVE ListsInv
  OBVIOUS
<1>1. mem = EmptyState /\ durable = EmptyState /\ issued = 0
      /\ pc = [o \in Ops |-> "idle"]
  BY DEF Init
<1>2. Retained(EmptyState) = {NoOp} /\ Listed(EmptyState) = {} /\ ~Busy(EmptyState)
  BY DEF Retained, Listed, EmptyState, NoOperation, Busy
<1>3. NumberedInv
  BY <1>1, <1>2 DEF NumberedInv, NoOp
<1>4. OpenInv
  BY <1>1, <1>2 DEF OpenInv
<1>5. KeysInv
  BY <1>1, <1>2, OpIsNotNoOp DEF KeysInv
<1> QED
  BY <1>3, <1>4, <1>5 DEF ListsInv

\* A retried request finds the listed operation of its key, whatever fails to be
\* saved, is withdrawn, trimmed, truncated or restarted.
THEOREM KeysStay == Spec => []ListedOperationsKeepTheirKey
<1>1. TypeOK /\ ListsInv => ListedOperationsKeepTheirKey
  BY DEF ListsInv, KeysInv, Retained, ListedOperationsKeepTheirKey
<1> QED
  BY <1>1, InitTypes, NextTypes, InitWork, NextKeepsWork, InitLists, NextKeepsLists, PTL DEF Spec

-----------------------------------------------------------------------------
(* Rolled back and paused                                                   *)
(*                                                                          *)
(* A rollback begins on an operation that no list has, and its outcome      *)
(* follows the pause unless an acknowledgement came in between.             *)

PauseInv ==
    /\ RolledBackStaysPaused
    /\ \A op \in unreviewed : pc[op] \in Restored => mem.paused

LEMMA ListsFollow == \A s, op, outcome : Lists(s, op, outcome) => op \in Listed(s)
  BY DEF Lists, Listed

LEMMA GoroutineKeepsPause ==
  ASSUME TypeOK, WorkInv, ListsInv, PauseInv, NEW op \in Ops, Effect(op)
  PROVE  PauseInv'
<1>1. /\ durable' = durable
      /\ \A o \in Ops : o # op => pc'[o] = pc[o]
      /\ pc'[op] \in Restored => mem'.paused
  BY DEF Effect, still, Goes, TypeOK
<1>2. unreviewed \subseteq Ops /\ Proper(mem)
  BY DEF TypeOK, Proper
<1>3. CASE unreviewed' = unreviewed \union {op} /\ pc[op] \in WorkingPcs /\ mem' = mem
  <2>1. mem.active.id = op /\ Busy(mem)
    BY <1>3, OpIsNotNoOp DEF WorkInv, WorkersOwnTheActiveOperation, Busy
  <2>2. op \notin Listed(mem) /\ op \notin Listed(durable)
    BY <2>1 DEF ListsInv, OpenInv
  <2>3. \A s \in {mem, durable} : ~Lists(s, op, "rolled-back")
    BY <2>2, ListsFollow
  <2> QED
    BY <1>1, <1>2, <1>3, <2>3 DEF PauseInv, RolledBackStaysPaused
<1>4. CASE unreviewed' = unreviewed
  <2>1. mem.paused => mem'.paused
    <3>1. CASE Concludes(op)
      BY <1>2, <3>1, FinishedIsProper DEF Concludes
    <3>2. CASE mem' = mem \/ Keeps(mem')
      BY <3>2 DEF Keeps
    <3> QED
      BY <3>1, <3>2 DEF Effect
  <2>2. ASSUME NEW o \in unreviewed, Lists(mem', o, "rolled-back") PROVE mem'.paused
    <3>1. CASE mem' = mem \/ Keeps(mem')
      <4>1. Lists(mem, o, "rolled-back")
        BY <2>2, <3>1 DEF Keeps, Lists
      <4> QED
        BY <2>1, <4>1 DEF PauseInv, RolledBackStaysPaused
    <3>2. CASE Concludes(op)
      <4>1. PICK outcome \in TerminalPhases :
               /\ mem' = Finished(mem, op, outcome)
               /\ outcome = "rolled-back" => pc[op] \in Restored
        BY <3>2 DEF Concludes
      <4>2. PICK i \in DOMAIN mem'.history : mem'.history[i] = [id |-> o, phase |-> "rolled-back"]
        BY <2>2 DEF Lists
      <4>3. CASE mem'.history[i] = [id |-> op, phase |-> outcome]
        BY <2>1, <4>1, <4>2, <4>3 DEF PauseInv
      <4>4. CASE \E j \in DOMAIN mem.history : mem'.history[i] = mem.history[j]
        <5>1. Lists(mem, o, "rolled-back")
          BY <4>2, <4>4 DEF Lists
        <5> QED
          BY <2>1, <5>1 DEF PauseInv, RolledBackStaysPaused
      <4> QED
        BY <1>2, <4>1, <4>3, <4>4, FinishedEntries
    <3> QED
      BY <3>1, <3>2 DEF Effect
  <2>3. \A o \in unreviewed : Lists(durable, o, "rolled-back") => durable.paused
    BY DEF PauseInv, RolledBackStaysPaused
  <2>4. \A o \in unreviewed : pc'[o] \in Restored => mem'.paused
    BY <1>1, <1>2, <2>1 DEF PauseInv
  <2> QED
    BY <1>1, <1>4, <2>2, <2>3, <2>4 DEF PauseInv, RolledBackStaysPaused
<1> QED
  BY <1>3, <1>4 DEF Effect

LEMMA NextKeepsPause ==
  ASSUME TypeOK, WorkInv, ListsInv, PauseInv, [Next]_vars
  PROVE  PauseInv'
<1>1. CASE \E op \in Ops : GoroutineStep(op)
  BY <1>1, StepEffect, GoroutineKeepsPause
<1>2. CASE OtherSteps
  <2>1. /\ UNCHANGED <<durable, pc>>
        /\ unreviewed' = {} \/ (mem' = mem /\ unreviewed' = unreviewed)
    BY <1>2, OtherStepsEffect
  <2> QED
    BY <2>1 DEF PauseInv, RolledBackStaysPaused
<1>3. CASE UNCHANGED <<mem, durable, pc, unreviewed>>
  BY <1>3 DEF PauseInv, RolledBackStaysPaused
<1>4. CASE RequestSave \/ \E op \in Ops : WorkerSave(op) \/ TriggerSave(op)
  <2>1. UNCHANGED <<mem, unreviewed>> /\ durable' \in {mem, durable}
    BY <1>4 DEF RequestSave, WorkerSave, TriggerSave, Persist
  <2>2. \A o \in Ops : pc'[o] \in Restored => pc[o] \in Restored
    BY <1>4 DEF RequestSave, WorkerSave, TriggerSave, TypeOK, Restored
  <2>3. unreviewed \subseteq Ops
    BY DEF TypeOK
  <2> QED
    BY <2>1, <2>2, <2>3 DEF PauseInv, RolledBackStaysPaused
<1>5. CASE \E kind \in Kinds, trigger \in Triggers, key \in Keys :
              Acceptable(kind, key) /\ Accept(kind, trigger, key)
  <2>1. PICK kind \in Kinds, trigger \in Triggers, key \in Keys :
              Acceptable(kind, key) /\ Accept(kind, trigger, key)
    BY <1>5
  <2>2. issued + 1 \in Ops
    BY <2>1, ConstantsAssumption DEF TypeOK, Acceptable, Ops
  <2>3. mem'.history = mem.history /\ mem'.paused = mem.paused
    <3> DEFINE accepted == [mem EXCEPT
                 !.active = [id |-> issued + 1, phase |-> "queued", before |-> None],
                 !.backup = NoOp,
                 !.idem[key] = issued + 1]
    <3>1. Proper(accepted)
      BY <2>2, KnownImages DEF TypeOK, Proper, State, Operation, Phases
    <3>2. accepted.history = mem.history /\ accepted.paused = mem.paused
      BY DEF TypeOK, State
    <3>3. mem' = Trimmed(accepted)
      BY <2>1 DEF Accept
    <3> HIDE DEF accepted
    <3> QED
      BY <3>1, <3>2, <3>3, TrimmedIsProper
  <2>4. UNCHANGED <<durable, unreviewed>>
    BY <2>1 DEF Accept, ghosts
  <2>5. \A o \in Ops : pc'[o] \in Restored => pc[o] \in Restored
    BY <2>1, <2>2 DEF Accept, TypeOK, Restored
  <2>6. unreviewed \subseteq Ops
    BY DEF TypeOK
  <2> QED
    BY <2>3, <2>4, <2>5, <2>6 DEF PauseInv, RolledBackStaysPaused, Lists
<1>6. CASE \E op \in Ops : TriggerWithdraw(op)
  <2>1. UNCHANGED <<durable, unreviewed>> /\ mem'.history = mem.history /\ mem'.paused = mem.paused
    BY <1>6 DEF TriggerWithdraw, ghosts, TypeOK, State
  <2>2. \A o \in Ops : pc'[o] \in Restored => pc[o] \in Restored
    BY <1>6 DEF TriggerWithdraw, TypeOK, Restored
  <2>3. unreviewed \subseteq Ops
    BY DEF TypeOK
  <2> QED
    BY <2>1, <2>2, <2>3 DEF PauseInv, RolledBackStaysPaused, Lists
<1>7. CASE Start \/ Gone
  <2>1. UNCHANGED <<durable, unreviewed>> /\ mem' = durable
    BY <1>7 DEF Start, Gone, ghosts
  <2>2. \A o \in Ops : pc'[o] \notin Restored
    <3>1. CASE Start
      BY <3>1 DEF Start, WorkInv, DownIsIdle, TypeOK, Restored
    <3>2. CASE Gone
      BY <3>2 DEF Gone, Restored
    <3> QED
      BY <1>7, <3>1, <3>2
  <2>3. unreviewed \subseteq Ops
    BY DEF TypeOK
  <2> QED
    BY <2>1, <2>2, <2>3 DEF PauseInv, RolledBackStaysPaused
<1> QED
  BY <1>1, <1>2, <1>3, <1>4, <1>5, <1>6, <1>7, KindsOfSteps DEF ghosts

LEMMA InitPause == Init => PauseInv
  BY DEF Init, PauseInv, RolledBackStaysPaused

\* Wherever an upgrade is listed as rolled back automation is paused until that was
\* acknowledged, with crashes, failing saves and several rollbacks.
THEOREM StaysPaused == Spec => []RolledBackStaysPaused
<1>1. PauseInv => RolledBackStaysPaused
  BY DEF PauseInv
<1> QED
  BY <1>1, InitTypes, NextTypes, InitWork, NextKeepsWork, InitLists, NextKeepsLists,
     InitPause, NextKeepsPause, PTL DEF Spec

-----------------------------------------------------------------------------
(* The file as an operation log, where saves succeed                        *)
(*                                                                          *)
(* What matters is how far memory is ahead of the file: not at all, by the  *)
(* outcome of the operation that the file shows as open, by an operation    *)
(* accepted since, or by both.                                              *)

DistinctIds(s) ==
    \A i, j \in DOMAIN s.history : s.history[i].id = s.history[j].id => i = j

\* An operation is saved before it begins.
Shown == Busy(mem) /\ pc[mem.active.id] # "saving" => mem.active.id = durable.active.id

Ahead ==
    /\ durable.active.id <= mem.active.id
    /\ mem.active.id # durable.active.id => Busy(mem)
    /\ \/ /\ mem.history = durable.history
          /\ IF mem.active.id = durable.active.id THEN Busy(mem) <=> Busy(durable)
                                                  ELSE ~Busy(durable)
       \/ /\ Busy(durable)
          /\ mem.active.id = durable.active.id => ~Busy(mem)
          /\ \E outcome \in TerminalPhases :
                mem.history = Finished(durable, durable.active.id, outcome).history

RecordedInv ==
    /\ \A op \in recorded : op <= durable.active.id
    /\ Listed(durable) \subseteq recorded
    /\ durable.active.id \in recorded \union {NoOp}

NoWithdrawal == \A op \in Ops : pc[op] # "withdraw"

LogInv ==
    /\ DistinctIds(mem) /\ DistinctIds(durable)
    /\ Shown
    /\ Ahead
    /\ RecordedInv
    /\ NoWithdrawal

LEMMA FinishedIsDistinct ==
  ASSUME NEW s, Proper(s), DistinctIds(s), NEW op \in Ops, op \notin Listed(s),
         NEW outcome \in TerminalPhases
  PROVE  DistinctIds(Finished(s, op, outcome))
<1> DEFINE h == Finished(s, op, outcome).history
<1>1. /\ Len(h) \in 1 .. Len(s.history) + 1
      /\ DOMAIN h = 1 .. Len(h)
      /\ DOMAIN s.history = 1 .. Len(s.history) /\ Len(s.history) \in Nat
      /\ \A i \in DOMAIN h :
            h[i] = IF i = 1 THEN [id |-> op, phase |-> outcome] ELSE s.history[i - 1]
  BY FinishedHistory
<1> HIDE DEF h
<1>2. \A i \in DOMAIN h : i # 1 => i - 1 \in DOMAIN s.history
  BY <1>1
<1>3. \A i \in DOMAIN h : h[i].id = IF i = 1 THEN op ELSE s.history[i - 1].id
  BY <1>1
<1>4. \A i \in DOMAIN h : i # 1 => h[i].id # op
  BY <1>2, <1>3 DEF Listed
<1>5. ASSUME NEW i \in DOMAIN h, NEW j \in DOMAIN h, h[i].id = h[j].id PROVE i = j
  <2>1. CASE i = 1 \/ j = 1
    BY <1>3, <1>4, <1>5, <2>1
  <2>2. CASE i # 1 /\ j # 1
    <3>1. i - 1 = j - 1
      BY <1>2, <1>3, <1>5, <2>2 DEF DistinctIds
    <3> QED
      BY <1>1, <3>1
  <2> QED
    BY <2>1, <2>2
<1> QED
  BY <1>5 DEF h, DistinctIds

\* The newest entry is the outcome.
LEMMA FinishedIsListed ==
  ASSUME NEW s, Proper(s), NEW op \in Ops, NEW outcome \in TerminalPhases
  PROVE  LET h == Finished(s, op, outcome).history IN
         1 \in DOMAIN h /\ h[1] = [id |-> op, phase |-> outcome]
<1> DEFINE h == Finished(s, op, outcome).history
<1>1. /\ Len(h) \in 1 .. Len(s.history) + 1
      /\ DOMAIN h = 1 .. Len(h)
      /\ Len(s.history) \in Nat
      /\ \A i \in DOMAIN h :
            h[i] = IF i = 1 THEN [id |-> op, phase |-> outcome] ELSE s.history[i - 1]
  BY FinishedHistory
<1> HIDE DEF h
<1>2. 1 \in DOMAIN h
  BY <1>1
<1> QED
  BY <1>1, <1>2 DEF h

LEMMA ActiveIds == TypeOK => /\ mem.active.id \in Ops \union {NoOp}
                             /\ durable.active.id \in Ops \union {NoOp}
                             /\ Ops \union {NoOp} \subseteq Nat
  BY OpIsNotNoOp DEF TypeOK, State, Operation, NoOp

LEMMA GoroutineKeepsLog ==
  ASSUME TypeOK, WorkInv, ListsInv, LogInv, NEW op \in Ops, Effect(op)
  PROVE  LogInv'
<1>1. UNCHANGED <<durable, recorded>>
  BY DEF Effect, still
<1>2. /\ \A o \in Ops : o # op => pc'[o] = pc[o]
      /\ pc[op] \notin Resting /\ pc'[op] \notin {"saving", "withdraw"}
  BY DEF Effect, Goes, TypeOK
<1>3. NoWithdrawal' /\ RecordedInv' /\ DistinctIds(durable')
  BY <1>1, <1>2 DEF LogInv, NoWithdrawal, RecordedInv, DistinctIds, Listed
<1>4. CASE mem' = mem \/ Keeps(mem')
  <2>1. mem'.active.id = mem.active.id /\ mem'.history = mem.history /\ (Busy(mem') <=> Busy(mem))
    BY <1>4 DEF Keeps, Busy
  <2>2. DistinctIds(mem') /\ Ahead'
    BY <1>1, <2>1 DEF LogInv, Ahead, DistinctIds
  <2>3. Shown'
    <3> SUFFICES ASSUME Busy(mem), pc'[mem.active.id] # "saving"
                 PROVE  mem.active.id = durable.active.id
      BY <1>1, <2>1 DEF Shown
    <3>1. mem.active.id \in Ops
      BY ActiveIds DEF Busy
    <3>2. pc[mem.active.id] # "saving"
      BY <1>2, <3>1 DEF Resting
    <3> QED
      BY <3>2 DEF LogInv, Shown
  <2> QED
    BY <1>3, <2>2, <2>3 DEF LogInv
<1>5. CASE Concludes(op)
  <2>1. PICK outcome \in TerminalPhases : CanFinish(mem, op) /\ mem' = Finished(mem, op, outcome)
    BY <1>5 DEF Concludes
  <2>2. Proper(mem) /\ Proper(durable) /\ mem.active.id = op /\ Busy(mem)
    BY <2>1, OpIsNotNoOp DEF TypeOK, Proper, CanFinish, Busy
  <2>3. durable.active.id = op
    BY <1>2, <2>2 DEF LogInv, Shown, Resting
  <2>4. mem.history = durable.history /\ Busy(durable)
    BY <2>2, <2>3 DEF LogInv, Ahead
  <2>5. mem'.active.id = op /\ ~Busy(mem')
    BY <2>1, <2>2, FinishedIsProper DEF Busy, Terminal
  <2>6. Finished(mem, op, outcome).history = Finished(durable, op, outcome).history
    BY <2>2, <2>4 DEF Finished, Proper, State
  <2>7. Ahead'
    <3>1. \E o \in TerminalPhases :
             mem'.history = Finished(durable, durable.active.id, o).history
      BY <2>1, <2>3, <2>6
    <3>2. op <= op
      BY OpIsNotNoOp
    <3> QED
      BY <1>1, <2>3, <2>4, <2>5, <3>1, <3>2 DEF Ahead
  <2>8. Shown'
    BY <2>5 DEF Shown
  <2>9. DistinctIds(mem')
    BY <2>1, <2>2, FinishedIsDistinct DEF LogInv, ListsInv, OpenInv
  <2> QED
    BY <1>3, <2>7, <2>8, <2>9 DEF LogInv
<1> QED
  BY <1>4, <1>5 DEF Effect

\* Where saves succeed, a save makes the file the state in memory.
LEMMA SaveEffect ==
  ASSUME TypeOK, ~SaveMayFail, RequestSave \/ \E op \in Ops : WorkerSave(op) \/ TriggerSave(op)
  PROVE  /\ mem' = mem /\ durable' = mem
         /\ recorded' = (recorded \union {mem.active.id}) \ {NoOp}
         /\ doubt' = IF mem.active.id # doubt.op \/ Terminal(mem.active.phase) THEN NoDoubt ELSE doubt
         /\ UNCHANGED <<up, local, request, issued, host, unreviewed>>
         /\ \/ pc' = pc
            \/ \E op \in Ops : pc[op] = "saving" /\ pc' = [pc EXCEPT ![op] = "start"]
         /\ \A op \in Ops : dirty'[op] => dirty[op]
<1>1. \A saved \in BOOLEAN : Persist(saved) =>
         /\ saved /\ durable' = mem
         /\ recorded' = (recorded \union {mem.active.id}) \ {NoOp}
         /\ doubt' = IF mem.active.id # doubt.op \/ Terminal(mem.active.phase) THEN NoDoubt ELSE doubt
  BY DEF Persist
<1>2. CASE RequestSave
  BY <1>1, <1>2 DEF RequestSave
<1>3. ASSUME NEW op \in Ops, WorkerSave(op)
      PROVE  /\ mem' = mem /\ durable' = mem
             /\ recorded' = (recorded \union {mem.active.id}) \ {NoOp}
             /\ doubt' = IF mem.active.id # doubt.op \/ Terminal(mem.active.phase) THEN NoDoubt ELSE doubt
             /\ UNCHANGED <<up, local, request, issued, host, unreviewed>>
             /\ pc' = pc
             /\ \A o \in Ops : dirty'[o] => dirty[o]
  <2>1. \A o \in Ops : dirty'[o] => dirty[o]
    BY <1>3, Zenon DEF WorkerSave, TypeOK
  <2> QED
    BY <1>1, <1>3, <2>1 DEF WorkerSave
<1>4. ASSUME NEW op \in Ops, TriggerSave(op)
      PROVE  /\ mem' = mem /\ durable' = mem
             /\ recorded' = (recorded \union {mem.active.id}) \ {NoOp}
             /\ doubt' = IF mem.active.id # doubt.op \/ Terminal(mem.active.phase) THEN NoDoubt ELSE doubt
             /\ UNCHANGED <<up, local, request, issued, host, unreviewed>>
             /\ pc[op] = "saving" /\ pc' = [pc EXCEPT ![op] = "start"]
             /\ dirty' = dirty
  BY <1>1, <1>4 DEF TriggerSave
<1> QED
  BY <1>2, <1>3, <1>4

LEMMA SavesKeepLog ==
  ASSUME TypeOK, ~SaveMayFail, ListsInv, LogInv,
         RequestSave \/ \E op \in Ops : WorkerSave(op) \/ TriggerSave(op)
  PROVE  LogInv'
<1>1. /\ mem' = mem /\ durable' = mem
      /\ recorded' = (recorded \union {mem.active.id}) \ {NoOp}
      /\ pc' = pc \/ \E op \in Ops : pc' = [pc EXCEPT ![op] = "start"]
  BY SaveEffect
<1>2. NoWithdrawal'
  BY <1>1 DEF LogInv, NoWithdrawal, TypeOK
<1>3. Proper(mem) /\ Proper(durable)
  BY DEF TypeOK, Proper
<1>4. Listed(mem) \subseteq Listed(durable) \union ({durable.active.id} \ {NoOp})
  <2>1. CASE mem.history = durable.history
    BY <2>1 DEF Listed
  <2>2. CASE mem.history # durable.history
    <3>1. PICK outcome \in TerminalPhases :
             mem.history = Finished(durable, durable.active.id, outcome).history
      BY <2>2 DEF LogInv, Ahead
    <3>2. durable.active.id \in Ops /\ durable.active.id # NoOp
      BY <2>2, ActiveIds DEF LogInv, Ahead, Busy
    <3>3. Listed(mem) = Listed(Finished(durable, durable.active.id, outcome))
      BY <3>1 DEF Listed
    <3> QED
      BY <1>3, <3>2, <3>3, FinishedListed
  <2> QED
    BY <2>1, <2>2
<1>5. RecordedInv'
  <2>1. \A o \in recorded' : o <= mem.active.id
    <3>1. recorded \subseteq Nat
      BY ActiveIds DEF TypeOK
    <3> QED
      BY <1>1, <3>1, ActiveIds DEF LogInv, RecordedInv, Ahead
  <2>2. Listed(mem) \subseteq recorded'
    <3>1. NoOp \notin Listed(mem)
      BY <1>3, ListedAreOps, OpIsNotNoOp
    <3> QED
      BY <1>1, <1>4, <3>1 DEF LogInv, RecordedInv
  <2>3. mem.active.id \in recorded' \union {NoOp}
    BY <1>1
  <2> QED
    BY <1>1, <2>1, <2>2, <2>3 DEF RecordedInv
<1>6. Shown' /\ Ahead' /\ DistinctIds(mem') /\ DistinctIds(durable')
  BY <1>1, ActiveIds DEF LogInv, Shown, Ahead
<1> QED
  BY <1>2, <1>5, <1>6 DEF LogInv

LEMMA AcceptKeepsLog ==
  ASSUME TypeOK, ListsInv, LogInv, NEW kind \in Kinds, NEW trigger, NEW key \in Keys,
         Acceptable(kind, key), Accept(kind, trigger, key)
  PROVE  LogInv'
<1> DEFINE op == issued + 1
           accepted == [mem EXCEPT
                 !.active = [id |-> op, phase |-> "queued", before |-> None],
                 !.backup = NoOp,
                 !.idem[key] = op]
<1>1. op \in Ops /\ issued \in Nat
  BY ConstantsAssumption DEF TypeOK, Acceptable, Ops
<1>2. Proper(accepted)
  BY <1>1, KnownImages DEF TypeOK, Proper, State, Operation, Phases
<1>3. /\ accepted.active.id = op
      /\ accepted.active.phase = "queued"
      /\ accepted.history = mem.history
  BY DEF TypeOK, State
<1>4. mem' = Trimmed(accepted) /\ UNCHANGED <<durable, recorded>> /\ pc' = [pc EXCEPT ![op] = "saving"]
  BY DEF Accept, ghosts
<1> HIDE DEF accepted
<1>5. mem'.active.id = op /\ mem'.history = mem.history /\ mem'.active.phase = "queued"
  BY <1>2, <1>3, <1>4, TrimmedIsProper
<1>6. Busy(mem') /\ ~Busy(mem)
  BY <1>1, <1>5, OpIsNotNoOp DEF Busy, Terminal, TerminalPhases, Acceptable
<1>7. durable.active.id <= op /\ durable.active.id # op
  <2>1. durable.active.id <= issued
    BY RetainedIsListed DEF ListsInv, NumberedInv
  <2> QED
    BY <1>1, <2>1, ActiveIds
<1>8. Ahead'
  BY <1>4, <1>5, <1>6, <1>7 DEF LogInv, Ahead
<1>9. Shown'
  BY <1>1, <1>4, <1>5 DEF Shown, TypeOK
<1>10. DistinctIds(mem') /\ DistinctIds(durable') /\ RecordedInv' /\ NoWithdrawal'
  BY <1>4, <1>5 DEF LogInv, DistinctIds, RecordedInv, NoWithdrawal, Listed, TypeOK
<1> QED
  BY <1>8, <1>9, <1>10 DEF LogInv

LEMMA NextKeepsLog ==
  ASSUME TypeOK, ~SaveMayFail, WorkInv, ListsInv, LogInv, [Next]_vars
  PROVE  LogInv'
<1>1. CASE \E op \in Ops : GoroutineStep(op)
  BY <1>1, StepEffect, GoroutineKeepsLog
<1>2. CASE OtherSteps \/ UNCHANGED <<mem, durable, pc, ghosts>>
  <2>1. /\ UNCHANGED <<durable, recorded, pc>>
        /\ mem'.active = mem.active /\ mem'.history = mem.history
    BY <1>2, OtherStepsEffect DEF ghosts
  <2>2. Busy(mem') <=> Busy(mem)
    BY <2>1 DEF Busy
  <2> QED
    BY <2>1, <2>2 DEF LogInv, DistinctIds, Shown, Ahead, RecordedInv, NoWithdrawal, Listed
<1>3. CASE \E op \in Ops : TriggerWithdraw(op)
  BY <1>3 DEF TriggerWithdraw, LogInv, NoWithdrawal
<1>4. CASE Start \/ Gone
  <2>1. UNCHANGED <<durable, recorded>> /\ mem' = durable
    BY <1>4 DEF Start, Gone, ghosts
  <2>2. NoWithdrawal'
    BY <1>4 DEF Start, Gone, LogInv, NoWithdrawal, TypeOK
  <2> QED
    BY <2>1, <2>2, ActiveIds DEF LogInv, DistinctIds, Shown, Ahead, RecordedInv, Listed
<1> QED
  BY <1>1, <1>2, <1>3, <1>4, AcceptKeepsLog, SavesKeepLog, KindsOfSteps

LEMMA InitLog == Init => LogInv
<1> SUFFICES ASSUME Init PROVE LogInv
  OBVIOUS
<1>1. /\ mem = EmptyState /\ durable = EmptyState /\ recorded = {}
      /\ pc = [o \in Ops |-> "idle"]
  BY DEF Init
<1>2. /\ Listed(EmptyState) = {} /\ ~Busy(EmptyState) /\ DistinctIds(EmptyState)
      /\ EmptyState.active.id = NoOp
  BY DEF Listed, EmptyState, NoOperation, Busy, DistinctIds
<1>3. Shown /\ Ahead
  BY <1>1, <1>2 DEF Shown, Ahead, NoOp
<1>4. RecordedInv /\ NoWithdrawal
  BY <1>1, <1>2 DEF RecordedInv, NoWithdrawal
<1> QED
  BY <1>1, <1>2, <1>3, <1>4 DEF LogInv

\* What a file s says of an operation, if rec has been in the file before.
StatusOf(s, rec, op) ==
    IF \E i \in DOMAIN s.history : s.history[i].id = op
    THEN (CHOOSE e \in {s.history[i] : i \in DOMAIN s.history} : e.id = op).phase
    ELSE IF s.active.id = op /\ ~Terminal(s.active.phase) THEN "open"
    ELSE IF op \in rec THEN "forgotten"
    ELSE "none"

LEMMA StatusIsStatusOf ==
  /\ DurableStatus = [op \in Ops |-> StatusOf(durable, recorded, op)]
  /\ DurableStatus' = [op \in Ops |-> StatusOf(durable', recorded', op)]
  BY DEF DurableStatus, StatusOf

LEMMA ListedStatus ==
  ASSUME NEW s, NEW rec, DistinctIds(s), NEW i \in DOMAIN s.history
  PROVE  StatusOf(s, rec, s.history[i].id) = s.history[i].phase
<1> DEFINE entries == {s.history[j] : j \in DOMAIN s.history}
           found == CHOOSE e \in entries : e.id = s.history[i].id
<1>1. s.history[i] \in entries
  OBVIOUS
<1>2. found \in entries /\ found.id = s.history[i].id
  BY <1>1
<1>3. found = s.history[i]
  BY <1>2 DEF DistinctIds
<1> QED
  BY <1>3 DEF StatusOf

LEMMA UnlistedStatus ==
  ASSUME NEW s, NEW rec, NEW op, op \notin Listed(s)
  PROVE  StatusOf(s, rec, op) = IF s.active.id = op /\ ~Terminal(s.active.phase) THEN "open"
                                ELSE IF op \in rec THEN "forgotten" ELSE "none"
BY DEF StatusOf, Listed

LEMMA StatusTypes ==
  ASSUME NEW s, Proper(s), DistinctIds(s), NEW rec, NEW op
  PROVE  /\ StatusOf(s, rec, op) \in TerminalPhases \union {"none", "open", "forgotten"}
         /\ op \in Listed(s) => StatusOf(s, rec, op) \in TerminalPhases
<1>1. CASE op \in Listed(s)
  <2>1. PICK i \in DOMAIN s.history : s.history[i].id = op
    BY <1>1 DEF Listed
  <2> DEFINE Entry == [id : Ops, phase : TerminalPhases]
  <2>2. s.history \in Seq(Entry)
    BY DEF Proper, State
  <2> HIDE DEF Entry
  <2>3. s.history[i] \in Entry
    BY <2>2
  <2>4. s.history[i].phase \in TerminalPhases
    BY <2>3 DEF Entry
  <2> QED
    BY <2>1, <2>4, ListedStatus
<1>2. CASE op \notin Listed(s)
  BY <1>2, UnlistedStatus
<1> QED
  BY <1>1, <1>2

\* "open", "forgotten" and "none" are no outcomes.
LEMMA OutcomesApart ==
  "open" \notin TerminalPhases /\ "forgotten" \notin TerminalPhases /\ "none" \notin TerminalPhases
  BY DEF TerminalPhases

\* What one save may do to the status of an operation.
LEMMA SaveMovesStatus ==
  ASSUME TypeOK, ListsInv, LogInv, NEW op \in Ops,
         NEW rec, rec = (recorded \union {mem.active.id}) \ {NoOp}
  PROVE  Log!MayBecome(StatusOf(durable, recorded, op), StatusOf(mem, rec, op))
<1> DEFINE old == StatusOf(durable, recorded, op)
           new == StatusOf(mem, rec, op)
           Open(s) == s.active.id = op /\ ~Terminal(s.active.phase)
<1>1. /\ Proper(mem) /\ Proper(durable) /\ DistinctIds(mem) /\ DistinctIds(durable)
      /\ op # NoOp /\ op \in Nat
  BY OpIsNotNoOp DEF TypeOK, Proper, LogInv
<1>2. Open(mem) <=> Busy(mem) /\ mem.active.id = op
  BY <1>1 DEF Busy
<1>3. Open(durable) <=> Busy(durable) /\ durable.active.id = op
  BY <1>1 DEF Busy
\* An entry of the new history is one of the old history or the outcome of the
\* operation that was open.
<1>4. ASSUME NEW i \in DOMAIN mem.history
      PROVE  \/ \E j \in DOMAIN durable.history : mem.history[i] = durable.history[j]
             \/ Busy(durable) /\ mem.history[i].id = durable.active.id
  <2>1. CASE mem.history = durable.history
    BY <2>1
  <2>2. CASE mem.history # durable.history
    <3>1. PICK outcome \in TerminalPhases :
             mem.history = Finished(durable, durable.active.id, outcome).history
      BY <2>2 DEF LogInv, Ahead
    <3>2. Busy(durable) /\ durable.active.id \in Ops
      BY <2>2, ActiveIds DEF LogInv, Ahead, Busy
    <3>3. \/ mem.history[i] = [id |-> durable.active.id, phase |-> outcome]
          \/ \E j \in DOMAIN durable.history : mem.history[i] = durable.history[j]
      BY <1>1, <3>1, <3>2, FinishedEntries
    <3> QED
      BY <3>2, <3>3
  <2> QED
    BY <2>1, <2>2
<1>5. CASE op \in Listed(durable)
  <2>1. old \in TerminalPhases
    BY <1>1, <1>5, StatusTypes
  <2>2. CASE op \in Listed(mem)
    <3>1. PICK i \in DOMAIN mem.history : mem.history[i].id = op
      BY <2>2 DEF Listed
    <3>2. ~(Busy(durable) /\ op = durable.active.id)
      BY <1>5 DEF ListsInv, OpenInv
    <3>3. PICK j \in DOMAIN durable.history : mem.history[i] = durable.history[j]
      BY <1>4, <3>1, <3>2
    <3>4. new = mem.history[i].phase /\ old = durable.history[j].phase
      BY <1>1, <3>1, <3>3, ListedStatus
    <3> QED
      BY <3>3, <3>4 DEF Log!MayBecome
  <2>3. CASE op \notin Listed(mem)
    <3>1. ~Open(mem)
      BY <1>2, <1>5 DEF ListsInv, OpenInv
    <3>2. op \in rec
      BY <1>1, <1>5 DEF LogInv, RecordedInv
    <3>3. new = "forgotten"
      BY <2>3, <3>1, <3>2, UnlistedStatus
    <3> QED
      BY <2>1, <3>3 DEF Log!MayBecome
  <2> QED
    BY <2>2, <2>3
<1>6. CASE op \notin Listed(durable) /\ Open(durable)
  <2>1. old = "open" /\ Busy(durable) /\ durable.active.id = op
    BY <1>3, <1>6, UnlistedStatus
  <2>2. CASE mem.history = durable.history
    <3>1. Busy(mem) /\ mem.active.id = op
      <4>1. ASSUME NEW outcome \in TerminalPhases,
                   mem.history = Finished(durable, op, outcome).history
            PROVE  FALSE
        <5>1. 1 \in DOMAIN durable.history /\ durable.history[1] = [id |-> op, phase |-> outcome]
          BY <1>1, <2>2, <4>1, FinishedIsListed
        <5> QED
          BY <1>6, <5>1 DEF Listed
      <4> QED
        BY <2>1, <4>1 DEF LogInv, Ahead
    <3>2. op \notin Listed(mem)
      BY <1>6, <2>2 DEF Listed
    <3>3. new = "open"
      BY <1>2, <3>1, <3>2, UnlistedStatus
    <3> QED
      BY <2>1, <3>3 DEF Log!MayBecome
  <2>3. CASE mem.history # durable.history
    <3>1. PICK outcome \in TerminalPhases : mem.history = Finished(durable, op, outcome).history
      BY <2>1, <2>3 DEF LogInv, Ahead
    <3>2. 1 \in DOMAIN mem.history /\ mem.history[1] = [id |-> op, phase |-> outcome]
      BY <1>1, <3>1, FinishedIsListed
    <3>3. StatusOf(mem, rec, mem.history[1].id) = mem.history[1].phase
      BY <1>1, <3>2, ListedStatus
    <3>4. mem.history[1].id = op /\ mem.history[1].phase = outcome
      BY <3>2
    <3>5. new = outcome
      BY <3>3, <3>4
    <3> QED
      BY <2>1, <3>5 DEF Log!MayBecome
  <2> QED
    BY <2>2, <2>3
<1>7. CASE op \notin Listed(durable) /\ ~Open(durable)
  <2>1. op \notin Listed(mem)
    <3> SUFFICES ASSUME NEW i \in DOMAIN mem.history, mem.history[i].id = op PROVE FALSE
      BY DEF Listed
    <3> QED
      BY <1>3, <1>4, <1>7 DEF Listed
  <2>2. old = IF op \in recorded THEN "forgotten" ELSE "none"
    BY <1>7, UnlistedStatus
  <2>3. CASE op \in recorded
    <3>1. ~Open(mem)
      <4> SUFFICES ASSUME Busy(mem), mem.active.id = op PROVE FALSE
        BY <1>2
      <4>1. durable.active.id = op
        BY <1>1, <2>3, ActiveIds DEF LogInv, RecordedInv, Ahead
      <4> QED
        BY <1>3, <1>7, <4>1 DEF LogInv, Ahead
    <3>2. new = "forgotten"
      BY <1>1, <2>1, <2>3, <3>1, UnlistedStatus
    <3> QED
      BY <2>2, <2>3, <3>2 DEF Log!MayBecome
  <2>4. CASE op \notin recorded
    <3>1. CASE Open(mem)
      <4>1. new = "open"
        BY <2>1, <3>1, UnlistedStatus
      <4> QED
        BY <2>2, <2>4, <4>1 DEF Log!MayBecome
    <3>2. CASE ~Open(mem)
      <4>1. mem.active.id # op
        BY <1>1, <1>2, <2>4, <3>2 DEF LogInv, Ahead, RecordedInv
      <4>2. new = "none"
        BY <2>1, <2>4, <3>2, <4>1, UnlistedStatus
      <4> QED
        BY <2>2, <2>4, <4>2 DEF Log!MayBecome
    <3> QED
      BY <3>1, <3>2
  <2> QED
    BY <2>3, <2>4
<1> QED
  BY <1>5, <1>6, <1>7

\* Where saves succeed the state file implements the operation log: one operation
\* open at a time, one outcome for it, never revised, whatever crashes.
THEOREM FileIsLog == ASSUME ~SaveMayFail PROVE Spec => FileIsOperationLog
<1> DEFINE I == TypeOK /\ WorkInv /\ ListsInv /\ LogInv
<1>1. Init => I
  BY InitTypes, InitWork, InitLists, InitLog
<1>2. I /\ [Next]_vars => I'
  BY ~SaveMayFail, NextTypes, NextKeepsWork, NextKeepsLists, NextKeepsLog
<1>3. Init => Log!Init
  <2> SUFFICES ASSUME Init PROVE \A op \in Ops : StatusOf(durable, recorded, op) = "none"
    BY StatusIsStatusOf DEF Log!Init
  <2>1. durable = EmptyState /\ recorded = {} /\ Listed(EmptyState) = {}
    BY DEF Init, Listed, EmptyState
  <2>2. EmptyState.active.id = NoOp
    BY DEF EmptyState, NoOperation
  <2> QED
    BY <2>1, <2>2, UnlistedStatus, OpIsNotNoOp
<1>4. ASSUME I, [Next]_vars PROVE [Log!Advance]_DurableStatus
  <2>1. CASE RequestSave \/ \E op \in Ops : WorkerSave(op) \/ TriggerSave(op)
    <3>1. durable' = mem /\ recorded' = (recorded \union {mem.active.id}) \ {NoOp}
      BY <1>4, <2>1, SaveEffect
    <3>2. \A op \in Ops : Log!MayBecome(DurableStatus[op], DurableStatus'[op])
      BY <1>4, <3>1, SaveMovesStatus, StatusIsStatusOf
    <3>3. Proper(mem) /\ DistinctIds(mem)
      BY <1>4 DEF TypeOK, Proper, LogInv
    <3>4. DurableStatus' \in [Ops -> TerminalPhases \union {"none", "open", "forgotten"}]
      BY <3>1, <3>3, StatusTypes, StatusIsStatusOf
    <3>5. \A op \in Ops : DurableStatus'[op] = "open" => op = mem.active.id
      <4> SUFFICES ASSUME NEW op \in Ops, StatusOf(mem, recorded', op) = "open"
                   PROVE  op = mem.active.id
        BY <3>1, StatusIsStatusOf
      <4>1. op \notin Listed(mem)
        BY <3>3, StatusTypes, OutcomesApart
      <4> QED
        BY <4>1, UnlistedStatus
    <3>6. Log!AtMostOneOpen(DurableStatus')
      BY <3>5 DEF Log!AtMostOneOpen
    <3> QED
      BY <3>2, <3>4, <3>6 DEF Log!Advance
  <2>2. CASE UNCHANGED <<durable, recorded>>
    BY <2>2, StatusIsStatusOf
  <2>3. \/ UNCHANGED <<durable, recorded>>
        \/ RequestSave \/ \E op \in Ops : WorkerSave(op) \/ TriggerSave(op)
    <3>1. ASSUME NEW op \in Ops, GoroutineStep(op) PROVE UNCHANGED <<durable, recorded>>
      BY <1>4, <3>1, StepEffect DEF Effect, still
    <3>2. CASE OtherSteps
      BY <1>4, <3>2, OtherStepsEffect
    <3> QED
      BY <1>4, <3>1, <3>2, KindsOfSteps DEF ghosts, Accept, TriggerWithdraw, Start, Gone
  <2> QED
    BY <2>1, <2>2, <2>3
<1> QED
  BY <1>1, <1>2, <1>3, <1>4, PTL DEF Spec, FileIsOperationLog, Log!Spec

-----------------------------------------------------------------------------
(* Interrupted upgrades, where saves succeed                                *)
(*                                                                          *)
(* The file has to know, before the services change, which images ran and   *)
(* which dump holds their database, and it must not lose either until the   *)
(* upgrade is settled. Four things carry this: what a goroutine past its    *)
(* save has in the file (OnFileInv), what an upgrade has collected before   *)
(* it applies (PreparedInv), that the newest dump is never pruned           *)
(* (HostInv), and what memory, goroutine and services agree on once they    *)
(* change (DoubtInv).                                                       *)

DownIsFile == up = "down" => mem = durable

OnFileInv ==
    \A o \in Ops : pc[o] \in WorkingPcs \ {"saving"} =>
        /\ durable.active.id = o
        /\ ~Terminal(durable.active.phase)
        /\ ~dirty[o] => durable.active = mem.active /\ durable.backup = mem.backup

HostInv ==
    /\ running # None /\ pulled # None /\ db # None
    /\ \A o \in Ops : dumps[o] # None => o <= durable.active.id

\* From the preflight, and from the backup, to the recreation of the services.
PreparedPcs == {"checkpoint", "backup", "staging", "pull", "compare", "apply"}
DumpedPcs == {"staging", "pull", "compare", "apply"}

PreparedInv ==
    \A o \in Ops :
        /\ pc[o] \in PreparedPcs => local[o].before = running /\ mem.active.before = running
        /\ pc[o] \in DumpedPcs => local[o].backup = o /\ mem.backup = o /\ dumps[o] = db
        /\ pc[o] = "apply" => mem.active.phase = "applying"

\* Where a goroutine stands that has recreated the services, or recovers.
AfterApply ==
    {"applying", "verifying", "verify", "record", "prune", "complete", "fail", "done",
     "rollback", "restore", "restoring", "reverify", "finish-restored",
     "recover", "recover-restore", "recover-restoring", "recover-pause",
     "finish-recovered", "recover-stop"}

\* A state that can be loaded to recover the upgrade that is in doubt.
Recovers(s) ==
    /\ s.active.before = doubt.image
    /\ s.backup = doubt.op
    /\ ~doubt.settled => s.active.phase \in ChangingPhases

DoubtInv ==
    doubt.op # NoOp =>
        /\ doubt.image # None /\ doubt.db # None
        /\ dumps[doubt.op] = doubt.db
        /\ durable.active.id = doubt.op /\ Busy(durable) /\ Recovers(durable)
        /\ mem.active.id = doubt.op /\ Busy(mem) => Recovers(mem)
        /\ pc[doubt.op] \in AfterApply
        /\ pc[doubt.op] \in {"record", "prune"} => doubt.settled
        /\ pc[doubt.op] \in WorkingPcs =>
              local[doubt.op].before = doubt.image /\ local[doubt.op].backup = doubt.op
        /\ pc[doubt.op] \in {"restoring", "recover-restoring"} => pulled = doubt.image
        /\ pc[doubt.op] \in {"reverify", "finish-restored", "finish-recovered"} =>
              running = doubt.image /\ db = doubt.db

UpgradeInv == DownIsFile /\ OnFileInv /\ HostInv /\ PreparedInv /\ DoubtInv

\* A goroutine whose operation has its outcome touches neither the host nor
\* what is known of the upgrade.
QuietEffect(op) ==
    /\ UNCHANGED <<local, host, doubt, durable>>
    /\ \E next \in {"complete", "done"} : pc' = [pc EXCEPT ![op] = next]
    /\ \/ mem'.active = mem.active /\ mem'.backup = mem.backup
       \/ /\ mem.active.id = op /\ ~Terminal(mem.active.phase)
          /\ mem'.active.id = op /\ Terminal(mem'.active.phase)

LEMMA QuietSteps ==
  ASSUME TypeOK, WorkInv, NEW op \in Ops, GoroutineStep(op), pc[op] \notin WorkingPcs
  PROVE  QuietEffect(op)
<1>1. pc[op] \in {"deferred", "complete", "recover-pause"}
  BY StepEffect DEF Effect, Resting, WorkingPcs, Pcs
<1>2. \/ Finish(op, "complete", "succeeded", "done")
      \/ /\ At(op, "deferred")
         /\ Change(op, ScheduleCompleted(mem, "stack"), "complete")
         /\ UNCHANGED <<local, host, doubt, unreviewed>>
      \/ /\ At(op, "recover-pause")
         /\ Change(op, Paused(mem), "done")
         /\ UNCHANGED <<local, host, doubt, unreviewed>>
  <2>1. ~Execute(op) /\ ~OperationError(op) /\ ~ReportFailure(op) /\ ~Check(op)
        /\ ~ScansIdle(op) /\ ~ScansActive(op)
    BY <1>1 DEF Execute, OperationError, FalliblePcs, ReportFailure, Check, ScansIdle,
                ScansActive, Enter, Finish, At
  <2>2. ~FeedStep(op)
    BY <1>1 DEF FeedStep, Enter, Finish, At
  <2>3. ~StackStep(op)
    BY <1>1 DEF StackStep, Preflight, Backup, PullStack, Unchanged, PruneUnchanged, Changed,
                ApplyBegin, ApplyEnd, Verify, Record, Prune, Enter, At
  <2>4. ~RollbackStep(op)
    BY <1>1 DEF RollbackStep, RollbackBegin, RollbackDone, RollbackFailed, Enter, Finish, At
  <2>5. RecoverStep(op) => /\ At(op, "recover-pause")
                           /\ Change(op, Paused(mem), "done")
                           /\ UNCHANGED <<local, host, doubt, unreviewed>>
    BY <1>1 DEF RecoverStep, RollbackBegin, Recovered, RollbackDone, RollbackFailed, Enter, Finish, At
  <2>6. Succeed(op) => Finish(op, "complete", "succeeded", "done")
    BY <1>1 DEF Succeed, Finish, At
  <2>7. Defer(op) => /\ At(op, "deferred")
                     /\ Change(op, ScheduleCompleted(mem, "stack"), "complete")
                     /\ UNCHANGED <<local, host, doubt, unreviewed>>
    BY <1>1 DEF Defer, Finish, At
  <2> QED
    BY <2>1, <2>2, <2>3, <2>4, <2>5, <2>6, <2>7 DEF GoroutineStep
<1>3. Proper(mem) /\ today \in Days /\ "succeeded" \in TerminalPhases
  BY DEF TypeOK, Proper, TerminalPhases
<1>4. /\ ScheduleCompleted(mem, "stack").active = mem.active
      /\ ScheduleCompleted(mem, "stack").backup = mem.backup
      /\ Paused(mem).active = mem.active /\ Paused(mem).backup = mem.backup
  BY <1>3, ScheduleCompletedIsProper, PausedIsProper
<1>5. /\ Finished(mem, op, "succeeded").active.id = mem.active.id
      /\ Terminal(Finished(mem, op, "succeeded").active.phase)
  BY <1>3, FinishedIsProper DEF Terminal
<1> QED
  BY <1>2, <1>4, <1>5 DEF QuietEffect, Finish, CanFinish, Change, Move, still

\* While a goroutine works, the others rest or have nothing left but to report.
LEMMA WorksAlone ==
  ASSUME TypeOK, WorkInv, NEW op \in Ops, pc[op] \in WorkingPcs
  PROVE  /\ mem.active.id = op /\ ~Terminal(mem.active.phase) /\ Busy(mem)
         /\ \A o \in Ops : pc[o] \in WorkingPcs => o = op
  BY OpIsNotNoOp DEF WorkInv, WorkersOwnTheActiveOperation, Busy

LEMMA NextKeepsDownIsFile ==
  ASSUME TypeOK, ~SaveMayFail, WorkInv, LogInv, DownIsFile, [Next]_vars
  PROVE  DownIsFile'
<1>1. ASSUME NEW op \in Ops, GoroutineStep(op) PROVE up' # "down"
  BY <1>1, StepEffect DEF Effect, still, Resting, WorkInv, DownIsIdle
<1>2. CASE RequestSave \/ \E op \in Ops : WorkerSave(op) \/ TriggerSave(op)
  BY <1>2, SaveEffect DEF DownIsFile
<1>3. CASE \E op \in Ops : TriggerWithdraw(op)
  BY <1>3 DEF TriggerWithdraw, LogInv, NoWithdrawal
<1>4. CASE OtherSteps
  BY <1>4, OtherStepsEffect DEF DownIsFile
<1>5. CASE \E kind \in Kinds, trigger \in Triggers, key \in Keys :
              Acceptable(kind, key) /\ Accept(kind, trigger, key)
  <2>1. up' = "up"
    BY <1>5 DEF Acceptable, Accept
  <2> QED
    BY <2>1 DEF DownIsFile
<1> QED
  BY <1>1, <1>2, <1>3, <1>4, <1>5, KindsOfSteps DEF DownIsFile, Start, Gone

LEMMA NextKeepsOnFile ==
  ASSUME TypeOK, ~SaveMayFail, WorkInv, LogInv, OnFileInv, [Next]_vars
  PROVE  OnFileInv'
<1>1. CASE \E op \in Ops : GoroutineStep(op)
  <2>1. PICK op \in Ops : GoroutineStep(op)
    BY <1>1
  <2>2. Effect(op) /\ UNCHANGED durable
    BY <2>1, StepEffect DEF Effect, still
  <2>3. ASSUME NEW o \in Ops, o # op, pc'[o] \in WorkingPcs \ {"saving"}
        PROVE  /\ durable'.active.id = o
               /\ ~Terminal(durable'.active.phase)
               /\ ~dirty'[o] => durable'.active = mem'.active /\ durable'.backup = mem'.backup
    <3>1. pc'[o] = pc[o] /\ dirty'[o] = dirty[o]
      BY <2>2, <2>3 DEF Effect, Goes, TypeOK
    <3>2. pc[op] \notin WorkingPcs /\ mem.active.id = o
      BY <2>3, <3>1, WorksAlone
    <3>3. mem'.active = mem.active /\ mem'.backup = mem.backup
      BY <2>1, <2>3, <3>2, QuietSteps DEF QuietEffect
    <3> QED
      BY <2>2, <2>3, <3>1, <3>3 DEF OnFileInv
  <2>4. ASSUME pc'[op] \in WorkingPcs \ {"saving"}
        PROVE  /\ durable'.active.id = op
               /\ ~Terminal(durable'.active.phase)
               /\ ~dirty'[op] => durable'.active = mem'.active /\ durable'.backup = mem'.backup
    <3>1. pc[op] \in WorkingPcs \ {"saving"} /\ ~dirty[op]
      BY <2>2, <2>4 DEF Effect, Goes, Resting, TypeOK
    <3>2. mem' = mem \/ dirty'[op]
      BY <2>2 DEF Effect, TypeOK
    <3> QED
      BY <2>2, <3>1, <3>2 DEF OnFileInv
  <2> QED
    BY <2>3, <2>4 DEF OnFileInv, WorkingPcs, Pcs
<1>2. CASE RequestSave \/ \E op \in Ops : WorkerSave(op) \/ TriggerSave(op)
  <2>1. /\ mem' = mem /\ durable' = mem
        /\ pc' = pc \/ \E op \in Ops : pc[op] = "saving" /\ pc' = [pc EXCEPT ![op] = "start"]
    BY <1>2, SaveEffect
  <2>2. \A o \in Ops : pc'[o] \in WorkingPcs => pc[o] \in WorkingPcs
    BY <2>1 DEF TypeOK, WorkingPcs, Pcs
  <2> QED
    BY <2>1, <2>2, WorksAlone DEF OnFileInv, WorkingPcs, Pcs
<1>3. CASE \E op \in Ops : TriggerWithdraw(op)
  BY <1>3 DEF TriggerWithdraw, LogInv, NoWithdrawal
<1>4. CASE OtherSteps \/ UNCHANGED <<mem, durable, pc, dirty>>
  <2>1. UNCHANGED <<durable, pc, dirty>> /\ mem'.active = mem.active /\ mem'.backup = mem.backup
    BY <1>4, OtherStepsEffect
  <2> QED
    BY <2>1 DEF OnFileInv, WorkingPcs, Pcs
<1>5. CASE \E kind \in Kinds, trigger \in Triggers, key \in Keys :
              Acceptable(kind, key) /\ Accept(kind, trigger, key)
  <2>1. \A o \in Ops : pc[o] \notin WorkingPcs
    BY <1>5, WorksAlone DEF Acceptable
  <2>2. \A o \in Ops : pc'[o] \in {pc[o], "saving"}
    BY <1>5 DEF Accept, TypeOK
  <2> QED
    BY <2>1, <2>2 DEF OnFileInv, WorkingPcs, Pcs
<1>6. CASE Start
  <2>1. up = "down" /\ UNCHANGED <<durable, dirty>> /\ mem' = durable
    BY <1>6 DEF Start
  <2>2. \A o \in Ops : pc'[o] = pc[o] \/ (o = durable.active.id /\ Busy(durable))
    BY <1>6 DEF Start, Interrupted, TypeOK
  <2>3. \A o \in Ops : pc[o] \notin WorkingPcs
    BY <2>1 DEF WorkInv, DownIsIdle, WorkingPcs
  <2> QED
    BY <2>1, <2>2, <2>3 DEF OnFileInv, Busy, WorkingPcs, Pcs
<1>7. CASE Gone
  <2>1. \A o \in Ops : pc'[o] \in {"idle", "done"}
    BY <1>7 DEF Gone
  <2> QED
    BY <2>1 DEF OnFileInv, WorkingPcs
<1> QED
  BY <1>1, <1>2, <1>3, <1>4, <1>5, <1>6, <1>7, KindsOfSteps

\* Steps of a working goroutine away from the preparation and the recreation of
\* the services: they may drop dumps, and they do not lead there.
Elsewhere(op) ==
    /\ pc[op] \notin AfterApply
    /\ \E next \in Pcs \ PreparedPcs : pc' = [pc EXCEPT ![op] = next]
    /\ UNCHANGED <<running, pulled, db, doubt>>
    /\ \A o \in Ops : dumps'[o] \in {dumps[o], None}

PrepareStep(op) ==
    \/ Preflight(op)
    \/ Enter(op, "checkpoint", "checkpoint", "backup")
    \/ Backup(op)
    \/ Enter(op, "staging", "staging", "pull")
    \/ PullStack(op)
    \/ Changed(op)

AppliedStep(op) ==
    \/ ApplyEnd(op)
    \/ Enter(op, "verifying", "verifying", "verify")
    \/ Verify(op)
    \/ Record(op)
    \/ Prune(op)
    \/ RollbackStep(op)
    \/ RecoverStep(op)
    \/ ReportFailure(op)

LEMMA StaysElsewhere ==
  ASSUME TypeOK, NEW op \in Ops, pc[op] \notin AfterApply, NEW next \in Pcs \ PreparedPcs,
         pc' = [pc EXCEPT ![op] = next], UNCHANGED host, UNCHANGED doubt
  PROVE  Elsewhere(op)
BY DEF Elsewhere, host

LEMMA WorkingSteps ==
  ASSUME TypeOK, WorkInv, NEW op \in Ops, GoroutineStep(op), pc[op] \in WorkingPcs
  PROVE  Elsewhere(op) \/ PrepareStep(op) \/ ApplyBegin(op) \/ AppliedStep(op)
<1>1. {"scans", "feed-preflight", "check", "done", "fail", "check-saved", "preflight",
       "deferred", "cleanup", "unchanged", "complete", "feed-pulling", "feed-pull",
       "feed-compare", "feed-apply", "feed-import", "feed-cleanup"} \subseteq Pcs \ PreparedPcs
  BY DEF Pcs, PreparedPcs
<1>2. CASE Execute(op)
  BY <1>1, <1>2, StaysElsewhere DEF Execute, At, Move, Change, AfterApply
<1>3. CASE OperationError(op)
  <2>1. pc[op] \notin AfterApply
    BY <1>3 DEF OperationError, FalliblePcs, AfterApply
  <2>2. UNCHANGED <<host, doubt>> /\ \E next \in {"done", "fail"} : pc' = [pc EXCEPT ![op] = next]
    BY <1>3 DEF OperationError, Move
  <2> QED
    BY <1>1, <2>1, <2>2, StaysElsewhere
<1>4. CASE Succeed(op)
  <2>1. Finish(op, "check-saved", "succeeded", "done")
    BY <1>4 DEF Succeed, Finish, At, WorkingPcs
  <2> QED
    BY <1>1, <2>1, StaysElsewhere DEF Finish, At, Change, Move, AfterApply
<1>5. CASE Check(op)
  BY <1>1, <1>5, StaysElsewhere DEF Check, At, Change, AfterApply
<1>6. CASE ScansIdle(op) \/ ScansActive(op)
  BY <1>1, <1>6, StaysElsewhere DEF ScansIdle, ScansActive, Enter, At, Change, AfterApply
<1>7. CASE Defer(op)
  <2>1. Finish(op, "scans", "cancelled", "deferred")
    BY <1>7 DEF Defer, At, WorkingPcs
  <2> QED
    BY <1>1, <2>1, StaysElsewhere DEF Finish, At, Change, Move, AfterApply
<1>8. CASE FeedStep(op)
  <2>1. UNCHANGED host /\ UNCHANGED doubt
    BY <1>8 DEF FeedStep, Enter, Finish
  <2>2. pc[op] \notin AfterApply
    BY <1>8 DEF FeedStep, Enter, Finish, At, AfterApply
  <2>3. \E next \in {"feed-pulling", "feed-pull", "feed-compare", "feed-apply", "feed-import",
                     "feed-cleanup", "complete"} : pc' = [pc EXCEPT ![op] = next]
    BY <1>8 DEF FeedStep, Enter, Finish, Change, Move
  <2> QED
    BY <1>1, <2>1, <2>2, <2>3, StaysElsewhere
<1>9. CASE Unchanged(op)
  BY <1>1, <1>9, StaysElsewhere DEF Unchanged, At, Change, AfterApply
<1>10. CASE Enter(op, "cleanup", "cleanup", "unchanged")
  BY <1>1, <1>10, StaysElsewhere DEF Enter, At, Change, AfterApply
<1>11. CASE PruneUnchanged(op)
  BY <1>1, <1>11 DEF PruneUnchanged, PrunedDumps, At, Move, AfterApply, Elsewhere
<1> QED
  BY <1>2, <1>3, <1>4, <1>5, <1>6, <1>7, <1>8, <1>9, <1>10, <1>11
  DEF GoroutineStep, StackStep, PrepareStep, AppliedStep

\* What the way to the recreation of the services may change.
LEMMA PrepareEffect ==
  ASSUME TypeOK, WorkInv, NEW op \in Ops, PrepareStep(op)
  PROVE  /\ pc[op] \in WorkingPcs \ AfterApply
         /\ UNCHANGED <<running, db, doubt>>
         /\ pulled' # None \/ pulled' = pulled
         /\ dumps' = dumps \/ dumps' = [dumps EXCEPT ![op] = db]
<1>1. pc[op] \in WorkingPcs \ AfterApply
  BY DEF PrepareStep, Preflight, Backup, PullStack, Changed, Enter, At, WorkingPcs, Pcs, AfterApply
<1>2. 1 .. MaxVersion \subseteq Images \ {None}
  BY ConstantsAssumption DEF Images, None
<1> QED
  BY <1>1, <1>2 DEF PrepareStep, Preflight, Backup, PullStack, Changed, Enter, host

LEMMA PrepareKeepsPrepared ==
  ASSUME TypeOK, WorkInv, PreparedInv, NEW op \in Ops, PrepareStep(op)
  PROVE  /\ pc'[op] \in PreparedPcs => local'[op].before = running' /\ mem'.active.before = running'
         /\ pc'[op] \in DumpedPcs => local'[op].backup = op /\ mem'.backup = op /\ dumps'[op] = db'
         /\ pc'[op] = "apply" => mem'.active.phase = "applying"
<1>1. Proper(mem) /\ running \in Images /\ local[op].before \in Images /\ mem.active.id = op
  BY PrepareEffect, WorksAlone DEF TypeOK, Proper
<1>2. /\ pc \in [Ops -> Pcs] /\ dumps \in [Ops -> Images]
      /\ local \in [Ops -> [before : Images, backup : Ops \union {NoOp}, cancelled : BOOLEAN]]
  BY DEF TypeOK
<1>3. CASE Preflight(op)
  <2>1. pc'[op] = "checkpoint" /\ running' = running /\ local'[op].before = running
        /\ mem' = WithImages(mem, op, running)
    BY <1>2, <1>3 DEF Preflight, Change, Snapshot, host
  <2> QED
    BY <1>1, <2>1, WithImagesIsProper DEF DumpedPcs
<1>4. CASE Enter(op, "checkpoint", "checkpoint", "backup")
  <2>1. pc[op] = "checkpoint" /\ pc'[op] = "backup" /\ UNCHANGED <<local, running>>
        /\ mem' = InPhase(mem, op, "checkpoint") /\ "checkpoint" \in Phases
    BY <1>2, <1>4 DEF Enter, At, Change, host, Phases
  <2>2. mem'.active.before = mem.active.before
    BY <1>1, <2>1, InPhaseIsProper
  <2> QED
    BY <2>1, <2>2 DEF PreparedInv, PreparedPcs, DumpedPcs
<1>5. CASE Backup(op)
  <2>1. /\ pc[op] = "backup" /\ pc'[op] = "staging" /\ UNCHANGED <<running, db>>
        /\ local'[op].before = local[op].before /\ local'[op].backup = op
        /\ dumps'[op] = db
        /\ mem' = [mem EXCEPT !.backup = op]
    BY <1>1, <1>2, <1>5 DEF Backup, At, Change
  <2>2. mem'.active = mem.active /\ mem'.backup = op
    BY <1>1, <2>1 DEF Proper, State
  <2> QED
    BY <2>1, <2>2 DEF PreparedInv, PreparedPcs, DumpedPcs
<1>6. CASE Enter(op, "staging", "staging", "pull")
  <2>1. pc[op] = "staging" /\ pc'[op] = "pull" /\ UNCHANGED <<local, host>>
        /\ mem' = InPhase(mem, op, "staging") /\ "staging" \in Phases
    BY <1>2, <1>6 DEF Enter, At, Change, Phases
  <2>2. mem'.active.before = mem.active.before /\ mem'.backup = mem.backup
    BY <1>1, <2>1, InPhaseIsProper
  <2> QED
    BY <2>1, <2>2 DEF PreparedInv, PreparedPcs, DumpedPcs, host
<1>7. CASE PullStack(op)
  <2>1. pc[op] = "pull" /\ pc'[op] = "compare" /\ UNCHANGED <<local, running, db, dumps>>
        /\ mem' = WithImages(mem, op, local[op].before)
    BY <1>2, <1>7 DEF PullStack, At, Change
  <2>2. mem'.active.before = local[op].before /\ mem'.backup = mem.backup
    BY <1>1, <2>1, WithImagesIsProper
  <2> QED
    BY <2>1, <2>2 DEF PreparedInv, PreparedPcs, DumpedPcs
<1>8. CASE Changed(op)
  <2>1. pc[op] = "compare" /\ pc'[op] = "apply" /\ UNCHANGED <<local, host>>
        /\ mem' = InPhase(mem, op, "applying") /\ "applying" \in Phases
    BY <1>2, <1>8 DEF Changed, Enter, At, Change, Phases
  <2>2. /\ mem'.active.before = mem.active.before /\ mem'.backup = mem.backup
        /\ mem'.active.phase = "applying"
    BY <1>1, <2>1, InPhaseIsProper
  <2> QED
    BY <2>1, <2>2 DEF PreparedInv, PreparedPcs, DumpedPcs, host
<1> QED
  BY <1>3, <1>4, <1>5, <1>6, <1>7, <1>8 DEF PrepareStep

\* What memory keeps of an upgrade that has recreated services: all that
\* recovery needs, until the upgrade has its outcome or is cleaning up.
Remembers(op) ==
    /\ mem'.active.id = op
    /\ \/ Terminal(mem'.active.phase)
       \/ /\ mem'.active.before = mem.active.before
          /\ mem'.backup = mem.backup
          /\ \/ mem'.active.phase \in {mem.active.phase} \union ChangingPhases
             \/ pc[op] = "prune"

\* What the services are where a rollback stands next.
Lands(op, next) ==
    /\ next \in {"record", "prune"} => doubt'.settled \/ pc[op] = "record"
    /\ next \in {"restoring", "recover-restoring"} => local[op].before \in {pulled', None}
    /\ next \in {"reverify", "finish-recovered"} =>
          /\ pc[op] \in {"restoring", "recover-restoring"}
          /\ running' = pulled /\ db' = DatabaseAfterRestore(op)
    /\ next = "finish-restored" => pc[op] = "reverify" /\ UNCHANGED host

AppliedEffect(op) ==
    /\ UNCHANGED durable
    /\ doubt' = doubt \/ doubt' = [doubt EXCEPT !.settled = TRUE]
    /\ local'[op].before = local[op].before /\ local'[op].backup = local[op].backup
    /\ dumps'[op] = dumps[op] /\ \A o \in Ops : dumps'[o] \in {dumps[o], None}
    /\ running' # None /\ pulled' # None /\ db' # None
    /\ Remembers(op)
    /\ pc[op] \in AfterApply
    /\ \E next \in AfterApply : pc' = [pc EXCEPT ![op] = next] /\ Lands(op, next)

\* The places reached by changes to the state alone.
ChangedPlaces == {"verify", "complete", "fail", "done", "restore", "recover-restore",
                  "recover-pause", "finish-restored"}

LEMMA OnlyChanges ==
  ASSUME TypeOK, HostInv, NEW op \in Ops, pc[op] \in AfterApply, Remembers(op),
         UNCHANGED <<durable, local, host, doubt>>,
         NEW next \in ChangedPlaces, pc' = [pc EXCEPT ![op] = next],
         next = "finish-restored" => pc[op] = "reverify"
  PROVE  AppliedEffect(op)
BY DEF AppliedEffect, Lands, host, HostInv, ChangedPlaces, AfterApply

LEMMA EnterApplied ==
  ASSUME TypeOK, WorkInv, HostInv, NEW op \in Ops, pc[op] \in WorkingPcs,
         NEW place \in AfterApply, NEW phase \in ChangingPhases, NEW next \in ChangedPlaces,
         next # "finish-restored", Enter(op, place, phase, next)
  PROVE  AppliedEffect(op)
<1>1. pc[op] = place /\ mem' = InPhase(mem, op, phase) /\ pc' = [pc EXCEPT ![op] = next]
      /\ UNCHANGED <<durable, local, host, doubt>>
  BY DEF Enter, At, Change, still
<1>2. Proper(mem) /\ mem.active.id = op /\ phase \in Phases
  BY WorksAlone DEF TypeOK, Proper, ChangingPhases, Phases
<1>3. Remembers(op)
  BY <1>1, <1>2, InPhaseIsProper DEF Remembers
<1> QED
  BY <1>1, <1>3, OnlyChanges

LEMMA FinishApplied ==
  ASSUME TypeOK, WorkInv, HostInv, NEW op \in Ops, pc[op] \in WorkingPcs,
         NEW place \in AfterApply, NEW outcome \in TerminalPhases, NEW next \in ChangedPlaces,
         next # "finish-restored", Finish(op, place, outcome, next)
  PROVE  AppliedEffect(op)
<1>1. mem.active.id = op /\ CanFinish(mem, op) /\ Proper(mem)
  BY WorksAlone DEF CanFinish, TypeOK, Proper
<1>2. pc[op] = place /\ mem' = Finished(mem, op, outcome) /\ pc' = [pc EXCEPT ![op] = next]
      /\ UNCHANGED <<durable, local, host, doubt>>
  BY <1>1 DEF Finish, At, Change, still
<1>3. Remembers(op)
  BY <1>1, <1>2, FinishedIsProper DEF Remembers, Terminal
<1> QED
  BY <1>2, <1>3, OnlyChanges

\* The dump of the newest operation that has one is not pruned.
LEMMA NewestDumpStays ==
  ASSUME TypeOK, HostInv, NEW op \in Ops, durable.active.id = op
  PROVE  PrunedDumps[op] = dumps[op]
<1>1. {p \in Ops : p > op /\ dumps[p] # None} = {}
  BY OpIsNotNoOp DEF HostInv
<1>2. Cardinality({p \in Ops : p > op /\ dumps[p] # None}) < Retention
  BY <1>1, FS_EmptySet, ConstantsAssumption
<1> QED
  BY <1>2 DEF PrunedDumps

LEMMA ForwardApplied ==
  ASSUME TypeOK, WorkInv, OnFileInv, HostInv, NEW op \in Ops, pc[op] \in WorkingPcs,
         ApplyEnd(op) \/ Verify(op) \/ Record(op) \/ Prune(op)
  PROVE  AppliedEffect(op)
<1>1. /\ mem.active.id = op /\ Proper(mem) /\ today \in Days
      /\ local[op] \in [before : Images, backup : Ops \union {NoOp}, cancelled : BOOLEAN]
      /\ local \in [Ops -> [before : Images, backup : Ops \union {NoOp}, cancelled : BOOLEAN]]
      /\ doubt \in Doubt
  BY WorksAlone DEF TypeOK, Proper
<1>2. Mixed # None
  BY ConstantsAssumption DEF Mixed, None
<1>3. mem' = mem => Remembers(op)
  BY <1>1 DEF Remembers
<1>4. FallBack(op) => /\ local'[op].before = local[op].before
                      /\ local'[op].backup = local[op].backup
                      /\ mem' = mem /\ UNCHANGED durable
                      /\ pc' = [pc EXCEPT ![op] = "rollback"]
  BY <1>1 DEF FallBack, Move, still
<1>5. CASE ApplyEnd(op)
  <2>1. /\ mem' = mem /\ UNCHANGED <<durable, pulled, dumps, doubt>>
        /\ pc[op] = "applying"
        /\ \E next \in {"verifying", "rollback"} : pc' = [pc EXCEPT ![op] = next]
        /\ running' # None /\ db' # None
        /\ local'[op].before = local[op].before /\ local'[op].backup = local[op].backup
    BY <1>4, <1>5 DEF ApplyEnd, At, Move, still, HostInv
  <2> QED
    BY <1>3, <2>1 DEF AppliedEffect, Lands, AfterApply, HostInv
<1>6. CASE Verify(op)
  <2>1. /\ mem' = mem /\ UNCHANGED <<durable, host>>
        /\ pc[op] = "verify"
        /\ local'[op].before = local[op].before /\ local'[op].backup = local[op].backup
    BY <1>4, <1>6 DEF Verify, At, Change, still
  <2>2. \/ doubt' = [doubt EXCEPT !.settled = TRUE] /\ pc' = [pc EXCEPT ![op] = "record"]
        \/ doubt' = doubt /\ pc' = [pc EXCEPT ![op] = "rollback"]
    BY <1>4, <1>6 DEF Verify, Change
  <2>3. \/ doubt' = [doubt EXCEPT !.settled = TRUE] /\ doubt'.settled
           /\ pc' = [pc EXCEPT ![op] = "record"]
        \/ doubt' = doubt /\ pc' = [pc EXCEPT ![op] = "rollback"]
    BY <1>1, <2>2 DEF Doubt
  <2> QED
    BY <1>3, <2>1, <2>3 DEF AppliedEffect, Lands, AfterApply, HostInv, host
<1>7. CASE Record(op)
  <2>1. /\ pc[op] = "record" /\ pc' = [pc EXCEPT ![op] = "prune"]
        /\ mem' = ScheduleCompleted(mem, "stack")
        /\ UNCHANGED <<durable, local, host, doubt>>
    BY <1>7 DEF Record, At, Change, still
  <2>2. Remembers(op)
    BY <1>1, <2>1, ScheduleCompletedIsProper DEF Remembers
  <2> QED
    BY <2>1, <2>2 DEF AppliedEffect, Lands, AfterApply, HostInv, host
<1>8. CASE Prune(op)
  <2>1. /\ pc[op] = "prune" /\ pc' = [pc EXCEPT ![op] = "complete"]
        /\ mem' = InPhase(mem, op, "cleanup") /\ "cleanup" \in Phases
        /\ dumps' \in {dumps, PrunedDumps}
        /\ UNCHANGED <<durable, local, running, pulled, db, doubt>>
    BY <1>8 DEF Prune, At, Change, still, Phases
  <2>2. Remembers(op)
    BY <1>1, <2>1, InPhaseIsProper DEF Remembers
  <2>3. dumps'[op] = dumps[op] /\ \A o \in Ops : dumps'[o] \in {dumps[o], None}
    <3>1. durable.active.id = op
      BY <2>1 DEF OnFileInv
    <3> QED
      BY <2>1, <3>1, NewestDumpStays DEF PrunedDumps
  <2> QED
    BY <2>1, <2>2, <2>3 DEF AppliedEffect, Lands, AfterApply, HostInv
<1> QED
  BY <1>5, <1>6, <1>7, <1>8

LEMMA BackwardApplied ==
  ASSUME TypeOK, WorkInv, HostInv, NEW op \in Ops, pc[op] \in WorkingPcs,
         RollbackStep(op) \/ RecoverStep(op)
  PROVE  AppliedEffect(op)
<1>1. /\ mem.active.id = op /\ Proper(mem) /\ CanFinish(mem, op)
      /\ Mixed # None
      /\ {"rolled-back", "degraded", "failed"} \subseteq TerminalPhases
      /\ "rolling-back" \in ChangingPhases
      /\ AfterFailedRollback(op) \in {"done", "fail"}
  BY WorksAlone, ConstantsAssumption
  DEF CanFinish, TypeOK, Proper, Mixed, None, TerminalPhases, ChangingPhases, AfterFailedRollback
<1>2. mem' \in {mem, Paused(mem), Finished(mem, op, "failed")} => Remembers(op)
  BY <1>1, PausedIsProper, FinishedIsProper DEF Remembers, Terminal
<1>3. CASE \/ Enter(op, "rollback", "rolling-back", "restore")
           \/ Enter(op, "recover", "rolling-back", "recover-restore")
  BY <1>1, <1>3, EnterApplied DEF AfterApply, ChangedPlaces
<1>4. CASE \/ Finish(op, "finish-restored", "rolled-back", "complete")
           \/ Finish(op, "finish-recovered", "rolled-back", "done")
           \/ Finish(op, "recover-stop", "degraded", "done")
  BY <1>1, <1>4, FinishApplied DEF AfterApply, ChangedPlaces
<1>5. ASSUME NEW place \in {"restore", "recover-restore"},
             NEW next \in {"restoring", "recover-restoring"}, RollbackBegin(op, place, next)
      PROVE  AppliedEffect(op)
  <2>1. /\ mem' = mem /\ UNCHANGED <<durable, local, db, dumps, doubt>>
        /\ pc[op] = place /\ pc' = [pc EXCEPT ![op] = next]
        /\ running' = Mixed
        /\ pulled' = IF local[op].before = None THEN pulled ELSE local[op].before
    BY <1>5 DEF RollbackBegin, At, Move, still
  <2> QED
    BY <1>1, <1>2, <2>1 DEF AppliedEffect, Lands, AfterApply, HostInv
<1>6. CASE \/ RollbackDone(op, "restoring") /\ Move(op, "reverify")
           \/ Recovered(op)
  <2>1. /\ mem' \in {mem, Paused(mem)} /\ UNCHANGED <<durable, local, pulled, dumps, doubt>>
        /\ pc[op] \in {"restoring", "recover-restoring"}
        /\ \E next \in {"reverify", "finish-recovered"} : pc' = [pc EXCEPT ![op] = next]
        /\ running' = pulled /\ db' = DatabaseAfterRestore(op)
    BY <1>6 DEF RollbackDone, Recovered, At, Move, Change, still
  <2>2. db' # None
    BY <1>6, <2>1 DEF RollbackDone, Recovered, DumpReadable, DatabaseAfterRestore, HostInv
  <2> QED
    BY <1>2, <2>1, <2>2 DEF AppliedEffect, Lands, AfterApply, HostInv
<1>7. CASE \/ RollbackFailed(op, "restoring") /\ Change(op, Paused(mem), AfterFailedRollback(op))
           \/ /\ RollbackFailed(op, "recover-restoring")
              /\ Change(op, Finished(mem, op, "failed"), "recover-pause")
  <2>1. /\ mem' \in {Paused(mem), Finished(mem, op, "failed")}
        /\ UNCHANGED <<durable, local, running, pulled, dumps, doubt>>
        /\ pc[op] \in {"restoring", "recover-restoring"}
        /\ \E next \in {"done", "fail", "recover-pause"} : pc' = [pc EXCEPT ![op] = next]
        /\ db' # None
    BY <1>1, <1>7 DEF RollbackFailed, At, Change, still, HostInv
  <2> QED
    BY <1>2, <2>1 DEF AppliedEffect, Lands, AfterApply, HostInv
<1>8. CASE /\ At(op, "reverify")
           /\ \/ Change(op, Paused(mem), "finish-restored")
              \/ Change(op, Paused(mem), AfterFailedRollback(op))
           /\ UNCHANGED <<local, host, doubt, unreviewed>>
  <2>1. /\ mem' = Paused(mem) /\ UNCHANGED <<durable, local, host, doubt>>
        /\ pc[op] = "reverify"
        /\ \E next \in {"finish-restored", "done", "fail"} : pc' = [pc EXCEPT ![op] = next]
    BY <1>1, <1>8 DEF At, Change, still
  <2> QED
    BY <1>2, <2>1, OnlyChanges DEF AfterApply, ChangedPlaces
<1>9. pc[op] # "recover-pause"
  BY DEF WorkingPcs
<1>10. CASE RollbackStep(op)
  BY <1>3, <1>4, <1>5, <1>6, <1>7, <1>8, <1>10 DEF RollbackStep
<1>11. CASE RecoverStep(op)
  BY <1>1, <1>3, <1>4, <1>5, <1>6, <1>7, <1>9, <1>11 DEF RecoverStep, At
<1> QED
  BY <1>10, <1>11

LEMMA AppliedSteps ==
  ASSUME TypeOK, WorkInv, OnFileInv, HostInv, NEW op \in Ops, pc[op] \in WorkingPcs,
         AppliedStep(op)
  PROVE  AppliedEffect(op)
<1>1. CASE Enter(op, "verifying", "verifying", "verify")
  BY <1>1, EnterApplied DEF AfterApply, ChangedPlaces, ChangingPhases
<1>2. CASE ReportFailure(op)
  BY <1>2, FinishApplied DEF ReportFailure, AfterApply, ChangedPlaces, TerminalPhases
<1> QED
  BY <1>1, <1>2, ForwardApplied, BackwardApplied DEF AppliedStep

\* What a step of a goroutine does to the upgrade, by where the goroutine stands.
LEMMA GoroutineKeepsUpgrade ==
  ASSUME TypeOK, WorkInv, OnFileInv, HostInv, PreparedInv, DoubtInv,
         NEW op \in Ops, GoroutineStep(op)
  PROVE  HostInv' /\ PreparedInv' /\ DoubtInv'
<1>1. /\ UNCHANGED durable /\ mem.active.id \in Nat /\ doubt \in Doubt /\ op # NoOp
      /\ doubt.op \in Ops \union {NoOp}
      /\ pc \in [Ops -> Pcs] /\ local \in [Ops -> [before : Images, backup : Ops \union {NoOp},
                                                   cancelled : BOOLEAN]]
      /\ dumps \in [Ops -> Images]
  BY StepEffect, ActiveIds, OpIsNotNoOp DEF Effect, still, TypeOK, Doubt
<1>2. CASE pc[op] \notin WorkingPcs
  <2>1. QuietEffect(op)
    BY <1>2, QuietSteps
  <2>2. HostInv'
    BY <2>1 DEF QuietEffect, HostInv, host
  <2>3. \A o \in Ops : pc'[o] \in WorkingPcs \union PreparedPcs => o # op /\ pc'[o] = pc[o]
    BY <1>1, <2>1 DEF QuietEffect, WorkingPcs, PreparedPcs
  <2>4. PreparedPcs \subseteq WorkingPcs /\ DumpedPcs \subseteq PreparedPcs /\ "apply" \in PreparedPcs
    BY DEF PreparedPcs, DumpedPcs, WorkingPcs, Pcs
  <2>5. \A o \in Ops : pc[o] \in PreparedPcs /\ o # op =>
            mem'.active = mem.active /\ mem'.backup = mem.backup
    BY <2>1, <2>4, WorksAlone DEF QuietEffect
  <2>6. PreparedInv'
    <3> SUFFICES ASSUME NEW o \in Ops
                 PROVE  /\ pc'[o] \in PreparedPcs =>
                              local'[o].before = running' /\ mem'.active.before = running'
                        /\ pc'[o] \in DumpedPcs =>
                              local'[o].backup = o /\ mem'.backup = o /\ dumps'[o] = db'
                        /\ pc'[o] = "apply" => mem'.active.phase = "applying"
      BY DEF PreparedInv, PreparedPcs, DumpedPcs
    <3> QED
      BY <2>1, <2>3, <2>4, <2>5 DEF PreparedInv, QuietEffect, host
  <2>7. DoubtInv'
    <3> SUFFICES ASSUME doubt'.op # NoOp PROVE DoubtInv'
      BY DEF DoubtInv
    <3>1. UNCHANGED <<local, doubt, durable, running, pulled, db, dumps>> /\ doubt.op \in Ops
      BY <1>1, <2>1 DEF QuietEffect, host
    <3>2. \/ mem'.active = mem.active /\ mem'.backup = mem.backup
          \/ mem.active.id = op /\ mem'.active.id = op /\ Terminal(mem'.active.phase)
      BY <2>1 DEF QuietEffect
    <3>3. mem'.active.id = doubt.op /\ Busy(mem') => Recovers(mem)' 
      BY <3>1, <3>2 DEF DoubtInv, Recovers, Busy
    <3>4. pc'[doubt.op] \in AfterApply
      BY <1>1, <2>1, <3>1 DEF QuietEffect, DoubtInv, AfterApply
    <3>5. pc'[doubt.op] \in {"complete", "done"} \/ pc'[doubt.op] = pc[doubt.op]
      BY <1>1, <2>1, <3>1 DEF QuietEffect
    <3> QED
      BY <3>1, <3>3, <3>4, <3>5 DEF DoubtInv, Recovers, WorkingPcs, Pcs
  <2> QED
    BY <2>2, <2>6, <2>7
<1>3. CASE pc[op] \in WorkingPcs
  <2>1. /\ mem.active.id = op /\ durable.active.id = op
        /\ \A o \in Ops : pc[o] \in WorkingPcs => o = op
        /\ pc[op] # "saving"
    BY <1>3, WorksAlone, StepEffect DEF Effect, Resting, OnFileInv
  <2>2. PreparedPcs \subseteq WorkingPcs /\ DumpedPcs \subseteq PreparedPcs /\ "apply" \in PreparedPcs
        /\ PreparedPcs \cap AfterApply = {}
    BY DEF PreparedPcs, DumpedPcs, WorkingPcs, Pcs, AfterApply
  <2>3. doubt.op # NoOp => doubt.op = op /\ pc[op] \in AfterApply
    BY <2>1 DEF DoubtInv
  <2>4. ASSUME NEW next, pc' = [pc EXCEPT ![op] = next], next \notin PreparedPcs PROVE PreparedInv'
    <3>1. \A o \in Ops : pc'[o] \notin PreparedPcs
      BY <1>1, <2>1, <2>2, <2>4
    <3> QED
      BY <2>2, <3>1 DEF PreparedInv
  <2>5. CASE Elsewhere(op)
    <3>1. doubt' = doubt /\ doubt.op = NoOp
      BY <2>3, <2>5 DEF Elsewhere
    <3>2. DoubtInv'
      BY <3>1 DEF DoubtInv
    <3>3. HostInv'
      BY <1>1, <2>5 DEF Elsewhere, HostInv
    <3> QED
      BY <2>4, <2>5, <3>2, <3>3 DEF Elsewhere
  <2>6. CASE PrepareStep(op)
    <3>1. /\ UNCHANGED <<running, db, doubt>>
          /\ pulled' # None \/ pulled' = pulled
          /\ dumps' = dumps \/ dumps' = [dumps EXCEPT ![op] = db]
          /\ doubt.op = NoOp
      BY <2>3, <2>6, PrepareEffect
    <3>2. DoubtInv'
      BY <3>1 DEF DoubtInv
    <3>3. HostInv'
      BY <1>1, <2>1, <3>1 DEF HostInv
    <3>4. \A o \in Ops : o # op => pc'[o] \notin PreparedPcs
      <4>1. \A o \in Ops : o # op => pc'[o] = pc[o]
        BY <1>1, StepEffect DEF Effect, Goes
      <4> QED
        BY <2>1, <2>2, <4>1
    <3>5. /\ pc'[op] \in PreparedPcs => local'[op].before = running' /\ mem'.active.before = running'
          /\ pc'[op] \in DumpedPcs => local'[op].backup = op /\ mem'.backup = op /\ dumps'[op] = db'
          /\ pc'[op] = "apply" => mem'.active.phase = "applying"
      BY <2>6, PrepareKeepsPrepared
    <3>6. PreparedInv'
      BY <2>2, <3>4, <3>5 DEF PreparedInv
    <3> QED
      BY <3>2, <3>3, <3>6
  <2>7. CASE ApplyBegin(op)
    <3>1. /\ pc[op] = "apply" /\ ~dirty[op] /\ pc' = [pc EXCEPT ![op] = "applying"]
          /\ running' = Mixed /\ mem' = mem
          /\ UNCHANGED <<local, pulled, db, dumps>>
          /\ doubt' = [op |-> op, image |-> running, db |-> db, settled |-> FALSE]
      BY <2>7 DEF ApplyBegin, At, Move
    <3>2. /\ mem.active.before = running /\ mem.backup = op /\ mem.active.phase = "applying"
          /\ local[op].before = running /\ local[op].backup = op /\ dumps[op] = db
      BY <3>1 DEF PreparedInv, PreparedPcs, DumpedPcs
    <3>3. durable.active = mem.active /\ durable.backup = mem.backup /\ ~Terminal(durable.active.phase)
      BY <1>3, <3>1 DEF OnFileInv
    <3>4. Mixed # None
      BY ConstantsAssumption DEF Mixed, None
    <3>5. HostInv'
      BY <1>1, <3>1, <3>4 DEF HostInv
    <3>6. Recovers(mem)' /\ Recovers(durable)' /\ Busy(durable')
      BY <1>1, <2>1, <3>1, <3>2, <3>3 DEF Recovers, ChangingPhases, Busy
    <3>7. pc'[op] = "applying" /\ "applying" \in AfterApply \ PreparedPcs
      BY <1>1, <3>1 DEF AfterApply, PreparedPcs
    <3>8. DoubtInv'
      BY <1>1, <2>1, <3>1, <3>2, <3>6, <3>7 DEF DoubtInv, HostInv
    <3> QED
      BY <2>4, <3>1, <3>5, <3>7, <3>8
  <2>8. CASE AppliedStep(op)
    <3>1. AppliedEffect(op)
      BY <1>3, <2>8, AppliedSteps
    <3>2. PICK next \in AfterApply : pc' = [pc EXCEPT ![op] = next] /\ Lands(op, next)
      BY <3>1 DEF AppliedEffect
    <3>3. HostInv'
      BY <1>1, <3>1 DEF AppliedEffect, HostInv
    <3>4. DoubtInv'
      <4> SUFFICES ASSUME doubt'.op # NoOp PROVE DoubtInv'
        BY DEF DoubtInv
      <4>1. /\ doubt'.op = doubt.op /\ doubt'.image = doubt.image /\ doubt'.db = doubt.db
            /\ doubt.settled => doubt'.settled
        BY <1>1, <3>1 DEF AppliedEffect, Doubt
      <4>2. doubt.op = op /\ doubt.op # NoOp /\ pc'[op] = next
        BY <1>1, <2>3, <3>2, <4>1
      <4>3. Busy(durable') /\ Recovers(durable)'
        BY <1>1, <4>1 DEF DoubtInv, Recovers, Busy
      <4>4. Busy(mem') => Recovers(mem)'
        <5>1. Recovers(mem)
          BY <1>3, <4>2, WorksAlone DEF DoubtInv
        <5>2. pc[op] = "prune" => doubt.settled
          BY <4>2 DEF DoubtInv
        <5> QED
          BY <3>1, <4>1, <5>1, <5>2 DEF AppliedEffect, Remembers, Recovers, Busy
      <4>5. /\ local'[op].before = doubt.image /\ local'[op].backup = op
            /\ dumps'[op] = doubt.db
            /\ local[op].before = doubt.image /\ local[op].backup = op /\ dumps[op] = doubt.db
        BY <1>3, <3>1, <4>2 DEF AppliedEffect, DoubtInv
      <4>6. /\ next \in {"record", "prune"} => doubt'.settled
            /\ next \in {"restoring", "recover-restoring"} => pulled' = doubt.image
        BY <3>2, <4>1, <4>2, <4>5 DEF Lands, DoubtInv
      <4>7. next \in {"reverify", "finish-recovered"} => running' = doubt.image /\ db' = doubt.db
        BY <3>2, <4>2, <4>5, <1>1 DEF Lands, DatabaseAfterRestore, DoubtInv
      <4>8. next = "finish-restored" => running' = doubt.image /\ db' = doubt.db
        BY <3>2, <4>2 DEF Lands, DoubtInv, host
      <4> QED
        BY <1>1, <2>1, <4>1, <4>2, <4>3, <4>4, <4>5, <4>6, <4>7, <4>8 DEF DoubtInv
    <3> QED
      BY <2>2, <2>4, <3>2, <3>3, <3>4
  <2> QED
    BY <1>3, <2>5, <2>6, <2>7, <2>8, WorkingSteps
<1> QED
  BY <1>2, <1>3

LEMMA SavesKeepUpgrade ==
  ASSUME TypeOK, ~SaveMayFail, WorkInv, LogInv, HostInv, PreparedInv, DoubtInv,
         RequestSave \/ \E op \in Ops : WorkerSave(op) \/ TriggerSave(op)
  PROVE  HostInv' /\ PreparedInv' /\ DoubtInv'
<1>1. /\ mem' = mem /\ durable' = mem
      /\ doubt' = IF mem.active.id # doubt.op \/ Terminal(mem.active.phase) THEN NoDoubt ELSE doubt
      /\ UNCHANGED <<local, running, pulled, db, dumps>>
      /\ \/ pc' = pc
         \/ \E op \in Ops : pc[op] = "saving" /\ pc' = [pc EXCEPT ![op] = "start"]
  BY SaveEffect DEF host
<1>2. HostInv'
  <2>1. \A o \in Ops : o <= durable.active.id => o <= mem.active.id
    BY ActiveIds, OpIsNotNoOp DEF LogInv, Ahead
  <2> QED
    BY <1>1, <2>1 DEF HostInv
<1>3. \A o \in Ops : pc'[o] = pc[o] \/ (pc[o] = "saving" /\ pc'[o] = "start")
  BY <1>1 DEF TypeOK
<1>4. PreparedInv'
  BY <1>1, <1>3 DEF PreparedInv, PreparedPcs, DumpedPcs
<1>5. DoubtInv'
  <2> SUFFICES ASSUME doubt'.op # NoOp PROVE DoubtInv'
    BY DEF DoubtInv
  <2>1. doubt' = doubt /\ mem.active.id = doubt.op /\ ~Terminal(mem.active.phase)
    BY <1>1 DEF NoDoubt
  <2>2. Busy(mem) /\ Recovers(mem) /\ pc[doubt.op] \in AfterApply /\ doubt.op \in Ops
    BY <2>1, ActiveIds DEF DoubtInv, Busy
  <2>3. pc'[doubt.op] = pc[doubt.op]
    BY <1>3, <2>2 DEF AfterApply
  <2>4. Recovers(mem)' /\ Recovers(durable)' /\ Busy(mem') /\ Busy(durable')
    BY <1>1, <2>1, <2>2 DEF Recovers, Busy
  <2> QED
    BY <1>1, <2>1, <2>3, <2>4 DEF DoubtInv
<1> QED
  BY <1>2, <1>4, <1>5

LEMMA AcceptKeepsUpgrade ==
  ASSUME TypeOK, WorkInv, ListsInv, HostInv, PreparedInv, DoubtInv,
         NEW kind \in Kinds, NEW trigger, NEW key \in Keys,
         Acceptable(kind, key), Accept(kind, trigger, key)
  PROVE  HostInv' /\ PreparedInv' /\ DoubtInv'
<1> DEFINE op == issued + 1
           accepted == [mem EXCEPT
                 !.active = [id |-> op, phase |-> "queued", before |-> None],
                 !.backup = NoOp,
                 !.idem[key] = op]
<1>1. op \in Ops /\ issued \in Nat
  BY ConstantsAssumption DEF TypeOK, Acceptable, Ops
<1>2. Proper(accepted)
  BY <1>1, KnownImages DEF TypeOK, Proper, State, Operation, Phases
<1>3. accepted.active.id = op
  BY DEF TypeOK, State
<1>4. /\ mem' = Trimmed(accepted)
      /\ UNCHANGED <<durable, local, running, pulled, db, dumps, doubt>>
      /\ pc' = [pc EXCEPT ![op] = "saving"]
  BY DEF Accept, ghosts, host
<1> HIDE DEF accepted
<1>5. mem'.active.id = op
  BY <1>2, <1>3, <1>4, TrimmedIsProper
<1>6. \A o \in Ops : pc[o] \notin WorkingPcs
  BY WorksAlone DEF Acceptable
<1>7. \A o \in Ops : pc'[o] = IF o = op THEN "saving" ELSE pc[o]
  BY <1>1, <1>4 DEF TypeOK
<1>8. PreparedInv'
  BY <1>6, <1>7 DEF PreparedInv, PreparedPcs, DumpedPcs, WorkingPcs, Pcs
<1>9. durable.active.id # op
  <2>1. durable.active.id <= issued
    BY RetainedIsListed DEF ListsInv, NumberedInv
  <2> QED
    BY <1>1, <2>1, ActiveIds
<1>10. DoubtInv'
  <2> SUFFICES ASSUME doubt.op # NoOp PROVE DoubtInv'
    BY <1>4 DEF DoubtInv
  <2>1. doubt.op \in Ops /\ doubt.op # op
    BY <1>9, ActiveIds DEF DoubtInv
  <2>2. pc'[doubt.op] = pc[doubt.op]
    BY <1>7, <2>1
  <2>3. Recovers(durable)' /\ Busy(durable')
    BY <1>4 DEF DoubtInv, Recovers, Busy
  <2> QED
    BY <1>4, <1>5, <2>1, <2>2, <2>3 DEF DoubtInv
<1> QED
  BY <1>4, <1>8, <1>10 DEF HostInv

LEMMA StartKeepsUpgrade ==
  ASSUME TypeOK, WorkInv, HostInv, PreparedInv, DoubtInv, Start
  PROVE  HostInv' /\ PreparedInv' /\ DoubtInv'
<1> DEFINE op == durable.active.id
<1>1. /\ up = "down" /\ mem' = durable
      /\ UNCHANGED <<durable, running, pulled, db, dumps, doubt>>
  BY DEF Start, host, ghosts
<1>2. \A o \in Ops : pc[o] \in {"idle", "done"}
  BY <1>1 DEF WorkInv, DownIsIdle
<1>3. CASE ~Busy(durable)
  BY <1>1, <1>2, <1>3
  DEF Start, Interrupted, HostInv, PreparedInv, DoubtInv, PreparedPcs, DumpedPcs
<1>4. CASE Busy(durable)
  <2>1. op \in Ops
    BY <1>4, ActiveIds DEF Busy
  <2>2. /\ \E next \in {"recover", "recover-stop"} : pc' = [pc EXCEPT ![op] = next]
        /\ local' = [local EXCEPT ![op] = [before |-> durable.active.before,
                                          backup |-> durable.backup, cancelled |-> FALSE]]
    BY <1>4 DEF Start, Interrupted
  <2>3. /\ \A o \in Ops : pc'[o] \in {"idle", "done", "recover", "recover-stop"}
        /\ pc'[op] \in {"recover", "recover-stop"}
    BY <1>2, <2>1, <2>2 DEF TypeOK
  <2>4. local'[op].before = durable.active.before /\ local'[op].backup = durable.backup
    BY <2>1, <2>2 DEF TypeOK
  <2>5. PreparedInv'
    BY <2>3 DEF PreparedInv, PreparedPcs, DumpedPcs
  <2>6. DoubtInv'
    <3> SUFFICES ASSUME doubt.op # NoOp PROVE DoubtInv'
      BY <1>1 DEF DoubtInv
    <3>1. doubt.op = op /\ Recovers(durable)
      BY DEF DoubtInv
    <3>2. Recovers(durable)' /\ Recovers(mem)' /\ Busy(durable')
      BY <1>1, <1>4, <3>1 DEF Recovers, Busy
    <3>3. local'[op].before = doubt.image /\ local'[op].backup = doubt.op
      BY <2>4, <3>1 DEF Recovers
    <3> QED
      BY <1>1, <2>3, <3>1, <3>2, <3>3 DEF DoubtInv, AfterApply
  <2> QED
    BY <1>1, <2>5, <2>6 DEF HostInv
<1> QED
  BY <1>3, <1>4

LEMMA GoneKeepsUpgrade ==
  ASSUME TypeOK, HostInv, DoubtInv, Gone
  PROVE  HostInv' /\ PreparedInv' /\ DoubtInv'
<1>1. /\ mem' = durable /\ UNCHANGED <<durable, running, pulled, db, dumps, doubt>>
      /\ \A o \in Ops : pc'[o] = IF pc[o] = "idle" THEN "idle" ELSE "done"
  BY DEF Gone, host, ghosts
<1>2. PreparedInv'
  BY <1>1 DEF PreparedInv, PreparedPcs, DumpedPcs
<1>3. DoubtInv'
  <2> SUFFICES ASSUME doubt.op # NoOp PROVE DoubtInv'
    BY <1>1 DEF DoubtInv
  <2>1. doubt.op \in Ops
    BY ActiveIds DEF DoubtInv
  <2>2. pc'[doubt.op] = "done"
    BY <1>1, <2>1 DEF DoubtInv, AfterApply
  <2>3. Recovers(durable)' /\ Recovers(mem)' /\ Busy(durable')
    BY <1>1 DEF DoubtInv, Recovers, Busy
  <2> QED
    BY <1>1, <2>2, <2>3 DEF DoubtInv, AfterApply, WorkingPcs
<1> QED
  BY <1>1, <1>2, <1>3 DEF HostInv

LEMMA NextKeepsUpgrade ==
  ASSUME TypeOK, ~SaveMayFail, WorkInv, ListsInv, LogInv, UpgradeInv, [Next]_vars
  PROVE  UpgradeInv'
<1>1. CASE \E op \in Ops : TriggerWithdraw(op)
  BY <1>1 DEF TriggerWithdraw, LogInv, NoWithdrawal
<1>2. CASE OtherSteps \/ UNCHANGED <<mem, durable, pc, local, host, ghosts>>
  <2>1. /\ UNCHANGED <<durable, pc, local, running, pulled, db, dumps, doubt>>
        /\ mem'.active = mem.active /\ mem'.backup = mem.backup
    BY <1>2, OtherStepsEffect DEF ghosts, host
  <2>2. PreparedInv' /\ HostInv'
    BY <2>1 DEF UpgradeInv, PreparedInv, HostInv, PreparedPcs, DumpedPcs
  <2>3. DoubtInv'
    BY <2>1 DEF UpgradeInv, DoubtInv, Recovers, Busy, AfterApply, WorkingPcs, Pcs
  <2> QED
    BY <2>2, <2>3, NextKeepsDownIsFile, NextKeepsOnFile DEF UpgradeInv
<1>3. CASE \E op \in Ops : GoroutineStep(op)
  BY <1>3, GoroutineKeepsUpgrade, NextKeepsDownIsFile, NextKeepsOnFile DEF UpgradeInv
<1>4. CASE RequestSave \/ \E op \in Ops : WorkerSave(op) \/ TriggerSave(op)
  BY <1>4, SavesKeepUpgrade, NextKeepsDownIsFile, NextKeepsOnFile DEF UpgradeInv
<1>5. CASE \E kind \in Kinds, trigger \in Triggers, key \in Keys :
              Acceptable(kind, key) /\ Accept(kind, trigger, key)
  BY <1>5, AcceptKeepsUpgrade, NextKeepsDownIsFile, NextKeepsOnFile DEF UpgradeInv
<1>6. CASE Start
  BY <1>6, StartKeepsUpgrade, NextKeepsDownIsFile, NextKeepsOnFile DEF UpgradeInv
<1>7. CASE Gone
  BY <1>7, GoneKeepsUpgrade, NextKeepsDownIsFile, NextKeepsOnFile DEF UpgradeInv
<1> QED
  BY <1>1, <1>2, <1>3, <1>4, <1>5, <1>6, <1>7, KindsOfSteps

LEMMA InitUpgrade == Init => UpgradeInv
<1> SUFFICES ASSUME Init PROVE UpgradeInv
  OBVIOUS
<1>1. \A o \in Ops : pc[o] = "idle" /\ dumps[o] = None
  BY DEF Init
<1>2. mem = durable /\ doubt.op = NoOp /\ running = 1 /\ pulled = 1 /\ db = 1
  BY DEF Init, NoDoubt
<1>3. OnFileInv /\ PreparedInv
  BY <1>1 DEF OnFileInv, PreparedInv, WorkingPcs, PreparedPcs, DumpedPcs
<1> QED
  BY <1>1, <1>2, <1>3 DEF UpgradeInv, DownIsFile, HostInv, DoubtInv, None

\* Where saves succeed, a helper that is interrupted while the services change
\* finds in its file what a rollback needs, at every moment of the change.
THEOREM Recoverable == ASSUME ~SaveMayFail PROVE Spec => []InterruptedUpgradeIsRecoverable
<1> DEFINE I == TypeOK /\ WorkInv /\ ListsInv /\ LogInv /\ UpgradeInv
<1>1. Init => I
  BY InitTypes, InitWork, InitLists, InitLog, InitUpgrade
<1>2. I /\ [Next]_vars => I'
  BY ~SaveMayFail, NextTypes, NextKeepsWork, NextKeepsLists, NextKeepsLog, NextKeepsUpgrade
<1>3. I => InterruptedUpgradeIsRecoverable
  BY DEF UpgradeInv, DoubtInv, Recovers, ChangingPhases, InterruptedUpgradeIsRecoverable
<1> QED
  BY <1>1, <1>2, <1>3, PTL DEF Spec

\* An outcome "rolled-back" comes from the end of a rollback that has restored
\* the services and the database.
LEMMA OutcomeMeansRestored ==
  ASSUME TypeOK, ~SaveMayFail, WorkInv, LogInv, UpgradeInv, [Next]_vars,
         NEW op \in Ops, doubt.op = op, mem.active.id = op,
         mem'.active.id = op, mem'.active.phase = "rolled-back", mem.active.phase # "rolled-back"
  PROVE  running = doubt.image /\ db = doubt.db
<1>1. Terminal("rolled-back") /\ op # NoOp
  BY OpIsNotNoOp DEF Terminal, TerminalPhases
<1>2. durable.active.phase # "rolled-back"
  BY <1>1 DEF UpgradeInv, DoubtInv, Busy
<1>3. ~(mem' = durable) /\ mem'.active # mem.active
  BY <1>2
<1>4. ~\E kind \in Kinds, trigger \in Triggers, key \in Keys :
          Acceptable(kind, key) /\ Accept(kind, trigger, key)
  <2> SUFFICES ASSUME NEW kind \in Kinds, NEW trigger \in Triggers, NEW key \in Keys,
                      Acceptable(kind, key), Accept(kind, trigger, key)
               PROVE  FALSE
    OBVIOUS
  <2>1. mem'.active.phase = "queued"
    <3> DEFINE accepted == [mem EXCEPT
                 !.active = [id |-> issued + 1, phase |-> "queued", before |-> None],
                 !.backup = NoOp,
                 !.idem[key] = issued + 1]
    <3>1. issued + 1 \in Ops
      BY ConstantsAssumption DEF TypeOK, Acceptable, Ops
    <3>2. Proper(accepted) /\ accepted.active.phase = "queued"
      BY <3>1, KnownImages DEF TypeOK, Proper, State, Operation, Phases
    <3>3. mem' = Trimmed(accepted)
      BY DEF Accept
    <3> HIDE DEF accepted
    <3> QED
      BY <3>2, <3>3, TrimmedIsProper
  <2> QED
    BY <2>1
<1>5. PICK p \in Ops : GoroutineStep(p)
  BY <1>3, <1>4, SaveEffect, OtherStepsEffect, KindsOfSteps
  DEF TriggerWithdraw, LogInv, NoWithdrawal, Start, Gone
<1>6. Effect(p)
  BY <1>5, StepEffect
<1>7. ~Terminal(mem.active.phase)
  <2> SUFFICES ASSUME Terminal(mem.active.phase) PROVE FALSE
    OBVIOUS
  <2>1. pc[p] \notin WorkingPcs
    BY WorksAlone
  <2> QED
    BY <1>3, <1>5, <2>1, QuietSteps DEF QuietEffect
<1>8. PICK outcome \in TerminalPhases :
          /\ CanFinish(mem, p) /\ mem' = Finished(mem, p, outcome)
          /\ outcome = "rolled-back" => pc[p] \in Restored
  BY <1>1, <1>6, <1>7 DEF Effect, Keeps, Concludes
<1>9. outcome = "rolled-back" /\ p = op
  BY <1>8, FinishedIsProper DEF TypeOK, Proper, CanFinish
<1> QED
  BY <1>1, <1>8, <1>9 DEF UpgradeInv, DoubtInv, Restored

\* Where saves succeed, an upgrade is reported as rolled back only when the
\* services and the database are those from before it, however often the
\* upgrade, the rollback or the recovery was interrupted.
THEOREM RestoredIsTrue == ASSUME ~SaveMayFail PROVE Spec => RolledBackMeansRestored
<1> DEFINE I == TypeOK /\ WorkInv /\ ListsInv /\ LogInv /\ UpgradeInv
           Step == \A op \in Ops :
                      /\ doubt.op = op
                      /\ mem.active = [mem'.active EXCEPT !.phase = mem.active.phase]
                      /\ mem.active.id = op
                      /\ mem'.active.phase = "rolled-back"
                      /\ mem.active.phase # "rolled-back"
                      => running = doubt.image /\ db = doubt.db
<1>1. Init => I
  BY InitTypes, InitWork, InitLists, InitLog, InitUpgrade
<1>2. I /\ [Next]_vars => I'
  BY ~SaveMayFail, NextTypes, NextKeepsWork, NextKeepsLists, NextKeepsLog, NextKeepsUpgrade
<1>3. I /\ I' /\ [Next]_vars => [Step]_vars
  <2> SUFFICES ASSUME I, I', [Next]_vars, NEW op \in Ops,
                      doubt.op = op,
                      mem.active = [mem'.active EXCEPT !.phase = mem.active.phase],
                      mem.active.id = op,
                      mem'.active.phase = "rolled-back",
                      mem.active.phase # "rolled-back"
               PROVE  running = doubt.image /\ db = doubt.db
    OBVIOUS
  <2>1. mem'.active.id = op
    BY DEF TypeOK, State, Operation
  <2> QED
    BY <2>1, ~SaveMayFail, OutcomeMeansRestored
<1> QED
  BY <1>1, <1>2, <1>3, PTL DEF Spec, RolledBackMeansRestored
=============================================================================
