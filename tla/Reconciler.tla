----------------------------- MODULE Reconciler -----------------------------
(***************************************************************************)
(* Reconciliation of one customer (internal/reconcile/reconciler.go): the  *)
(* customer's definition in SQLite, the checkpoint rows of managed         *)
(* resources, and the schedule, targets and tasks at the scanner.          *)
(*                                                                         *)
(* Customers do not share rows or ownership markers and a mutex admits one *)
(* pass at a time, so one customer is enough. Every call to the scanner    *)
(* and every write to SQLite is a step of its own; an administrator of the *)
(* web interface, one of the scanner, crashes and lost answers come in     *)
(* between. The map of rows that a pass works on is the table itself:      *)
(* whatever a pass changes in one it changes in the other, or it ends.     *)
(***************************************************************************)
EXTENDS Naturals, Sequences, FiniteSets

CONSTANTS
    Definitions,  \* customer definitions an administrator may save
    MaxObjects,   \* bound: objects ever created at the scanner
    MaxEdits,     \* bound: edits and the deletion of the customer
    MaxFaults,    \* bound: crashes, failed calls, lost answers and meddling
    MaxMeddling   \* bound: changes made at the scanner by somebody else

\* A definition: a version of every part that ends up in an object, and the
\* sequence numbers of its targets, at most maxTargetsPerPlan. Targets are all of
\* one class: each class is numbered on its own and named in the markers before
\* the number.
Definition(d) ==
    /\ {d.schedule, d.networks, d.policy} \subseteq Nat
    /\ d.seqs \subseteq 1 .. 1024
    /\ d.seqs # {}
    /\ IsFiniteSet(d.seqs)

ASSUME ConstantsAssumption ==
    /\ Definitions # {}
    /\ \A d \in Definitions : Definition(d)
    /\ MaxObjects \in Nat
    /\ MaxEdits \in Nat
    /\ MaxFaults \in Nat
    /\ MaxMeddling \in Nat

-----------------------------------------------------------------------------
(* Names of resources and ownership markers *)

Seqs == UNION {d.seqs : d \in Definitions}
ScheduleKey == <<"schedule", 0>>
TargetKey(s) == <<"target", s>>
TaskKey(s) == <<"task", s>>
Keys == {ScheduleKey} \union {TargetKey(s) : s \in Seqs} \union {TaskKey(s) : s \in Seqs}

\* The marker of a key ends with its sequence number in decimal and is looked
\* for anywhere in a comment, so it is found in every comment whose number only
\* begins with it.
BeginsWith(n, prefix) == prefix \in {n, n \div 10, n \div 100, n \div 1000}

\* Mutant: the marker carries no sequence number.
ShowsKind(comment, k) == comment[1] = k[1]

Shows(comment, k) == comment[1] = k[1] /\ BeginsWith(comment[2], k[2])
Unmarked == <<"other", 0>>

Ids == 1 .. MaxObjects
NoId == 0

\* What an object is made of, which is also what desiredHash stands for. A task
\* names the target and the schedule that it uses.
Content == [version : Nat, target : Ids \union {NoId}, schedule : Ids \union {NoId}]
NoContent == [version |-> 0, target |-> NoId, schedule |-> NoId]
Version(v) == [NoContent EXCEPT !.version = v]

Row ==
    {r \in [state : {"creating", "applied", "error"}, id : Ids \union {NoId}, content : Content] :
        r.state = "applied" => r.id # NoId}
NoRow == [state |-> "none", id |-> NoId, content |-> NoContent]
Object == [comment : Keys \union {Unmarked}, content : Content]
Gone == [comment |-> Unmarked, content |-> NoContent]

Pcs == {"idle", "networks", "begin", "work", "find", "recover", "own", "modify", "create",
        "checkpoint", "trash", "delete", "drop", "finish"}
Statuses == {"pending", "syncing", "applied", "error", "deleted"}

VARIABLES
    desired,    \* the customer's definition as saved, and whether it is deleted
    status,     \* customers.reconciliation_status
    rows,       \* managed_resources
    objects,    \* live objects at the scanner, by id
    pc,         \* what the pass does next
    want,       \* the definition the last pass loaded
    todo,       \* keys the pass has yet to apply, in order
    victim,     \* key being removed
    found,      \* id that the pass works with
    created, edits, faults, meddling,
    \* History variables; no guard depends on them.
    orphans,    \* objects that the next pass will not look for
    known,      \* ids that some row has held
    foreign,    \* objects that lost their marker while no pass was running
    unrecorded, \* objects that were modified behind an applied row, whose
                \* checkpoint was lost
    shown       \* the definition that was loaded when the status was last set
                \* to "applied" or "deleted"

pass == <<pc, want, todo, victim, found>>
counters == <<created, edits, faults, meddling>>
ghosts == <<orphans, known, foreign, unrecorded, shown>>
vars == <<desired, status, rows, objects, pc, want, todo, victim, found,
          created, edits, faults, meddling, orphans, known, foreign, unrecorded, shown>>

NotDeleted(d) == [def |-> d, deleted |-> FALSE]
Desired == [def : Definitions, deleted : BOOLEAN]

\* The definition a pass works on; the networks come from a second query.
Loaded == [schedule : Nat, policy : Nat, networks : Nat, seqs : SUBSET Seqs, deleted : BOOLEAN]
Load(d) == [schedule |-> d.def.schedule, policy |-> d.def.policy, networks |-> d.def.networks,
            seqs |-> d.def.seqs, deleted |-> d.deleted]

TypeOK ==
    /\ desired \in Desired
    /\ status \in Statuses
    /\ rows \in [Keys -> Row \union {NoRow}]
    /\ objects \in [Ids -> Object \union {Gone}]
    /\ pc \in Pcs
    /\ want \in Loaded
    /\ todo \in Seq(Keys)
    /\ victim \in Keys
    /\ found \in Ids \union {NoId}
    /\ created \in 0 .. MaxObjects
    /\ edits \in 0 .. MaxEdits
    /\ faults \in 0 .. MaxFaults
    /\ meddling \in 0 .. MaxMeddling
    /\ orphans \subseteq Ids
    /\ known \subseteq Ids
    /\ foreign \subseteq Ids
    /\ unrecorded \subseteq Ids
    /\ shown \in Loaded

Init ==
    /\ desired \in {NotDeleted(d) : d \in Definitions}
    /\ status = "pending"
    /\ rows = [k \in Keys |-> NoRow]
    /\ objects = [i \in Ids |-> Gone]
    /\ pc = "idle"
    /\ want = Load(desired)
    /\ todo = <<>>
    /\ victim = ScheduleKey
    /\ found = NoId
    /\ created = 0 /\ edits = 0 /\ faults = 0 /\ meddling = 0
    /\ orphans = {} /\ known = {} /\ foreign = {} /\ unrecorded = {} /\ shown = want

-----------------------------------------------------------------------------
(* The scanner *)

Live(i) == i # NoId /\ objects[i] # Gone

\* FindResource looks through all live objects of the kind.
Matches(k) == {i \in Ids : Live(i) /\ Shows(objects[i].comment, k)}

\* Objects that a live task uses can be neither deleted nor replaced in place.
InUse(i) ==
    \E t \in Ids : Live(t) /\ i \in {objects[t].content.target, objects[t].content.schedule}

\* A task names a live target and a live schedule.
RefusesCreate(c) == \E i \in {c.target, c.schedule} \ {NoId} : ~Live(i)
RefusesModify(k, i) == ~Live(i) \/ (k[1] = "target" /\ InUse(i))
RefusesDelete(i) == ~Live(i) \/ InUse(i)

-----------------------------------------------------------------------------
(* A pass *)

Fault == faults < MaxFaults /\ faults' = faults + 1

\* An error ends the pass and is shown; the next pass starts over.
Fail ==
    /\ pc' = "idle"
    /\ status' = "error"
    /\ UNCHANGED <<want, todo, victim, found>>

GoTo(place) == pc' = place /\ UNCHANGED <<want, todo, victim, status>>

Outside == <<desired, edits, meddling, foreign, unrecorded, shown>>

\* The customers are loaded, each with its networks in a second query.
Begin ==
    /\ pc = "idle"
    /\ pc' = "networks"
    /\ want' = [Load(desired) EXCEPT !.networks = 0, !.seqs = {}]
    /\ todo' = <<>> /\ victim' = ScheduleKey /\ found' = NoId
    /\ UNCHANGED <<status, rows, objects, created, faults, orphans, known, Outside>>

LoadNetworks ==
    /\ pc = "networks"
    /\ want' = [want EXCEPT !.networks = desired.def.networks, !.seqs = desired.def.seqs]
    /\ pc' = "begin"
    /\ UNCHANGED <<status, todo, victim, found, rows, objects, created, faults, orphans, known,
                   Outside>>

LastSeq == CHOOSE s \in Seqs : \A t \in Seqs : t <= s

\* The schedule, then target and task of every planned target in their order.
Plan(S) ==
    LET upTo[s \in 0 .. LastSeq] ==
            IF s = 0 THEN <<ScheduleKey>>
            ELSE IF s \in S THEN upTo[s - 1] \o <<TargetKey(s), TaskKey(s)>>
            ELSE upTo[s - 1]
    IN  upTo[LastSeq]

MarkSyncing ==
    /\ pc = "begin"
    /\ status' = "syncing"
    /\ pc' = "work"
    /\ todo' = IF want.deleted THEN <<>> ELSE Plan(want.seqs)
    /\ UNCHANGED <<want, victim, found, rows, objects, created, faults, orphans, known, Outside>>

ContentOf(w, k) ==
    CASE k[1] = "schedule" -> Version(w.schedule)
      [] k[1] = "target"   -> Version(w.networks)
      [] k[1] = "task"     -> [version |-> w.policy, target |-> rows[TargetKey(k[2])].id,
                               schedule |-> rows[ScheduleKey].id]

Wanted(k) == ContentOf(want, k)

\* Mutant: the hash is not compared.
UnchangedIfApplied(k) == rows[k].id # NoId /\ rows[k].state = "applied"

Unchanged(k) ==
    /\ rows[k].id # NoId
    /\ rows[k].state = "applied"
    /\ rows[k].content = Wanted(k)

\* Mutant: any object that exists is taken for ours.
TakesAny(k, i) == TRUE

Owned(k, i) == Shows(objects[i].comment, k)

-----------------------------------------------------------------------------
(* applyDesired, one resource after the other *)

\* Mutant: changed targets do not release their task first.
ReleasesChangedTask(k) == k[1] = "task" /\ rows[k] # NoRow /\ rows[k].content # Wanted(k)

\* releaseTaskForTargetChange and replaceChangedTask: the task that has to go
\* before k can be applied, if any.
ReleasesTask(k) ==
    /\ k[1] # "schedule"
    /\ rows[TaskKey(k[2])] # NoRow
    /\ \/ k[1] = "target" /\ rows[k].id # NoId /\ ~Unchanged(k)
       \/ k[1] = "task" /\ rows[k].content # Wanted(k)

Release(k) ==
    /\ ReleasesTask(k)
    /\ victim' = TaskKey(k[2])
    /\ found' = rows[victim'].id
    /\ pc' = IF found' = NoId THEN "find" ELSE "trash"
    /\ UNCHANGED <<want, todo, status, rows, objects, created, faults, orphans, known, Outside>>

\* Unchanged resources cause no write; only a task is looked at, to keep its
\* report retention.
Skip(k) ==
    /\ Unchanged(k)
    /\ IF k[1] = "task" /\ ~(Live(rows[k].id) /\ Owned(k, rows[k].id))
       THEN Fail
       ELSE todo' = Tail(todo) /\ UNCHANGED <<pc, want, victim, found, status>>
    /\ UNCHANGED <<rows, objects, created, faults, orphans, known, Outside>>

\* EnsureTaskReportRetention of an unchanged task fails: its row is in error.
RetentionFails(k) ==
    /\ Unchanged(k)
    /\ k[1] = "task" /\ Live(rows[k].id) /\ Owned(k, rows[k].id)
    /\ Fault
    /\ rows' = [rows EXCEPT ![k].state = "error"]
    /\ Fail
    /\ UNCHANGED <<objects, created, orphans, known, Outside>>

\* A row is written before anything is created for it.
Insert(k) ==
    /\ rows[k] = NoRow
    /\ rows' = [rows EXCEPT ![k] = [state |-> "creating", id |-> NoId, content |-> Wanted(k)]]
    /\ found' = NoId
    /\ GoTo("create")
    /\ UNCHANGED <<objects, created, faults, orphans, known, Outside>>

\* A row without an id is left from a pass that did not get an answer.
Resume(k) ==
    /\ rows[k] # NoRow
    /\ ~Unchanged(k)
    /\ found' = rows[k].id
    /\ GoTo(IF rows[k].id = NoId THEN "recover" ELSE "own")
    /\ UNCHANGED <<rows, objects, created, faults, orphans, known, Outside>>

Apply ==
    /\ pc = "work"
    /\ todo # <<>>
    /\ LET k == Head(todo) IN
       \/ Release(k)
       \/ ~ReleasesTask(k) /\ (Skip(k) \/ RetentionFails(k) \/ Insert(k) \/ Resume(k))

\* Mutant: the row of an interrupted create is not looked up at the scanner.
CreatesAgain(k) == found' = NoId /\ GoTo("create")

\* FindResource answers with the only match, with nothing, or with an error.
Recover(k) ==
    IF Cardinality(Matches(k)) > 1 THEN Fail
    ELSE IF Matches(k) = {} THEN found' = NoId /\ GoTo("create")
    ELSE found' \in Matches(k) /\ GoTo("own")

RecoverByMarker ==
    /\ pc = "recover"
    /\ Recover(Head(todo))
    /\ UNCHANGED <<rows, objects, created, faults, orphans, known, Outside>>

CheckOwner ==
    /\ pc = "own"
    /\ IF ~Live(found) THEN found' = NoId /\ GoTo("create")
       ELSE IF Owned(Head(todo), found) THEN GoTo("modify") /\ UNCHANGED found
       ELSE Fail
    /\ UNCHANGED <<rows, objects, created, faults, orphans, known, Outside>>

\* Mutant: an error loses the id.
RowForgetsId(k) == [rows EXCEPT ![k].state = "error", ![k].id = NoId]

\* recordResourceError: the row keeps its content and remembers the id.
RowInError(k) == [rows EXCEPT ![k].state = "error", ![k].id = found]

Learn == known' = (known \union {rows'[k].id : k \in Keys}) \ {NoId}

Modified == [objects EXCEPT ![found] = [comment |-> Head(todo), content |-> Wanted(Head(todo))]]

Modify ==
    /\ pc = "modify"
    /\ \/ /\ ~RefusesModify(Head(todo), found)
          /\ objects' = Modified
          /\ GoTo("checkpoint")
          /\ UNCHANGED <<rows, found, faults, known>>
       \/ /\ RefusesModify(Head(todo), found)
          /\ rows' = RowInError(Head(todo))
          /\ Learn
          /\ Fail
          /\ UNCHANGED <<objects, faults>>
       \/ /\ Fault
          /\ objects' \in IF RefusesModify(Head(todo), found) THEN {objects} ELSE {objects, Modified}
          /\ rows' = RowInError(Head(todo))
          /\ Learn
          /\ Fail
    /\ UNCHANGED <<created, orphans, Outside>>

Created == [objects EXCEPT ![created + 1] =
               [comment |-> Head(todo), content |-> Wanted(Head(todo))]]

RowWithoutAnswer(k) ==
    [rows EXCEPT ![k] = [state |-> "error", id |-> NoId, content |-> Wanted(k)]]

\* The scanner creates the object; its answer may be lost.
Create ==
    /\ pc = "create"
    /\ created < MaxObjects
    /\ \/ /\ ~RefusesCreate(Wanted(Head(todo)))
          /\ objects' = Created
          /\ created' = created + 1
          /\ found' = created + 1
          /\ GoTo("checkpoint")
          /\ UNCHANGED <<rows, faults>>
       \/ /\ ~RefusesCreate(Wanted(Head(todo)))
          /\ Fault
          /\ objects' = Created
          /\ created' = created + 1
          /\ rows' = RowWithoutAnswer(Head(todo))
          /\ Fail
       \/ /\ (RefusesCreate(Wanted(Head(todo))) /\ UNCHANGED faults) \/ Fault
          /\ rows' = RowWithoutAnswer(Head(todo))
          /\ Fail
          /\ UNCHANGED <<objects, created>>
    /\ UNCHANGED <<orphans, known, Outside>>

\* Mutant: the checkpoint is written without the id.
CheckpointWithoutId(k) == [state |-> "applied", id |-> NoId, content |-> Wanted(k)]

Checkpointed(k) == [state |-> "applied", id |-> found, content |-> Wanted(k)]

Checkpoint ==
    /\ pc = "checkpoint"
    /\ rows' = [rows EXCEPT ![Head(todo)] = Checkpointed(Head(todo))]
    /\ Learn
    /\ unrecorded' = unrecorded \ {found}
    /\ pc' = "work"
    /\ todo' = Tail(todo)
    /\ UNCHANGED <<want, victim, found, status, objects, created, faults, orphans,
                   desired, edits, meddling, foreign, shown>>

-----------------------------------------------------------------------------
(* Removal: cleanupSurplus, cleanupCustomer and released tasks *)

KeysOf(w) ==
    IF w.deleted THEN {}
    ELSE {ScheduleKey} \union {TargetKey(s) : s \in w.seqs} \union {TaskKey(s) : s \in w.seqs}

Surplus == {k \in Keys \ KeysOf(want) : rows[k] # NoRow}

Priority(kind) == CASE kind = "task" -> 1 [] kind = "target" -> 2 [] kind = "schedule" -> 3

\* sortForDeletion.
Before(k, l) ==
    \/ Priority(k[1]) < Priority(l[1])
    \/ k[1] = l[1] /\ k[2] >= l[2]

Cleanup ==
    /\ pc = "work"
    /\ todo = <<>>
    /\ IF Surplus = {} THEN GoTo("finish") /\ UNCHANGED found
       ELSE /\ victim' = CHOOSE k \in Surplus : \A l \in Surplus : Before(k, l)
            /\ found' = rows[victim'].id
            /\ pc' = "trash"
            /\ UNCHANGED <<want, todo, status>>
    /\ UNCHANGED <<rows, objects, created, faults, orphans, known, Outside>>

\* removeManagedTask looks for a task that its row does not know; cleanup does
\* not.
FindVictim ==
    /\ pc = "find"
    /\ IF Cardinality(Matches(victim)) > 1 THEN Fail
       ELSE /\ found' \in IF Matches(victim) = {} THEN {NoId} ELSE Matches(victim)
            /\ GoTo("trash")
    /\ UNCHANGED <<rows, objects, created, faults, orphans, known, Outside>>

\* deleteResource up to the call.
CheckVictim ==
    /\ pc = "trash"
    /\ IF ~Live(found) THEN GoTo("drop") /\ UNCHANGED found
       ELSE IF Owned(victim, found) THEN GoTo("delete") /\ UNCHANGED found
       ELSE Fail
    /\ UNCHANGED <<rows, objects, created, faults, orphans, known, Outside>>

Delete ==
    /\ pc = "delete"
    /\ \/ /\ ~RefusesDelete(found)
          /\ objects' = [objects EXCEPT ![found] = Gone]
          /\ GoTo("drop")
          /\ UNCHANGED <<rows, found, faults, known>>
       \/ /\ RefusesDelete(found)
          /\ rows' = RowInError(victim)
          /\ Learn
          /\ Fail
          /\ UNCHANGED <<objects, faults>>
       \/ /\ Fault
          /\ objects' \in IF RefusesDelete(found) THEN {objects}
                          ELSE {objects, [objects EXCEPT ![found] = Gone]}
          /\ rows' = RowInError(victim)
          /\ Learn
          /\ Fail
    /\ UNCHANGED <<created, orphans, Outside>>

DropRow ==
    /\ pc = "drop"
    /\ rows' = [rows EXCEPT ![victim] = NoRow]
    /\ orphans' = orphans \union
          {i \in Ids : Live(i) /\ objects[i].comment = victim /\ rows[victim].id = NoId}
    /\ GoTo("work")
    /\ UNCHANGED <<found, objects, created, faults, known, Outside>>

Finish ==
    /\ pc = "finish"
    /\ pc' = "idle"
    /\ status' = IF want.deleted THEN "deleted" ELSE "applied"
    /\ shown' = want
    /\ UNCHANGED <<want, todo, victim, found, rows, objects, created, faults, orphans, known,
                   desired, edits, meddling, foreign, unrecorded>>

-----------------------------------------------------------------------------
(* Failures and everybody else *)

\* History: a lost checkpoint loses an object that was created for a row whose
\* former object is gone. The row keeps the former id, and a marker is only looked
\* for when a row has no id. A lost checkpoint also leaves an applied row as it was
\* before its object was modified.
LosesCheckpoint ==
    /\ orphans' = orphans \union
          IF pc = "checkpoint" /\ rows[Head(todo)].id \notin {NoId, found} THEN {found} ELSE {}
    /\ unrecorded' = unrecorded \union
          IF pc = "checkpoint" /\ rows[Head(todo)].id = found /\ rows[Head(todo)].state = "applied"
          THEN {found} ELSE {}

\* A read or a write of SQLite or a read at the scanner fails.
CallFails ==
    /\ pc \in {"work", "find", "recover", "own", "checkpoint", "trash", "drop"}
    /\ Fault
    /\ Fail
    /\ LosesCheckpoint
    /\ UNCHANGED <<rows, objects, created, known, desired, edits, meddling, foreign, shown>>

\* The process ends, by a crash or by a shutdown that cancels every call of the
\* pass, and starts again; nothing but the database survives.
Crash ==
    /\ pc # "idle"
    /\ Fault
    /\ pc' = "idle"
    /\ LosesCheckpoint
    /\ UNCHANGED <<want, todo, victim, found, status, rows, objects, created, known,
                   desired, edits, meddling, foreign, shown>>

\* UpdateCustomer; an edit may as well bring back an earlier definition.
Edit ==
    /\ edits < MaxEdits
    /\ ~desired.deleted
    /\ desired' \in {NotDeleted(d) : d \in Definitions \ {desired.def}}
    /\ status' = "pending"
    /\ edits' = edits + 1
    /\ UNCHANGED <<pass, rows, objects, created, faults, meddling, ghosts>>

SoftDelete ==
    /\ edits < MaxEdits
    /\ ~desired.deleted
    /\ desired' = [desired EXCEPT !.deleted = TRUE]
    /\ status' = "pending"
    /\ edits' = edits + 1
    /\ UNCHANGED <<pass, rows, objects, created, faults, meddling, ghosts>>

\* Somebody deletes an object at the scanner, or rewrites its comment.
Meddle ==
    /\ meddling < MaxMeddling
    /\ meddling' = meddling + 1
    /\ Fault
    /\ \E i \in Ids :
        /\ Live(i)
        /\ \/ /\ ~InUse(i)
              /\ objects' = [objects EXCEPT ![i] = Gone]
              /\ UNCHANGED foreign
           \/ /\ objects[i].comment # Unmarked
              /\ objects' = [objects EXCEPT ![i].comment = Unmarked]
              /\ foreign' = IF pc = "idle" THEN foreign \union {i} ELSE foreign
    /\ UNCHANGED <<desired, status, pass, rows, created, edits, orphans, known, unrecorded, shown>>

-----------------------------------------------------------------------------
Step ==
    \/ Begin
    \/ LoadNetworks
    \/ MarkSyncing
    \/ Apply
    \/ RecoverByMarker
    \/ CheckOwner
    \/ Modify
    \/ Create
    \/ Checkpoint
    \/ Cleanup
    \/ FindVictim
    \/ CheckVictim
    \/ Delete
    \/ DropRow
    \/ Finish

Next == Step \/ CallFails \/ Crash \/ Edit \/ SoftDelete \/ Meddle

\* Run starts a pass at least once per interval and every call returns.
Fairness == WF_vars(Step)

Spec == Init /\ [][Next]_vars
FairSpec == Spec /\ Fairness
=============================================================================
