------------------------------- MODULE Tickets -------------------------------
(***************************************************************************)
(* Tickets of one customer's findings (internal/store/hookwise.go and      *)
(* internal/hookwise/manager.go): the rows of finding_states, the durable  *)
(* outbox, the dispatcher that fills and drains it, and Hookwise itself.   *)
(*                                                                         *)
(* One goroutine dispatches. Between its steps findings are imported and   *)
(* triaged, the integration and the customer are edited, events are rearmed*)
(* by hand, deliveries fail, answers are lost and the process restarts.    *)
(***************************************************************************)
EXTENDS Naturals, SequencesExt

CONSTANTS
    Findings,     \* fingerprints of one scan task of one customer
    BatchLimit,   \* events delivered by one pass (20 in the code)
    MaxChanges,   \* bound: imports, triage, edits and requests of operators
    MaxFailures   \* bound: refused deliveries, lost answers, failed writes, restarts

ASSUME ConstantsAssumption ==
    /\ IsFiniteSet(Findings)
    /\ BatchLimit \in Nat \ {0}
    /\ MaxChanges \in Nat
    /\ MaxFailures \in Nat

VARIABLES
    row,       \* finding_states, by finding
    outbox,    \* hookwise_outbox in the order of its ids
    customer,  \* whether it has a ConnectWise name (routed) and was deleted
    enabled,   \* whether the integration is enabled
    pc,        \* where the dispatcher is
    batch,     \* ids loaded by the pass and not yet dealt with
    hookwise,  \* last event accepted for every ticket: "none", "open" or "closed"
    changes,   \* changes so far
    failures   \* failures so far

vars == <<row, outbox, customer, enabled, pc, batch, hookwise, changes, failures>>

Generations == 1 .. MaxChanges
Dispositions == {"active", "accepted_risk"}  \* "false_positive" is treated like the latter
Remediations == {"open", "resolved"}         \* so are "in_progress" and "wont_fix"
TicketStates == {"none", "blocked", "queued_open", "open", "queued_close", "closed", "failed"}
EventTypes == {"open", "closed"}

-----------------------------------------------------------------------------
(* Rows and events *)

Row ==
    [present     : BOOLEAN,
     severe      : BOOLEAN,  \* severity >= 7.0
     disposition : Dispositions,
     remediation : Remediations,
     desired     : BOOLEAN,  \* ticket_desired_open
     generation  : {0} \union Generations,
     ticket      : TicketStates]

NewRow ==
    [present |-> FALSE, severe |-> FALSE, disposition |-> "active", remediation |-> "open",
     desired |-> FALSE, generation |-> 0, ticket |-> "none"]

Event ==
    [finding    : Findings,
     generation : Generations,
     type       : EventTypes,
     state      : {"pending", "delivered"},
     tried      : BOOLEAN,   \* attempts > 0
     due        : BOOLEAN]   \* next_attempt_at has come

NewEvent(f, g, type) ==
    [finding |-> f, generation |-> g, type |-> type,
     state |-> "pending", tried |-> FALSE, due |-> TRUE]

SameKey(e, d) == <<e.finding, e.generation, e.type>> = <<d.finding, d.generation, d.type>>

\* An event whose key is in the outbox already is not inserted again.
Missing(events) == {e \in events : ~ \E i \in DOMAIN outbox : SameKey(outbox[i], e)}

Enqueue(events) == \E fresh \in SetToSeqs(Missing(events)) : outbox' = outbox \o fresh

NextGeneration(r) == r.generation + 1

\* Mutant: the row is not told that a close was queued.
QueuedOpensOnly(r, g, type) ==
    [r EXCEPT !.desired = (type = "open") \/ @, !.generation = g,
              !.ticket = IF type = "open" THEN "queued_open" ELSE "queued_close"]

Queued(r, g, type) ==
    [r EXCEPT !.desired = (type = "open"), !.generation = g,
              !.ticket = IF type = "open" THEN "queued_open" ELSE "queued_close"]

Eligible(r) ==
    /\ r.present
    /\ r.severe
    /\ r.disposition = "active"
    /\ r.remediation # "resolved"

-----------------------------------------------------------------------------
(* Changes made by imports and by operators *)

Changed == changes < MaxChanges /\ changes' = changes + 1
Failed == failures < MaxFailures /\ failures' = failures + 1

\* The findings have rows from an older report that arrived late: none is present.
Init ==
    /\ row = [f \in Findings |-> NewRow]
    /\ outbox = << >>
    /\ customer = [routed |-> TRUE, deleted |-> FALSE]
    /\ enabled = TRUE
    /\ pc = "idle"
    /\ batch = << >>
    /\ hookwise = [f \in Findings |-> [g \in Generations |-> "none"]]
    /\ changes = 0
    /\ failures = 0

\* The newest report of the task contains the findings of S, those of H severe.
\* (An older report that arrives late changes no row that exists.)
Import(S, H) ==
    /\ Changed
    /\ row' = [f \in Findings |->
                  IF f \in S THEN [row[f] EXCEPT !.present = TRUE, !.severe = f \in H]
                  ELSE [row[f] EXCEPT !.present = FALSE]]
    /\ UNCHANGED <<outbox, customer, enabled, pc, batch, hookwise, failures>>

\* An operator classifies a finding, marks it resolved or reopens it.
Annotate(f, disposition, remediation) ==
    /\ Changed
    /\ row' = [row EXCEPT ![f].disposition = disposition, ![f].remediation = remediation]
    /\ UNCHANGED <<outbox, customer, enabled, pc, batch, hookwise, failures>>

\* The ConnectWise name of the customer is set or cleared.
EditRoute ==
    /\ Changed
    /\ ~customer.deleted
    /\ customer' = [customer EXCEPT !.routed = ~@]
    /\ UNCHANGED <<row, outbox, enabled, pc, batch, hookwise, failures>>

\* Deletion of the customer is requested; its findings and events stay.
DeleteCustomer ==
    /\ Changed
    /\ ~customer.deleted
    /\ customer' = [customer EXCEPT !.deleted = TRUE]
    /\ UNCHANGED <<row, outbox, enabled, pc, batch, hookwise, failures>>

\* The settings of the integration are saved.
SaveSettings ==
    /\ Changed
    /\ enabled' = ~enabled
    /\ UNCHANGED <<row, outbox, customer, pc, batch, hookwise, failures>>

Rearmed(ids) == [i \in DOMAIN outbox |-> [outbox[i] EXCEPT !.due = @ \/ i \in ids]]

\* Every pending event is made due again.
Retry ==
    /\ Changed
    /\ outbox' = Rearmed({i \in DOMAIN outbox : outbox[i].state = "pending"})
    /\ UNCHANGED <<row, customer, enabled, pc, batch, hookwise, failures>>

\* The failed event of one finding is made due again, if it still is what the
\* finding wants.
RetryFinding(f) ==
    LET retryable ==
            {i \in DOMAIN outbox :
                /\ outbox[i].state = "pending"
                /\ outbox[i].tried
                /\ outbox[i].finding = f
                /\ row[f].ticket = "failed"
                /\ outbox[i].generation = row[f].generation
                /\ outbox[i].type = IF row[f].desired THEN "open" ELSE "closed"}
    IN /\ Changed
       /\ retryable # {}
       /\ outbox' = Rearmed(retryable)
       /\ UNCHANGED <<row, customer, enabled, pc, batch, hookwise, failures>>

\* A ticket that Hookwise accepted, and lost later, is opened again.
RecreateFinding(f) ==
    LET g == NextGeneration(row[f])
    IN /\ Changed
       /\ ~customer.deleted
       /\ customer.routed
       /\ Eligible(row[f])
       /\ row[f].desired
       /\ row[f].ticket = "open"
       /\ Enqueue({NewEvent(f, g, "open")})
       /\ row' = [row EXCEPT ![f] = Queued(@, g, "open")]
       /\ UNCHANGED <<customer, enabled, pc, batch, hookwise, failures>>

-----------------------------------------------------------------------------
(* The dispatcher *)

\* Every 30 seconds, or when triggered: nothing happens while it is disabled.
BeginPass ==
    /\ pc = "idle"
    /\ enabled
    /\ pc' = "reconcile"
    /\ UNCHANGED <<row, outbox, customer, enabled, batch, hookwise, changes, failures>>

\* Mutant: a ticket that is wanted already is opened once more.
OpensAgain == {f \in Findings : Eligible(row[f]) /\ customer.routed}

Opens == {f \in Findings : Eligible(row[f]) /\ customer.routed /\ ~row[f].desired}

\* Mutant: a ticket is only closed while the customer has a ConnectWise name.
ClosesRouted == {f \in Findings : ~Eligible(row[f]) /\ customer.routed /\ row[f].desired}

Closes == {f \in Findings : ~Eligible(row[f]) /\ row[f].desired}

\* What reconciliation makes of the row of f.
Reconciled(f) ==
    LET r == row[f]
    IN CASE f \in Opens -> Queued(r, NextGeneration(r), "open")
         [] f \in Closes -> Queued(r, r.generation, "closed")
         [] Eligible(r) /\ ~customer.routed /\ ~r.desired -> [r EXCEPT !.ticket = "blocked"]
         [] ~Eligible(r) /\ ~r.desired /\ r.ticket = "blocked" -> [r EXCEPT !.ticket = "none"]
         [] OTHER -> r

\* One transaction over the findings of customers that are not deleted. The
\* settings are read again, and the pass goes on if they are disabled by now.
Reconcile ==
    /\ pc = "reconcile"
    /\ pc' = "load"
    /\ IF enabled /\ ~customer.deleted
       THEN /\ Enqueue({NewEvent(f, NextGeneration(row[f]), "open") : f \in Opens}
                       \union {NewEvent(f, row[f].generation, "closed") : f \in Closes})
            /\ row' = [f \in Findings |-> Reconciled(f)]
       ELSE UNCHANGED <<row, outbox>>
    /\ UNCHANGED <<customer, enabled, batch, hookwise, changes, failures>>

\* Mutant: an event that failed once is not loaded again.
FirstTry(e) == e.state = "pending" /\ e.due /\ ~e.tried

\* Mutant: delivered events are loaded as well.
AnyState(e) == e.due

Due(e) == e.state = "pending" /\ e.due

\* The oldest events that are due are loaded, in the order of their ids.
LoadBatch ==
    LET due == {i \in DOMAIN outbox : Due(outbox[i])}
        oldest == {i \in due : Cardinality({j \in due : j < i}) < BatchLimit}
    IN /\ pc = "load"
       /\ batch' \in {b \in SetToSeqs(oldest) : \A m, n \in DOMAIN b : m < n => b[m] < b[n]}
       /\ pc' = IF oldest = {} THEN "idle" ELSE "send"
       /\ UNCHANGED <<row, outbox, customer, enabled, hookwise, changes, failures>>

Current == outbox[Head(batch)]

Accept ==
    hookwise' = [hookwise EXCEPT ![Current.finding][Current.generation] = Current.type]

\* Hookwise accepts the event and answers.
SendAccepted ==
    /\ pc = "send"
    /\ Accept
    /\ pc' = "accepted"
    /\ UNCHANGED <<row, outbox, customer, enabled, batch, changes, failures>>

\* Mutant: an answer other than 2xx counts as a delivery.
RefusedIsAccepted ==
    /\ pc = "send"
    /\ Failed
    /\ pc' = "accepted"
    /\ UNCHANGED <<row, outbox, customer, enabled, batch, hookwise, changes>>

\* Hookwise refuses the event or cannot be reached.
SendRefused ==
    /\ pc = "send"
    /\ Failed
    /\ pc' = "refused"
    /\ UNCHANGED <<row, outbox, customer, enabled, batch, hookwise, changes>>

\* Hookwise accepts the event, but its answer is lost or late.
AnswerLost ==
    /\ pc = "send"
    /\ Failed
    /\ Accept
    /\ pc' = "refused"
    /\ UNCHANGED <<row, outbox, customer, enabled, batch, changes>>

NextInBatch ==
    /\ batch' = Tail(batch)
    /\ pc' = IF Tail(batch) = << >> THEN "idle" ELSE "send"

\* The row shows what became of its event, unless it has another generation now.
Show(ticket) ==
    row' = [row EXCEPT ![Current.finding].ticket =
                IF row[Current.finding].generation = Current.generation THEN ticket ELSE @]

MarkDelivered ==
    /\ pc = "accepted"
    /\ outbox' = [outbox EXCEPT ![Head(batch)].state = "delivered", ![Head(batch)].tried = TRUE]
    /\ Show(IF Current.type = "open" THEN "open" ELSE "closed")
    /\ NextInBatch
    /\ UNCHANGED <<customer, enabled, hookwise, changes, failures>>

\* The event waits for its backoff; the events after it are delivered all the same.
MarkFailed ==
    /\ pc = "refused"
    /\ outbox' = [outbox EXCEPT ![Head(batch)].tried = TRUE, ![Head(batch)].due = FALSE]
    /\ Show("failed")
    /\ NextInBatch
    /\ UNCHANGED <<customer, enabled, hookwise, changes, failures>>

\* A read or write of the database fails, or the process restarts: the pass is
\* over and what it had in memory is gone.
PassEnds ==
    /\ pc # "idle"
    /\ Failed
    /\ pc' = "idle"
    /\ batch' = << >>
    /\ UNCHANGED <<row, outbox, customer, enabled, hookwise, changes>>

\* Time passes until an event may be tried again.
BackoffEnds(i) ==
    /\ i \in DOMAIN outbox
    /\ ~outbox[i].due
    /\ outbox' = [outbox EXCEPT ![i].due = TRUE]
    /\ UNCHANGED <<row, customer, enabled, pc, batch, hookwise, changes, failures>>

-----------------------------------------------------------------------------
Change ==
    \/ \E S \in SUBSET Findings : \E H \in SUBSET S : Import(S, H)
    \/ \E f \in Findings, d \in Dispositions, r \in Remediations : Annotate(f, d, r)
    \/ EditRoute
    \/ DeleteCustomer
    \/ SaveSettings
    \/ Retry
    \/ \E f \in Findings : RetryFinding(f)
    \/ \E f \in Findings : RecreateFinding(f)

Dispatch ==
    \/ BeginPass
    \/ Reconcile
    \/ LoadBatch
    \/ SendAccepted
    \/ MarkDelivered
    \/ MarkFailed

Failure ==
    \/ SendRefused
    \/ AnswerLost
    \/ PassEnds

Next ==
    \/ Change
    \/ Dispatch
    \/ Failure
    \/ \E i \in DOMAIN outbox : BackoffEnds(i)

Spec == Init /\ [][Next]_vars

\* The ticker keeps the dispatcher going and clocks go on. Nobody has to change
\* anything, and nothing has to fail.
FairSpec ==
    /\ Spec
    /\ WF_vars(Dispatch)
    /\ \A i \in 1 .. 2 * Cardinality(Findings) * MaxChanges : WF_vars(BackoffEnds(i))
=============================================================================
