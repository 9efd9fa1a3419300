-------------------------- MODULE TicketsProperties --------------------------
(***************************************************************************)
(* What the ticket integration must guarantee.                             *)
(***************************************************************************)
EXTENDS Tickets

\* The type of the state.
TypeOK ==
    /\ row \in [Findings -> Row]
    /\ outbox \in Seq(Event)
    /\ customer \in [routed : BOOLEAN, deleted : BOOLEAN]
    /\ enabled \in BOOLEAN
    /\ pc \in {"idle", "reconcile", "load", "send", "accepted", "refused"}
    /\ batch \in Seq(DOMAIN outbox)
    /\ hookwise \in [Findings -> [Generations -> EventTypes \union {"none"}]]
    /\ changes \in 0 .. MaxChanges
    /\ failures \in 0 .. MaxFailures

\* The last event queued for finding f has id i.
LastEventOf(f, i) ==
    /\ outbox[i].finding = f
    /\ \A j \in DOMAIN outbox : j > i => outbox[j].finding # f

\* What is stored about a finding is the last event queued for it, so a restart
\* or a failed write never leaves a row that waits for an event nobody queued
\* (ReconcileHookwiseOutbox, RecreateHookwiseFinding).
RowsFollowTheQueue ==
    \A f \in Findings :
        /\ (\A i \in DOMAIN outbox : outbox[i].finding # f) =>
               row[f].generation = 0 /\ ~row[f].desired
        /\ \A i \in DOMAIN outbox : LastEventOf(f, i) =>
               /\ row[f].generation = outbox[i].generation
               /\ row[f].desired = (outbox[i].type = "open")

\* Event j is the one queued for the finding of event i before it.
Precedes(j, i) ==
    /\ j < i
    /\ outbox[j].finding = outbox[i].finding
    /\ \A k \in DOMAIN outbox : j < k /\ k < i => outbox[k].finding # outbox[i].finding

\* Every ticket is opened once, in a generation of its own, and closed at most
\* once and right after; a generation only begins while the one before is still
\* open if that was delivered first, which is what recreation is for.
OneLifePerGeneration ==
    \A i \in DOMAIN outbox :
        LET event == outbox[i]
        IN /\ (\A j \in DOMAIN outbox : j < i => outbox[j].finding # event.finding) =>
                  event.generation = 1 /\ event.type = "open"
           /\ \A j \in DOMAIN outbox : Precedes(j, i) =>
                  IF event.type = "closed"
                  THEN outbox[j].type = "open" /\ outbox[j].generation = event.generation
                  ELSE /\ outbox[j].generation + 1 = event.generation
                       /\ outbox[j].type = "open" => outbox[j].state = "delivered"

\* Nothing counts as delivered that Hookwise has not accepted last for its
\* ticket, through refusals, lost answers and restarts between sending and
\* marking (DispatchOnce).
DeliveredWasAccepted ==
    [][\A i \in DOMAIN outbox :
           outbox[i].state = "pending" /\ outbox'[i].state = "delivered"
           => hookwise[outbox[i].finding][outbox[i].generation] = outbox[i].type]_vars

\* An event that was marked as delivered is never sent again: duplicates only
\* come from an answer or a mark that was lost.
NoRepeatedDelivery ==
    [][pc = "send" /\ pc' = "accepted" => Current.state = "pending"]_vars

\* The transitions of one ticket reach Hookwise in order: once its close was
\* accepted its open is not delivered any more. hookwise.go:13: "one durable,
\* ordered webhook transition".
ClosedStaysClosed ==
    [][\A f \in Findings, g \in Generations :
           hookwise[f][g] = "closed" => hookwise'[f][g] = "closed"]_vars

\* Once changes and failures are over every queued event is delivered while the
\* integration is enabled, those of deleted customers included.
Drains == <>[](enabled => \A i \in DOMAIN outbox : outbox[i].state = "delivered")

\* What Hookwise was told last of the ticket of finding f.
Told(f) == IF row[f].generation = 0 THEN "none" ELSE hookwise[f][row[f].generation]

\* README, "Ticket eligibility and lifecycle": what every finding must come to, in
\* its row and at Hookwise.
Settled(f) ==
    IF Eligible(row[f])
    THEN IF customer.routed THEN row[f].ticket = "open" /\ Told(f) = "open"
         ELSE row[f].ticket = "blocked" \/ Told(f) = "open"
    ELSE row[f].ticket \in {"none", "closed"} /\ Told(f) # "open"

\* Hookwise has accepted the close of a ticket whose open is still to be delivered.
Overtaken(f, g) ==
    \E i \in DOMAIN outbox :
        /\ outbox[i].finding = f /\ outbox[i].generation = g
        /\ outbox[i].type = "open" /\ outbox[i].state = "pending"
        /\ hookwise[f][g] = "closed"

\* Once changes and failures are over every finding of a customer that exists has
\* the ticket it should have, in its row and at Hookwise, whatever was missed,
\* refused or lost before: all but a ticket whose open was overtaken by its close,
\* which ClosedStaysClosed is about.
TicketsFollowFindings ==
    \A f \in Findings : \A g \in {0} \union Generations :
        []~Overtaken(f, g) =>
            <>[](enabled /\ ~customer.deleted /\ row[f].generation = g => Settled(f))
=============================================================================
