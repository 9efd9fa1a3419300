--------------------------- MODULE TicketsProofs ---------------------------
(***************************************************************************)
(* Proofs about the ticket outbox, for every value of its constants.       *)
(***************************************************************************)
EXTENDS TicketsProperties, FiniteSetTheorems, SequenceTheorems, TLAPS

-----------------------------------------------------------------------------
(* Appending new events *)

\* Every order of a finite set is a sequence of its elements that repeats none
\* and leaves none out.
LEMMA OrdersOfFiniteSet ==
  ASSUME NEW S, IsFiniteSet(S), NEW s \in SetToSeqs(S)
  PROVE  /\ s \in Seq(S)
         /\ Len(s) = Cardinality(S)
         /\ \A i, j \in 1 .. Len(s) : s[i] = s[j] => i = j
         /\ \A e \in S : \E i \in 1 .. Len(s) : s[i] = e
<1> DEFINE n == Cardinality(S)
<1>1. n \in Nat
  BY FS_CardinalityType
<1>2. /\ s \in [1 .. n -> S]
      /\ \A i, j \in 1 .. n : i # j => s[i] # s[j]
  BY DEF SetToSeqs
<1>3. s \in Seq(S) /\ Len(s) = n
  BY <1>1, <1>2
<1>4. s \in Injection(1 .. n, S)
  BY <1>2 DEF Injection, IsInjective
<1>5. IsFiniteSet(1 .. n) /\ Cardinality(1 .. n) = n
  BY <1>1, FS_Interval
<1>6. s \in Surjection(1 .. n, S)
  BY <1>4, <1>5, FS_Injection
<1> QED
  BY <1>2, <1>3, <1>6 DEF Surjection

\* Queueing a finite set of events keeps the outbox, puts only events behind it
\* that it did not have, and leaves none of those out.
LEMMA EnqueueAppends ==
  ASSUME outbox \in Seq(Event), NEW events \in SUBSET Event, IsFiniteSet(events),
         Enqueue(events)
  PROVE  /\ outbox' \in Seq(Event)
         /\ Len(outbox) \in Nat
         /\ Len(outbox') \in Nat
         /\ Len(outbox) <= Len(outbox')
         /\ DOMAIN outbox = 1 .. Len(outbox)
         /\ DOMAIN outbox' = 1 .. Len(outbox')
         /\ \A i \in 1 .. Len(outbox) : outbox'[i] = outbox[i]
         /\ \A i \in 1 .. Len(outbox') : i > Len(outbox) => outbox'[i] \in Missing(events)
         /\ \A e \in Missing(events) :
                \E i \in 1 .. Len(outbox') : i > Len(outbox) /\ outbox'[i] = e
         /\ \A i, j \in 1 .. Len(outbox') :
                i > Len(outbox) /\ j > Len(outbox) /\ outbox'[i] = outbox'[j] => i = j
<1>1. Missing(events) \subseteq events
  BY DEF Missing
<1>2. IsFiniteSet(Missing(events))
  BY <1>1, FS_Subset
<1>3. PICK fresh \in SetToSeqs(Missing(events)) : outbox' = outbox \o fresh
  BY DEF Enqueue
<1>4. /\ fresh \in Seq(Missing(events))
      /\ \A e \in Missing(events) : \E i \in 1 .. Len(fresh) : fresh[i] = e
      /\ \A i, j \in 1 .. Len(fresh) : fresh[i] = fresh[j] => i = j
  BY <1>2, OrdersOfFiniteSet
<1>5. fresh \in Seq(Event)
  BY <1>1, <1>4
<1>6. /\ outbox' \in Seq(Event)
      /\ Len(outbox') = Len(outbox) + Len(fresh)
      /\ \A i \in 1 .. Len(outbox) + Len(fresh) :
             outbox'[i] = IF i <= Len(outbox) THEN outbox[i] ELSE fresh[i - Len(outbox)]
  BY <1>3, <1>5, ConcatProperties
<1>7. Len(outbox) \in Nat /\ Len(fresh) \in Nat
  BY <1>5
<1>8. ASSUME NEW e \in Missing(events)
      PROVE  \E i \in 1 .. Len(outbox') : i > Len(outbox) /\ outbox'[i] = e
  <2>1. PICK j \in 1 .. Len(fresh) : fresh[j] = e
    BY <1>4
  <2>2. /\ j + Len(outbox) \in 1 .. Len(outbox')
        /\ j + Len(outbox) > Len(outbox)
        /\ (j + Len(outbox)) - Len(outbox) = j
    BY <1>6, <1>7
  <2>3. outbox'[j + Len(outbox)] = e
    BY <1>6, <1>7, <2>1, <2>2
  <2> QED
    BY <2>2, <2>3
<1>9. ASSUME NEW i \in 1 .. Len(outbox'), i > Len(outbox)
      PROVE  outbox'[i] \in Missing(events)
  <2>1. i - Len(outbox) \in 1 .. Len(fresh) /\ ~(i <= Len(outbox))
    BY <1>6, <1>7, <1>9
  <2>2. fresh[i - Len(outbox)] \in Missing(events)
    BY <1>4, <2>1, ElementOfSeq
  <2> QED
    BY <1>6, <2>1, <2>2
<1>10. ASSUME NEW i \in 1 .. Len(outbox'), NEW j \in 1 .. Len(outbox'),
              i > Len(outbox), j > Len(outbox), outbox'[i] = outbox'[j]
       PROVE  i = j
  <2>1. /\ i - Len(outbox) \in 1 .. Len(fresh) /\ ~(i <= Len(outbox))
        /\ j - Len(outbox) \in 1 .. Len(fresh) /\ ~(j <= Len(outbox))
    BY <1>6, <1>7, <1>10
  <2>2. fresh[i - Len(outbox)] = fresh[j - Len(outbox)]
    BY <1>6, <1>10, <2>1
  <2>3. i - Len(outbox) = j - Len(outbox)
    BY <1>4, <2>1, <2>2
  <2> QED
    BY <1>7, <2>3
<1>11. \A i, j \in 1 .. Len(outbox') :
           i > Len(outbox) /\ j > Len(outbox) /\ outbox'[i] = outbox'[j] => i = j
  BY <1>10
<1>12. /\ DOMAIN outbox = 1 .. Len(outbox)
       /\ DOMAIN outbox' = 1 .. Len(outbox')
       /\ Len(outbox') \in Nat
       /\ Len(outbox) <= Len(outbox')
       /\ \A i \in 1 .. Len(outbox) : outbox'[i] = outbox[i]
  BY <1>6, <1>7
<1> QED
  BY <1>6, <1>7, <1>8, <1>9, <1>11, <1>12

-----------------------------------------------------------------------------
(* The inductive invariant *)

\* A generation, begun or about to, takes a change of its finding.
GenerationsAreEarned ==
    \A f \in Findings :
        /\ row[f].generation + (IF Eligible(row[f]) /\ ~row[f].desired THEN 1 ELSE 0) <= changes
        /\ row[f].desired => row[f].generation >= 1

\* The outbox has no event that its finding could still queue.
NextEventsAreMissing ==
    \A i \in DOMAIN outbox :
        LET r == row[outbox[i].finding]
        IN /\ outbox[i].generation <= r.generation
           /\ outbox[i].generation = r.generation /\ r.desired => outbox[i].type = "open"

\* A pass holds every event once and none that was delivered; what Hookwise
\* accepted last is the event it is about to mark.
PassHoldsPendingEvents ==
    /\ pc \in {"send", "accepted", "refused"} => batch # << >>
    /\ \A m \in DOMAIN batch :
           /\ outbox[batch[m]].state = "pending"
           /\ \A n \in DOMAIN batch : batch[m] = batch[n] => m = n
    /\ pc = "accepted" => hookwise[Current.finding][Current.generation] = Current.type

IInv ==
    /\ TypeOK
    /\ GenerationsAreEarned
    /\ NextEventsAreMissing
    /\ RowsFollowTheQueue
    /\ PassHoldsPendingEvents

LEMMA InitEstablishesIInv == Init => IInv
  BY ConstantsAssumption
  DEF Init, IInv, TypeOK, GenerationsAreEarned, NextEventsAreMissing, RowsFollowTheQueue,
      PassHoldsPendingEvents, NewRow, Row, Generations, Dispositions, Remediations, TicketStates,
      EventTypes, Eligible

-----------------------------------------------------------------------------
(* Rows and queue *)

LEMMA EventFields ==
  ASSUME NEW e \in Event
  PROVE  /\ e.finding \in Findings
         /\ e.generation \in Generations
         /\ e.generation \in Nat
         /\ e.type \in EventTypes
  BY ConstantsAssumption DEF Event, Generations

LEMMA QueuedEvents ==
  ASSUME NEW events \in Seq(Event), NEW i \in DOMAIN events
  PROVE  /\ DOMAIN events = 1 .. Len(events)
         /\ Len(events) \in Nat
         /\ events[i] \in Event
         /\ events[i].finding \in Findings
         /\ events[i].generation \in Nat
<1>1. /\ DOMAIN events = 1 .. Len(events)
      /\ Len(events) \in Nat
      /\ events[i] \in Event
  BY LenProperties, ElementOfSeq
<1> QED
  BY <1>1, EventFields

\* A step that queues nothing keeps rows and queue together, whatever else it
\* changes about them.
LEMMA NothingQueued ==
  ASSUME NextEventsAreMissing, RowsFollowTheQueue,
         outbox \in Seq(Event),
         DOMAIN outbox' = DOMAIN outbox,
         \A i \in DOMAIN outbox :
             /\ outbox'[i].finding = outbox[i].finding
             /\ outbox'[i].generation = outbox[i].generation
             /\ outbox'[i].type = outbox[i].type,
         \A f \in Findings :
             /\ row'[f].generation = row[f].generation
             /\ row'[f].desired = row[f].desired
  PROVE  NextEventsAreMissing' /\ RowsFollowTheQueue'
<1>1. \A i \in DOMAIN outbox : outbox[i].finding \in Findings
  BY QueuedEvents
<1>2. NextEventsAreMissing'
  BY <1>1 DEF NextEventsAreMissing
<1>3. RowsFollowTheQueue'
  BY DEF RowsFollowTheQueue, LastEventOf
<1> QED
  BY <1>2, <1>3

\* What a row may queue next: its next open, or the close of the ticket that is
\* open.
NextEventOf(e) ==
    LET r == row[e.finding]
    IN \/ e.type = "open" /\ e.generation = r.generation + 1
       \/ e.type = "closed" /\ e.generation = r.generation /\ r.desired

\* Events that their rows may queue next all go behind the outbox, each once.
LEMMA QueuedBehind ==
  ASSUME TypeOK, NextEventsAreMissing,
         NEW events \in SUBSET Event, IsFiniteSet(events), Enqueue(events),
         \A e \in events : NextEventOf(e)
  PROVE  /\ outbox' \in Seq(Event)
         /\ Len(outbox) \in Nat /\ Len(outbox') \in Nat /\ Len(outbox) <= Len(outbox')
         /\ DOMAIN outbox = 1 .. Len(outbox)
         /\ DOMAIN outbox' = 1 .. Len(outbox')
         /\ \A i \in 1 .. Len(outbox) : outbox'[i] = outbox[i]
         /\ \A i \in 1 .. Len(outbox') : i > Len(outbox) => outbox'[i] \in events
         /\ \A e \in events : \E i \in 1 .. Len(outbox') : i > Len(outbox) /\ outbox'[i] = e
         /\ \A i, j \in 1 .. Len(outbox') :
                i > Len(outbox) /\ j > Len(outbox) /\ outbox'[i] = outbox'[j] => i = j
<1>1. /\ outbox \in Seq(Event)
      /\ \A f \in Findings : row[f].generation \in Nat
      /\ \A e \in Event : e.finding \in Findings /\ e.generation \in Nat
  BY ConstantsAssumption, EventFields DEF TypeOK, Row, Generations
<1>2. Missing(events) = events
  <2>1. ASSUME NEW e \in events, NEW i \in DOMAIN outbox PROVE ~SameKey(outbox[i], e)
    BY <1>1, <2>1 DEF NextEventsAreMissing, NextEventOf, SameKey
  <2> QED
    BY <2>1 DEF Missing
<1> QED
  BY <1>1, <1>2, EnqueueAppends

\* A step that queues at most one such event for a finding, and says so in its
\* row, keeps rows and queue together.
LEMMA QueuedAndShown ==
  ASSUME TypeOK, NextEventsAreMissing, RowsFollowTheQueue,
         NEW events \in SUBSET Event, IsFiniteSet(events), Enqueue(events),
         \A e \in events :
             /\ NextEventOf(e)
             /\ row'[e.finding].generation = e.generation
             /\ row'[e.finding].desired = (e.type = "open"),
         \A e, d \in events : e.finding = d.finding => e = d,
         \A f \in Findings :
             (\A e \in events : e.finding # f) =>
                 /\ row'[f].generation = row[f].generation
                 /\ row'[f].desired = row[f].desired
  PROVE  NextEventsAreMissing' /\ RowsFollowTheQueue'
<1> DEFINE n == Len(outbox)
<1>1. /\ outbox \in Seq(Event)
      /\ \A f \in Findings : row[f].generation \in Nat
      /\ \A e \in Event : e.finding \in Findings /\ e.generation \in Nat
  BY ConstantsAssumption, EventFields DEF TypeOK, Row, Generations
<1>3. /\ outbox' \in Seq(Event)
      /\ n \in Nat /\ Len(outbox') \in Nat /\ n <= Len(outbox')
      /\ DOMAIN outbox = 1 .. n
      /\ DOMAIN outbox' = 1 .. Len(outbox')
      /\ \A i \in 1 .. n : outbox'[i] = outbox[i]
      /\ \A i \in 1 .. Len(outbox') : i > n => outbox'[i] \in events
      /\ \A e \in events : \E i \in 1 .. Len(outbox') : i > n /\ outbox'[i] = e
  BY QueuedBehind
<1>4. ASSUME NEW i \in DOMAIN outbox'
      PROVE  /\ outbox'[i].generation <= row'[outbox'[i].finding].generation
             /\ outbox'[i].generation = row'[outbox'[i].finding].generation
                /\ row'[outbox'[i].finding].desired => outbox'[i].type = "open"
  <2>1. CASE i > n
    <3>1. PICK e \in events : outbox'[i] = e
      BY <1>3, <2>1
    <3>2. /\ row'[e.finding].generation = e.generation
          /\ row'[e.finding].desired = (e.type = "open")
          /\ e.generation \in Nat
      BY <1>1
    <3>3. row'[e.finding].desired => e.type = "open"
      BY <3>2, Zenon
    <3>4. e.generation <= row'[e.finding].generation
      BY <3>2
    <3> QED
      BY <3>1, <3>3, <3>4
  <2>2. CASE i <= n
    <3>1. i \in DOMAIN outbox /\ outbox'[i] = outbox[i] /\ outbox[i] \in Event
      BY <1>1, <1>3, <2>2
    <3> DEFINE f == outbox[i].finding
    <3>2. CASE \A e \in events : e.finding # f
      BY <1>1, <3>1, <3>2 DEF NextEventsAreMissing
    <3>3. CASE \E e \in events : e.finding = f
      <4>1. PICK e \in events : e.finding = f
        BY <3>3
      <4> QED
        BY <1>1, <3>1, <4>1 DEF NextEventsAreMissing, NextEventOf
    <3> QED
      BY <3>2, <3>3
  <2> QED
    BY <1>3, <2>1, <2>2
<1>5. ASSUME NEW f \in Findings, \A i \in DOMAIN outbox' : outbox'[i].finding # f
      PROVE  row'[f].generation = 0 /\ ~row'[f].desired
  <2>1. \A e \in events : e.finding # f
    BY <1>3, <1>5
  <2>2. \A i \in DOMAIN outbox : outbox[i].finding # f
    BY <1>3, <1>5
  <2> QED
    BY <2>1, <2>2 DEF RowsFollowTheQueue
<1>6. ASSUME NEW f \in Findings, NEW i \in DOMAIN outbox', LastEventOf(f, i)'
      PROVE  /\ row'[f].generation = outbox'[i].generation
             /\ row'[f].desired = (outbox'[i].type = "open")
  <2>1. /\ outbox'[i].finding = f
        /\ \A j \in DOMAIN outbox' : j > i => outbox'[j].finding # f
    BY <1>6 DEF LastEventOf
  <2>2. CASE i > n
    <3>1. outbox'[i] \in events
      BY <1>3, <2>2
    <3> QED
      BY <2>1, <3>1
  <2>3. CASE i <= n
    <3>1. i \in DOMAIN outbox /\ outbox'[i] = outbox[i]
      BY <1>3, <2>3
    <3>2. \A e \in events : e.finding # f
      <4>1. SUFFICES ASSUME NEW e \in events, e.finding = f PROVE FALSE
        OBVIOUS
      <4>2. PICK j \in 1 .. Len(outbox') : j > n /\ outbox'[j] = e
        BY <1>3
      <4> QED
        BY <1>3, <2>1, <2>3, <4>1, <4>2
    <3>3. LastEventOf(f, i)
      BY <1>3, <2>1, <3>1 DEF LastEventOf
    <3> QED
      BY <3>1, <3>2, <3>3 DEF RowsFollowTheQueue
  <2> QED
    BY <1>3, <2>2, <2>3
<1>7. NextEventsAreMissing'
  BY <1>4 DEF NextEventsAreMissing
<1>8. RowsFollowTheQueue'
  BY <1>5, <1>6 DEF RowsFollowTheQueue
<1> QED
  BY <1>7, <1>8

-----------------------------------------------------------------------------
(* Steps beside the dispatcher *)

\* A step that leaves the pass alone and the events in its batch pending does
\* not disturb it.
LEMMA PassUndisturbed ==
  ASSUME TypeOK, PassHoldsPendingEvents,
         \A i \in DOMAIN outbox :
             /\ i \in DOMAIN outbox'
             /\ outbox'[i].finding = outbox[i].finding
             /\ outbox'[i].generation = outbox[i].generation
             /\ outbox'[i].type = outbox[i].type
             /\ outbox'[i].state = outbox[i].state,
         UNCHANGED <<pc, batch, hookwise>>
  PROVE  batch' \in Seq(DOMAIN outbox') /\ PassHoldsPendingEvents'
<1>1. batch \in Seq(DOMAIN outbox)
  BY DEF TypeOK
<1>2. batch' \in Seq(DOMAIN outbox')
  BY <1>1, SeqMonotonic
<1>3. \A m \in DOMAIN batch : batch[m] \in DOMAIN outbox
  BY <1>1
<1>4. batch # << >> => Head(batch) \in DOMAIN outbox
  BY <1>1, HeadTailProperties
<1>5. PassHoldsPendingEvents'
  BY <1>3, <1>4 DEF PassHoldsPendingEvents, Current
<1> QED
  BY <1>2, <1>5

LEMMA CountersAreBounded ==
  ASSUME TypeOK
  PROVE  /\ Changed => changes' \in 0 .. MaxChanges /\ changes' = changes + 1
         /\ Failed => failures' \in 0 .. MaxFailures
         /\ changes \in Nat
  BY ConstantsAssumption DEF TypeOK, Changed, Failed

\* A change of anything but desired tickets earns one generation.
LEMMA ChangesEarnGenerations ==
  ASSUME IInv, Changed,
         \A f \in Findings :
             row'[f].generation = row[f].generation /\ row'[f].desired = row[f].desired
  PROVE  GenerationsAreEarned'
<1>1. changes' = changes + 1 /\ changes \in Nat
  BY CountersAreBounded DEF IInv
<1>2. ASSUME NEW f \in Findings
      PROVE  /\ row'[f].generation + (IF Eligible(row'[f]) /\ ~row'[f].desired THEN 1 ELSE 0)
                   <= changes'
             /\ row'[f].desired => row'[f].generation >= 1
  <2>1. row[f].generation \in Nat
    BY ConstantsAssumption DEF IInv, TypeOK, Row, Generations
  <2>2. /\ row[f].generation <= changes
        /\ row[f].desired => row[f].generation >= 1
    BY <1>1, <2>1 DEF IInv, GenerationsAreEarned
  <2> QED
    BY <1>1, <2>1, <2>2
<1> QED
  BY <1>2 DEF GenerationsAreEarned

LEMMA ImportKeepsIInv ==
  ASSUME IInv, NEW S \in SUBSET Findings, NEW H \in SUBSET S, Import(S, H)
  PROVE  IInv'
<1>1. ASSUME NEW f \in Findings
      PROVE  /\ row'[f] \in Row
             /\ row'[f].generation = row[f].generation
             /\ row'[f].desired = row[f].desired
  <2>1. row[f] \in Row
    BY DEF IInv, TypeOK
  <2>2. row'[f] = IF f \in S THEN [row[f] EXCEPT !.present = TRUE, !.severe = (f \in H)]
                  ELSE [row[f] EXCEPT !.present = FALSE]
    BY DEF Import
  <2>3. (f \in H) \in BOOLEAN
    OBVIOUS
  <2>4. CASE f \in S
    BY <2>1, <2>2, <2>3, <2>4 DEF Row
  <2>5. CASE f \notin S
    BY <2>1, <2>2, <2>5 DEF Row
  <2> QED
    BY <2>4, <2>5
<1>2. TypeOK'
  <2>1. row' \in [Findings -> Row]
    BY <1>1 DEF Import
  <2> QED
    BY <2>1, CountersAreBounded DEF IInv, TypeOK, Import
<1>3. GenerationsAreEarned'
  BY <1>1, ChangesEarnGenerations DEF Import
<1>4. NextEventsAreMissing' /\ RowsFollowTheQueue'
  BY <1>1, NothingQueued DEF IInv, TypeOK, Import
<1>5. PassHoldsPendingEvents'
  BY PassUndisturbed DEF IInv, Import
<1> QED
  BY <1>2, <1>3, <1>4, <1>5 DEF IInv

LEMMA AnnotateKeepsIInv ==
  ASSUME IInv, NEW f \in Findings, NEW d \in Dispositions, NEW r \in Remediations,
         Annotate(f, d, r)
  PROVE  IInv'
<1>1. ASSUME NEW g \in Findings
      PROVE  /\ row'[g] \in Row
             /\ row'[g].generation = row[g].generation
             /\ row'[g].desired = row[g].desired
  <2>1. row[g] \in Row /\ row \in [Findings -> Row]
    BY DEF IInv, TypeOK
  <2>2. row'[g] = IF g = f THEN [row[g] EXCEPT !.disposition = d, !.remediation = r] ELSE row[g]
    BY <2>1 DEF Annotate
  <2> QED
    BY <2>1, <2>2 DEF Row
<1>2. TypeOK'
  <2>1. row' \in [Findings -> Row]
    BY <1>1 DEF Annotate, IInv, TypeOK
  <2> QED
    BY <2>1, CountersAreBounded DEF IInv, TypeOK, Annotate
<1>3. GenerationsAreEarned'
  BY <1>1, ChangesEarnGenerations DEF Annotate
<1>4. NextEventsAreMissing' /\ RowsFollowTheQueue'
  BY <1>1, NothingQueued DEF IInv, TypeOK, Annotate
<1>5. PassHoldsPendingEvents'
  BY PassUndisturbed DEF IInv, Annotate
<1> QED
  BY <1>2, <1>3, <1>4, <1>5 DEF IInv

\* Edits of the customer and of the settings.
LEMMA EditsKeepIInv ==
  ASSUME IInv, EditRoute \/ DeleteCustomer \/ SaveSettings
  PROVE  IInv'
<1>1. UNCHANGED <<row, outbox, pc, batch, hookwise, failures>> /\ Changed
  BY DEF EditRoute, DeleteCustomer, SaveSettings
<1>2. TypeOK'
  <2>1. customer' \in [routed : BOOLEAN, deleted : BOOLEAN] /\ enabled' \in BOOLEAN
    BY DEF IInv, TypeOK, EditRoute, DeleteCustomer, SaveSettings
  <2> QED
    BY <1>1, <2>1, CountersAreBounded DEF IInv, TypeOK
<1>3. GenerationsAreEarned'
  BY <1>1, ChangesEarnGenerations
<1>4. NextEventsAreMissing' /\ RowsFollowTheQueue'
  BY <1>1, NothingQueued DEF IInv, TypeOK
<1>5. PassHoldsPendingEvents'
  BY <1>1, PassUndisturbed DEF IInv
<1> QED
  BY <1>2, <1>3, <1>4, <1>5 DEF IInv

\* Steps that only change when events are due.
LEMMA RearmingKeepsIInv ==
  ASSUME IInv,
         outbox' \in Seq(Event),
         DOMAIN outbox' = DOMAIN outbox,
         \A i \in DOMAIN outbox :
             /\ outbox'[i].finding = outbox[i].finding
             /\ outbox'[i].generation = outbox[i].generation
             /\ outbox'[i].type = outbox[i].type
             /\ outbox'[i].state = outbox[i].state,
         UNCHANGED <<row, customer, enabled, pc, batch, hookwise, failures>>,
         Changed \/ UNCHANGED changes
  PROVE  IInv'
<1>1. batch' \in Seq(DOMAIN outbox') /\ PassHoldsPendingEvents'
  BY PassUndisturbed DEF IInv
<1>2. TypeOK'
  BY <1>1, CountersAreBounded DEF IInv, TypeOK
<1>3. GenerationsAreEarned'
  BY ConstantsAssumption
  DEF IInv, TypeOK, GenerationsAreEarned, Eligible, Changed, Row, Generations
<1>4. NextEventsAreMissing' /\ RowsFollowTheQueue'
  BY NothingQueued DEF IInv, TypeOK
<1> QED
  BY <1>1, <1>2, <1>3, <1>4 DEF IInv

LEMMA RearmedEvents ==
  ASSUME outbox \in Seq(Event), NEW ids
  PROVE  /\ Rearmed(ids) \in Seq(Event)
         /\ DOMAIN Rearmed(ids) = DOMAIN outbox
         /\ \A i \in DOMAIN outbox :
                /\ Rearmed(ids)[i].finding = outbox[i].finding
                /\ Rearmed(ids)[i].generation = outbox[i].generation
                /\ Rearmed(ids)[i].type = outbox[i].type
                /\ Rearmed(ids)[i].state = outbox[i].state
<1>1. \A i \in DOMAIN outbox : outbox[i] \in Event
  BY QueuedEvents
<1>2. \A i \in DOMAIN outbox : [outbox[i] EXCEPT !.due = @ \/ i \in ids] \in Event
  BY <1>1 DEF Event
<1>3. DOMAIN outbox = 1 .. Len(outbox) /\ Len(outbox) \in Nat
  BY LenProperties
<1>4. Rearmed(ids) \in Seq(Event)
  BY <1>2, <1>3 DEF Rearmed
<1> QED
  BY <1>1, <1>4 DEF Rearmed, Event

LEMMA RetryKeepsIInv ==
  ASSUME IInv, Retry
  PROVE  IInv'
<1> DEFINE ids == {i \in DOMAIN outbox : outbox[i].state = "pending"}
<1>1. outbox' = Rearmed(ids) /\ Changed
  BY DEF Retry
<1> HIDE DEF ids
<1> QED
  BY <1>1, RearmedEvents, RearmingKeepsIInv DEF IInv, TypeOK, Retry

LEMMA RetryFindingKeepsIInv ==
  ASSUME IInv, NEW f \in Findings, RetryFinding(f)
  PROVE  IInv'
<1>1. PICK ids \in SUBSET DOMAIN outbox : outbox' = Rearmed(ids)
  BY DEF RetryFinding
<1> QED
  BY <1>1, RearmedEvents, RearmingKeepsIInv DEF IInv, TypeOK, RetryFinding

LEMMA BackoffEndsKeepsIInv ==
  ASSUME IInv, NEW i \in DOMAIN outbox, BackoffEnds(i)
  PROVE  IInv'
<1>1. outbox \in Seq(Event) /\ outbox[i] \in Event
  BY QueuedEvents DEF IInv, TypeOK
<1>2. [outbox[i] EXCEPT !.due = TRUE] \in Event
  BY <1>1 DEF Event
<1>3. outbox' = [outbox EXCEPT ![i] = [outbox[i] EXCEPT !.due = TRUE]]
  BY DEF BackoffEnds
<1>4. outbox' \in Seq(Event) /\ DOMAIN outbox' = DOMAIN outbox
  BY <1>1, <1>2, <1>3, ExceptSeq, LenProperties
<1>5. \A j \in DOMAIN outbox :
         /\ outbox'[j].finding = outbox[j].finding
         /\ outbox'[j].generation = outbox[j].generation
         /\ outbox'[j].type = outbox[j].type
         /\ outbox'[j].state = outbox[j].state
  BY <1>1, <1>3 DEF Event
<1> QED
  BY <1>4, <1>5, RearmingKeepsIInv DEF BackoffEnds

-----------------------------------------------------------------------------
(* Steps that queue *)

LEMMA NewEventFields ==
  ASSUME NEW f \in Findings, NEW g \in Generations, NEW type \in EventTypes
  PROVE  /\ NewEvent(f, g, type) \in Event
         /\ NewEvent(f, g, type).finding = f
         /\ NewEvent(f, g, type).generation = g
         /\ NewEvent(f, g, type).type = type
  BY DEF NewEvent, Event

LEMMA QueuedFields ==
  ASSUME NEW r \in Row, NEW g \in Generations, NEW type \in EventTypes
  PROVE  /\ Queued(r, g, type) \in Row
         /\ Queued(r, g, type).generation = g
         /\ Queued(r, g, type).desired = (type = "open")
         /\ Eligible(Queued(r, g, type)) <=> Eligible(r)
<1>1. (type = "open") \in BOOLEAN
  OBVIOUS
<1>2. (IF type = "open" THEN "queued_open" ELSE "queued_close") \in TicketStates
  BY DEF TicketStates
<1>3. Queued(r, g, type) \in Row
  BY <1>1, <1>2 DEF Queued, Row
<1>4. Queued(r, g, type).desired = (type = "open")
  BY Zenon DEF Queued, Row
<1> QED
  BY <1>3, <1>4 DEF Queued, Row, Eligible

\* The row of every finding that could queue its next open.
LEMMA NextGenerationExists ==
  ASSUME IInv, NEW f \in Findings
  PROVE  /\ row[f] \in Row
         /\ row[f].generation \in Nat
         /\ row[f].desired => row[f].generation \in Generations
         /\ Eligible(row[f]) /\ ~row[f].desired => NextGeneration(row[f]) \in Generations
         /\ changes < MaxChanges => NextGeneration(row[f]) \in Generations
<1>1. /\ row[f] \in Row
      /\ row[f].generation \in Nat
      /\ row[f].generation <= MaxChanges
      /\ changes \in Nat /\ changes <= MaxChanges
      /\ MaxChanges \in Nat
  BY ConstantsAssumption DEF IInv, TypeOK, Row, Generations
<1>2. /\ row[f].generation <= changes
      /\ row[f].desired => row[f].generation >= 1
      /\ Eligible(row[f]) /\ ~row[f].desired => row[f].generation + 1 <= changes
  BY <1>1 DEF IInv, GenerationsAreEarned
<1> QED
  BY <1>1, <1>2 DEF NextGeneration, Generations

LEMMA RecreateFindingKeepsIInv ==
  ASSUME IInv, NEW f \in Findings, RecreateFinding(f)
  PROVE  IInv'
<1> DEFINE g == NextGeneration(row[f])
           e == NewEvent(f, g, "open")
<1>1. /\ Enqueue({e})
      /\ row' = [row EXCEPT ![f] = Queued(row[f], g, "open")]
      /\ changes' = changes + 1 /\ changes < MaxChanges
      /\ UNCHANGED <<customer, enabled, pc, batch, hookwise, failures>>
  BY DEF RecreateFinding, Changed
<1>2. /\ g \in Generations
      /\ row[f] \in Row
      /\ row \in [Findings -> Row]
      /\ "open" \in EventTypes
  BY <1>1, NextGenerationExists DEF IInv, TypeOK, EventTypes
<1>3. /\ e \in Event
      /\ e.finding = f
      /\ e.generation = g
      /\ e.type = "open"
  BY <1>2, NewEventFields
<1>4. /\ row'[f] \in Row
      /\ row'[f].generation = g
      /\ row'[f].desired
      /\ row' \in [Findings -> Row]
      /\ \A h \in Findings : h # f => row'[h] = row[h]
  <2>1. row'[f] = Queued(row[f], g, "open")
    BY <1>1, <1>2
  <2>2. /\ row'[f] \in Row
        /\ row'[f].generation = g
        /\ row'[f].desired = ("open" = "open")
    BY <1>2, <2>1, QueuedFields
  <2>3. row' \in [Findings -> Row]
    BY <1>1, <1>2, <2>1, <2>2
  <2> QED
    BY <1>1, <1>2, <2>2, <2>3
<1>5. {e} \in SUBSET Event /\ IsFiniteSet({e})
  BY <1>3, FS_Singleton
<1>6. NextEventOf(e)
  BY <1>3 DEF NextEventOf, NextGeneration
<1> HIDE DEF e, g
<1>7. NextEventsAreMissing' /\ RowsFollowTheQueue'
  <2>1. \A d \in {e} : /\ NextEventOf(d)
                       /\ row'[d.finding].generation = d.generation
                       /\ row'[d.finding].desired = (d.type = "open")
    BY <1>3, <1>4, <1>6
  <2>2. \A h \in Findings : (\A d \in {e} : d.finding # h) => row'[h] = row[h]
    BY <1>3, <1>4
  <2>3. \A d, c \in {e} : d.finding = c.finding => d = c
    OBVIOUS
  <2> QED
    BY <1>1, <1>5, <2>1, <2>2, <2>3, QueuedAndShown DEF IInv
<1>8. outbox \in Seq(Event)
  BY DEF IInv, TypeOK
<1>9. /\ outbox' \in Seq(Event)
      /\ \A i \in DOMAIN outbox : i \in DOMAIN outbox' /\ outbox'[i] = outbox[i]
  BY <1>1, <1>5, <1>8, EnqueueAppends
<1>10. batch' \in Seq(DOMAIN outbox') /\ PassHoldsPendingEvents'
  BY <1>1, <1>9, PassUndisturbed DEF IInv
<1>11. changes \in Nat /\ MaxChanges \in Nat
  BY ConstantsAssumption DEF IInv, TypeOK
<1>12. TypeOK'
  BY <1>1, <1>4, <1>9, <1>10, <1>11 DEF IInv, TypeOK
<1>13. GenerationsAreEarned'
  <2>1. ASSUME NEW h \in Findings
        PROVE  /\ row'[h].generation
                      + (IF Eligible(row'[h]) /\ ~row'[h].desired THEN 1 ELSE 0) <= changes'
               /\ row'[h].desired => row'[h].generation >= 1
    <3>1. /\ row[h].generation \in Nat
          /\ row[h].generation + (IF Eligible(row[h]) /\ ~row[h].desired THEN 1 ELSE 0) <= changes
          /\ row[h].desired => row[h].generation >= 1
      BY NextGenerationExists DEF IInv, GenerationsAreEarned
    <3>2. CASE h # f
      BY <1>1, <1>4, <1>11, <3>1, <3>2
    <3>3. CASE h = f
      <4>1. g = row[f].generation + 1
        BY DEF g, NextGeneration
      <4> QED
        BY <1>1, <1>4, <1>11, <3>1, <3>3, <4>1
    <3> QED
      BY <3>2, <3>3
  <2> QED
    BY <2>1 DEF GenerationsAreEarned
<1> QED
  BY <1>7, <1>10, <1>12, <1>13 DEF IInv

\* Findings get the events that their rows allow, one each, and finitely many.
LEMMA ReconcileEvents ==
  ASSUME IInv
  PROVE  LET opens == {NewEvent(f, NextGeneration(row[f]), "open") : f \in Opens}
             closes == {NewEvent(f, row[f].generation, "closed") : f \in Closes}
         IN /\ IsFiniteSet(opens \union closes)
            /\ \A e \in opens : /\ e \in Event
                                /\ e.finding \in Opens
                                /\ e = NewEvent(e.finding, NextGeneration(row[e.finding]), "open")
            /\ \A e \in closes : /\ e \in Event
                                 /\ e.finding \in Closes
                                 /\ e = NewEvent(e.finding, row[e.finding].generation, "closed")
<1> DEFINE open(f) == NewEvent(f, NextGeneration(row[f]), "open")
           close(f) == NewEvent(f, row[f].generation, "closed")
           opens == {open(f) : f \in Opens}
           closes == {close(f) : f \in Closes}
<1>1. Opens \subseteq Findings /\ Closes \subseteq Findings
  BY DEF Opens, Closes
<1>2. IsFiniteSet(Opens) /\ IsFiniteSet(Closes)
  BY <1>1, ConstantsAssumption, FS_Subset
<1>3. IsFiniteSet(opens)
  <2> DEFINE o == [f \in Opens |-> open(f)]
  <2>1. o \in Surjection(Opens, opens)
    BY DEF Surjection
  <2> QED
    BY <1>2, <2>1, FS_Surjection
<1>4. IsFiniteSet(closes)
  <2> DEFINE c == [f \in Closes |-> close(f)]
  <2>1. c \in Surjection(Closes, closes)
    BY DEF Surjection
  <2> QED
    BY <1>2, <2>1, FS_Surjection
<1>5. IsFiniteSet(opens \union closes)
  BY <1>3, <1>4, FS_Union
<1>6. ASSUME NEW f \in Opens PROVE open(f) \in Event /\ open(f).finding = f
  <2>1. f \in Findings /\ NextGeneration(row[f]) \in Generations
    BY <1>1, NextGenerationExists DEF Opens
  <2> QED
    BY <2>1, NewEventFields DEF EventTypes
<1>7. ASSUME NEW f \in Closes PROVE close(f) \in Event /\ close(f).finding = f
  <2>1. f \in Findings /\ row[f].generation \in Generations
    BY <1>1, NextGenerationExists DEF Closes
  <2> QED
    BY <2>1, NewEventFields DEF EventTypes
<1>8. ASSUME NEW e \in opens
      PROVE  e \in Event /\ e.finding \in Opens /\ e = open(e.finding)
  <2>1. PICK f \in Opens : e = open(f)
    OBVIOUS
  <2> HIDE DEF open
  <2> QED
    BY <1>6, <2>1
<1>9. ASSUME NEW e \in closes
      PROVE  e \in Event /\ e.finding \in Closes /\ e = close(e.finding)
  <2>1. PICK f \in Closes : e = close(f)
    OBVIOUS
  <2> HIDE DEF close
  <2> QED
    BY <1>7, <2>1
<1> QED
  BY <1>5, <1>8, <1>9

\* What reconciliation makes of a row.
LEMMA ReconciledRow ==
  ASSUME IInv, NEW f \in Findings
  PROVE  /\ Reconciled(f) \in Row
         /\ f \in Opens => /\ Reconciled(f).generation = NextGeneration(row[f])
                           /\ Reconciled(f).desired
         /\ f \in Closes => /\ Reconciled(f).generation = row[f].generation
                            /\ ~Reconciled(f).desired
         /\ f \notin Opens /\ f \notin Closes => /\ Reconciled(f).generation = row[f].generation
                                                 /\ Reconciled(f).desired = row[f].desired
         /\ Eligible(Reconciled(f)) <=> Eligible(row[f])
<1> DEFINE r == row[f]
<1>1. /\ r \in Row
      /\ "open" \in EventTypes /\ "closed" \in EventTypes
  BY NextGenerationExists DEF EventTypes
<1>2. CASE f \in Opens
  <2>1. NextGeneration(r) \in Generations /\ f \notin Closes
    BY <1>2, NextGenerationExists DEF Opens, Closes
  <2>2. Reconciled(f) = Queued(r, NextGeneration(r), "open")
    BY <1>2 DEF Reconciled, Opens, Closes
  <2> HIDE DEF r
  <2>3. /\ Reconciled(f) \in Row
        /\ Reconciled(f).generation = NextGeneration(r)
        /\ Reconciled(f).desired = ("open" = "open")
        /\ Eligible(Reconciled(f)) <=> Eligible(r)
    BY <1>1, <2>1, <2>2, QueuedFields
  <2> QED
    BY <1>2, <2>1, <2>3 DEF r
<1>3. CASE f \in Closes
  <2>1. r.generation \in Generations /\ f \notin Opens
    BY <1>3, NextGenerationExists DEF Opens, Closes
  <2>2. Reconciled(f) = Queued(r, r.generation, "closed")
    BY <1>3, <2>1 DEF Reconciled, Closes
  <2> HIDE DEF r
  <2>3. /\ Reconciled(f) \in Row
        /\ Reconciled(f).generation = r.generation
        /\ Reconciled(f).desired = ("closed" = "open")
        /\ Eligible(Reconciled(f)) <=> Eligible(r)
    BY <1>1, <2>1, <2>2, QueuedFields
  <2> QED
    BY <1>3, <2>1, <2>3 DEF r
<1>4. CASE f \notin Opens /\ f \notin Closes
  <2>1. \/ Reconciled(f) = [r EXCEPT !.ticket = "blocked"]
        \/ Reconciled(f) = [r EXCEPT !.ticket = "none"]
        \/ Reconciled(f) = r
    BY <1>4 DEF Reconciled
  <2> HIDE DEF r
  <2>2. /\ Reconciled(f) \in Row
        /\ Reconciled(f).generation = r.generation
        /\ Eligible(Reconciled(f)) <=> Eligible(r)
    BY <1>1, <2>1 DEF Row, TicketStates, Eligible
  <2>3. Reconciled(f).desired = r.desired
    BY <1>1, <2>1, Zenon DEF Row
  <2> QED
    BY <1>4, <2>2, <2>3 DEF r
<1> QED
  BY <1>2, <1>3, <1>4

LEMMA ReconcileKeepsIInv ==
  ASSUME IInv, Reconcile
  PROVE  IInv'
<1>1. /\ pc = "reconcile" /\ pc' = "load"
      /\ UNCHANGED <<customer, enabled, batch, hookwise, changes, failures>>
  BY DEF Reconcile
<1>2. CASE UNCHANGED <<row, outbox>>
  <2>1. TypeOK'
    BY <1>1, <1>2 DEF IInv, TypeOK
  <2>2. GenerationsAreEarned' /\ RowsFollowTheQueue' /\ NextEventsAreMissing'
    BY <1>1, <1>2
    DEF IInv, GenerationsAreEarned, RowsFollowTheQueue, NextEventsAreMissing, LastEventOf, Eligible
  <2>3. PassHoldsPendingEvents'
    BY <1>1, <1>2 DEF IInv, PassHoldsPendingEvents
  <2> QED
    BY <2>1, <2>2, <2>3 DEF IInv
<1>3. CASE ~UNCHANGED <<row, outbox>>
  <2> DEFINE opens == {NewEvent(f, NextGeneration(row[f]), "open") : f \in Opens}
             closes == {NewEvent(f, row[f].generation, "closed") : f \in Closes}
  <2>1. /\ Enqueue(opens \union closes)
        /\ row' = [f \in Findings |-> Reconciled(f)]
    BY <1>3 DEF Reconcile
  <2>2. /\ IsFiniteSet(opens \union closes)
        /\ \A e \in opens : /\ e \in Event
                            /\ e.finding \in Opens
                            /\ e = NewEvent(e.finding, NextGeneration(row[e.finding]), "open")
        /\ \A e \in closes : /\ e \in Event
                             /\ e.finding \in Closes
                             /\ e = NewEvent(e.finding, row[e.finding].generation, "closed")
    BY ReconcileEvents
  <2>3. ASSUME NEW f \in Findings PROVE row'[f] = Reconciled(f)
    BY <2>1
  <2>4. Opens \subseteq Findings /\ Closes \subseteq Findings /\ Opens \cap Closes = {}
    BY DEF Opens, Closes
  <2>5. /\ \A f \in Opens : \E e \in opens : e.finding = f
        /\ \A f \in Closes : \E e \in closes : e.finding = f
    <3>1. ASSUME NEW f \in Opens PROVE \E e \in opens : e.finding = f
      <4>1. NewEvent(f, NextGeneration(row[f]), "open") \in opens
        OBVIOUS
      <4>2. NewEvent(f, NextGeneration(row[f]), "open").finding = f
        BY DEF NewEvent
      <4> QED
        BY <4>1, <4>2
    <3>2. ASSUME NEW f \in Closes PROVE \E e \in closes : e.finding = f
      <4>1. NewEvent(f, row[f].generation, "closed") \in closes
        OBVIOUS
      <4>2. NewEvent(f, row[f].generation, "closed").finding = f
        BY DEF NewEvent
      <4> QED
        BY <4>1, <4>2
    <3> QED
      BY <3>1, <3>2
  <2> HIDE DEF opens, closes
  <2>6. ASSUME NEW e \in opens
        PROVE  /\ e.type = "open" /\ e.generation = NextGeneration(row[e.finding])
               /\ e.finding \in Opens /\ e.finding \in Findings
    BY <2>2, <2>4 DEF NewEvent
  <2>7. ASSUME NEW e \in closes
        PROVE  /\ e.type = "closed" /\ e.generation = row[e.finding].generation
               /\ e.finding \in Closes /\ e.finding \in Findings
    BY <2>2, <2>4 DEF NewEvent
  <2>8. ASSUME NEW e \in opens \union closes
        PROVE  /\ NextEventOf(e)
               /\ row'[e.finding].generation = e.generation
               /\ row'[e.finding].desired = (e.type = "open")
    <3>1. CASE e \in opens
      <4>1. /\ e.type = "open" /\ e.generation = NextGeneration(row[e.finding])
            /\ e.finding \in Opens /\ e.finding \in Findings
        BY <2>6, <3>1
      <4>2. NextEventOf(e)
        BY <4>1 DEF NextEventOf, NextGeneration
      <4>3. row'[e.finding] \in Row
        BY <2>3, <4>1, ReconciledRow
      <4>4. row'[e.finding].desired \in BOOLEAN
        BY <4>3 DEF Row
      <4>5. /\ row'[e.finding].generation = e.generation
            /\ row'[e.finding].desired
        BY <2>3, <4>1, ReconciledRow
      <4> QED
        BY <4>1, <4>2, <4>4, <4>5
    <3>2. CASE e \in closes
      <4>1. /\ e.type = "closed" /\ e.generation = row[e.finding].generation
            /\ e.finding \in Closes /\ e.finding \in Findings
        BY <2>7, <3>2
      <4>2. NextEventOf(e)
        BY <4>1 DEF NextEventOf, Closes
      <4>3. row'[e.finding] \in Row
        BY <2>3, <4>1, ReconciledRow
      <4>4. row'[e.finding].desired \in BOOLEAN
        BY <4>3 DEF Row
      <4>5. /\ row'[e.finding].generation = e.generation
            /\ ~row'[e.finding].desired
        BY <2>3, <4>1, ReconciledRow
      <4> QED
        BY <4>1, <4>2, <4>4, <4>5
    <3> QED
      BY <3>1, <3>2
  <2>9. ASSUME NEW e \in opens \union closes, NEW d \in opens \union closes,
               e.finding = d.finding
        PROVE  e = d
    <3>1. CASE e \in opens
      <4>1. d \in opens
        BY <2>4, <2>6, <2>7, <2>9, <3>1
      <4> QED
        BY <2>2, <2>9, <3>1, <4>1
    <3>2. CASE e \in closes
      <4>1. d \in closes
        BY <2>4, <2>6, <2>7, <2>9, <3>2
      <4> QED
        BY <2>2, <2>9, <3>2, <4>1
    <3> QED
      BY <3>1, <3>2
  <2>10. ASSUME NEW f \in Findings, \A e \in opens \union closes : e.finding # f
         PROVE  row'[f].generation = row[f].generation /\ row'[f].desired = row[f].desired
    <3>1. f \notin Opens
      BY <2>5, <2>10
    <3>2. f \notin Closes
      BY <2>5, <2>10
    <3> QED
      BY <2>3, <3>1, <3>2, ReconciledRow
  <2>11. opens \union closes \in SUBSET Event
    BY <2>2
  <2>12. NextEventsAreMissing' /\ RowsFollowTheQueue'
    BY <2>1, <2>2, <2>8, <2>9, <2>10, <2>11, QueuedAndShown DEF IInv
  <2>13. outbox \in Seq(Event) /\ batch \in Seq(DOMAIN outbox)
    BY DEF IInv, TypeOK
  <2>14. /\ outbox' \in Seq(Event)
         /\ DOMAIN outbox \subseteq DOMAIN outbox'
         /\ \A i \in DOMAIN outbox : outbox'[i] = outbox[i]
    <3>1. /\ outbox' \in Seq(Event)
          /\ Len(outbox) \in Nat /\ Len(outbox') \in Nat /\ Len(outbox) <= Len(outbox')
          /\ DOMAIN outbox = 1 .. Len(outbox)
          /\ DOMAIN outbox' = 1 .. Len(outbox')
          /\ \A i \in 1 .. Len(outbox) : outbox'[i] = outbox[i]
      BY <2>1, <2>2, <2>11, <2>13, EnqueueAppends, Zenon
    <3> QED
      BY <3>1
  <2>15. batch' \in Seq(DOMAIN outbox')
    BY <1>1, <2>13, <2>14, SeqMonotonic
  <2>16. row' \in [Findings -> Row]
    BY <2>1, ReconciledRow
  <2>17. TypeOK'
    BY <1>1, <2>14, <2>15, <2>16 DEF IInv, TypeOK
  <2>18. PassHoldsPendingEvents'
    <3>1. \A m \in DOMAIN batch : batch[m] \in DOMAIN outbox
      BY <2>13
    <3> QED
      BY <1>1, <2>14, <3>1 DEF IInv, PassHoldsPendingEvents
  <2>19. GenerationsAreEarned'
    <3>1. ASSUME NEW f \in Findings
          PROVE  /\ row'[f].generation
                        + (IF Eligible(row'[f]) /\ ~row'[f].desired THEN 1 ELSE 0) <= changes'
                 /\ row'[f].desired => row'[f].generation >= 1
      <4>1. /\ row[f].generation \in Nat
            /\ row[f].generation + (IF Eligible(row[f]) /\ ~row[f].desired THEN 1 ELSE 0) <= changes
            /\ row[f].desired => row[f].generation >= 1
            /\ changes \in Nat
        BY NextGenerationExists, ConstantsAssumption DEF IInv, GenerationsAreEarned, TypeOK
      <4>2. CASE f \in Opens
        <5>1. /\ row'[f].generation = row[f].generation + 1
              /\ row'[f].desired
          BY <2>3, <4>2, ReconciledRow DEF NextGeneration
        <5>2. Eligible(row[f]) /\ ~row[f].desired
          BY <4>2 DEF Opens
        <5> QED
          BY <1>1, <4>1, <5>1, <5>2
      <4>3. CASE f \in Closes
        <5>1. /\ row'[f].generation = row[f].generation
              /\ ~row'[f].desired
              /\ ~Eligible(row'[f])
          BY <2>3, <4>3, ReconciledRow DEF Closes
        <5>2. row[f].generation <= changes
          BY <4>1
        <5> QED
          BY <1>1, <4>1, <5>1, <5>2
      <4>4. CASE f \notin Opens /\ f \notin Closes
        <5>1. /\ row'[f].generation = row[f].generation
              /\ row'[f].desired = row[f].desired
              /\ Eligible(row'[f]) <=> Eligible(row[f])
          BY <2>3, <4>4, ReconciledRow
        <5> QED
          BY <1>1, <4>1, <5>1
      <4> QED
        BY <4>2, <4>3, <4>4
    <3> QED
      BY <3>1 DEF GenerationsAreEarned
  <2> QED
    BY <2>12, <2>17, <2>18, <2>19 DEF IInv
<1> QED
  BY <1>2, <1>3

-----------------------------------------------------------------------------
(* Steps of the dispatcher *)

\* A step that changes neither rows nor queue keeps what is said about them.
LEMMA RowsAndQueueUndisturbed ==
  ASSUME IInv, UNCHANGED <<row, outbox, changes>>
  PROVE  GenerationsAreEarned' /\ NextEventsAreMissing' /\ RowsFollowTheQueue'
  BY DEF IInv, GenerationsAreEarned, NextEventsAreMissing, RowsFollowTheQueue, LastEventOf, Eligible

LEMMA BeginPassKeepsIInv ==
  ASSUME IInv, BeginPass
  PROVE  IInv'
<1>1. TypeOK'
  BY DEF IInv, TypeOK, BeginPass
<1>2. PassHoldsPendingEvents'
  BY DEF IInv, PassHoldsPendingEvents, BeginPass
<1> QED
  BY <1>1, <1>2, RowsAndQueueUndisturbed DEF IInv, BeginPass

LEMMA PassEndsKeepsIInv ==
  ASSUME IInv, PassEnds
  PROVE  IInv'
<1>1. batch' = << >> /\ pc' = "idle"
  BY DEF PassEnds
<1>2. TypeOK'
  BY <1>1, CountersAreBounded DEF IInv, TypeOK, PassEnds
<1>3. PassHoldsPendingEvents'
  BY <1>1 DEF PassHoldsPendingEvents
<1> QED
  BY <1>2, <1>3, RowsAndQueueUndisturbed DEF IInv, PassEnds

LEMMA LoadBatchKeepsIInv ==
  ASSUME IInv, LoadBatch
  PROVE  IInv'
<1> DEFINE due == {i \in DOMAIN outbox : Due(outbox[i])}
           oldest == {i \in due : Cardinality({j \in due : j < i}) < BatchLimit}
<1>1. /\ batch' \in SetToSeqs(oldest)
      /\ pc' = IF oldest = {} THEN "idle" ELSE "send"
      /\ UNCHANGED <<row, outbox, customer, enabled, hookwise, changes, failures>>
  BY DEF LoadBatch
<1>2. IsFiniteSet(oldest) /\ oldest \subseteq DOMAIN outbox
  <2>1. outbox \in Seq(Event)
    BY DEF IInv, TypeOK
  <2>2. DOMAIN outbox = 1 .. Len(outbox) /\ Len(outbox) \in Nat
    BY <2>1, LenProperties
  <2>3. IsFiniteSet(DOMAIN outbox)
    BY <2>2, FS_Interval
  <2> QED
    BY <2>3, FS_Subset
<1>3. \A i \in oldest : outbox[i].state = "pending"
  BY DEF Due
<1> HIDE DEF oldest
<1>4. /\ batch' \in Seq(oldest)
      /\ Len(batch') = Cardinality(oldest)
      /\ \A i, j \in 1 .. Len(batch') : batch'[i] = batch'[j] => i = j
  BY <1>1, <1>2, OrdersOfFiniteSet
<1>5. /\ DOMAIN batch' = 1 .. Len(batch')
      /\ \A m \in DOMAIN batch' : batch'[m] \in oldest
  BY <1>4, LenProperties, ElementOfSeq
<1>6. oldest # {} => batch' # << >>
  <2>1. Cardinality(oldest) = 0 <=> oldest = {}
    BY <1>2, FS_EmptySet
  <2> QED
    BY <1>4, <2>1, EmptySeq
<1>7. TypeOK'
  <2>1. batch' \in Seq(DOMAIN outbox)
    BY <1>2, <1>4, SeqMonotonic
  <2> QED
    BY <1>1, <2>1 DEF IInv, TypeOK
<1>8. PassHoldsPendingEvents'
  BY <1>1, <1>3, <1>4, <1>5, <1>6 DEF PassHoldsPendingEvents
<1> QED
  BY <1>1, <1>7, <1>8, RowsAndQueueUndisturbed DEF IInv

\* The event that a sending or marking dispatcher is at.
LEMMA CurrentEvent ==
  ASSUME IInv, pc \in {"send", "accepted", "refused"}
  PROVE  /\ batch # << >>
         /\ Head(batch) \in DOMAIN outbox
         /\ Current \in Event
         /\ Current.state = "pending"
         /\ Current.finding \in Findings
         /\ Current.generation \in Generations
         /\ Current.type \in EventTypes
         /\ Tail(batch) \in Seq(DOMAIN outbox)
         /\ DOMAIN batch = 1 .. Len(batch)
         /\ DOMAIN Tail(batch) = 1 .. Len(batch) - 1
         /\ Len(batch) \in Nat \ {0}
         /\ Head(batch) = batch[1]
         /\ \A m \in DOMAIN Tail(batch) : Tail(batch)[m] = batch[m + 1]
<1>1. batch # << >> /\ batch \in Seq(DOMAIN outbox) /\ outbox \in Seq(Event)
  BY DEF IInv, TypeOK, PassHoldsPendingEvents
<1>2. /\ Head(batch) \in DOMAIN outbox
      /\ Tail(batch) \in Seq(DOMAIN outbox)
      /\ Len(Tail(batch)) = Len(batch) - 1
      /\ \A m \in 1 .. Len(Tail(batch)) : Tail(batch)[m] = batch[m + 1]
  BY <1>1, HeadTailProperties
<1>3. /\ DOMAIN batch = 1 .. Len(batch)
      /\ Len(batch) \in Nat \ {0}
      /\ DOMAIN Tail(batch) = 1 .. Len(batch) - 1
  BY <1>1, <1>2, LenProperties, EmptySeq
<1>4. Head(batch) = batch[1] /\ 1 \in DOMAIN batch
  BY <1>1, <1>3
<1>5. Current \in Event /\ Current.finding \in Findings
  BY <1>1, <1>2, QueuedEvents DEF Current
<1>6. Current.state = "pending"
  BY <1>4 DEF IInv, PassHoldsPendingEvents, Current
<1>7. Current.generation \in Generations /\ Current.type \in EventTypes
  BY <1>5, EventFields
<1> QED
  BY <1>1, <1>2, <1>3, <1>4, <1>5, <1>6, <1>7

LEMMA AcceptTypes ==
  ASSUME IInv, pc = "send", Accept
  PROVE  /\ hookwise' \in [Findings -> [Generations -> EventTypes \union {"none"}]]
         /\ hookwise'[Current.finding][Current.generation] = Current.type
<1>1. /\ Current.finding \in Findings
      /\ Current.generation \in Generations
      /\ Current.type \in EventTypes
  BY CurrentEvent
<1>2. hookwise \in [Findings -> [Generations -> EventTypes \union {"none"}]]
  BY DEF IInv, TypeOK
<1> DEFINE f == Current.finding
           g == Current.generation
           t == Current.type
<1>3. hookwise' = [hookwise EXCEPT ![f] = [hookwise[f] EXCEPT ![g] = t]]
  BY DEF Accept
<1> HIDE DEF f, g, t
<1>4. f \in Findings /\ g \in Generations /\ t \in EventTypes
  BY <1>1 DEF f, g, t
<1>5. hookwise' \in [Findings -> [Generations -> EventTypes \union {"none"}]]
  BY <1>2, <1>3, <1>4
<1>6. hookwise'[f][g] = t
  BY <1>2, <1>3, <1>4
<1> QED
  BY <1>5, <1>6 DEF f, g, t

LEMMA SendsKeepIInv ==
  ASSUME IInv, SendAccepted \/ SendRefused \/ AnswerLost
  PROVE  IInv'
<1>1. pc = "send" /\ pc' \in {"accepted", "refused"}
      /\ UNCHANGED <<row, outbox, customer, enabled, batch, changes>>
  BY DEF SendAccepted, SendRefused, AnswerLost
<1>2. Current' = Current
  BY <1>1 DEF Current
<1>3. /\ hookwise' \in [Findings -> [Generations -> EventTypes \union {"none"}]]
      /\ pc' = "accepted" => hookwise'[Current.finding][Current.generation] = Current.type
  <2>1. CASE SendAccepted
    BY <2>1, AcceptTypes DEF SendAccepted
  <2>2. CASE SendRefused
    BY <2>2 DEF SendRefused, IInv, TypeOK
  <2>3. CASE AnswerLost
    BY <2>3, AcceptTypes DEF AnswerLost
  <2> QED
    BY <2>1, <2>2, <2>3
<1>4. failures' \in 0 .. MaxFailures
  BY CountersAreBounded DEF IInv, TypeOK, SendAccepted, SendRefused, AnswerLost
<1>5. TypeOK'
  BY <1>1, <1>3, <1>4 DEF IInv, TypeOK
<1>6. PassHoldsPendingEvents'
  BY <1>1, <1>2, <1>3 DEF IInv, PassHoldsPendingEvents
<1> QED
  BY <1>1, <1>5, <1>6, RowsAndQueueUndisturbed DEF IInv

\* Marking the event at the head of the batch, whatever is stored about it.
LEMMA MarksKeepIInv ==
  ASSUME IInv, MarkDelivered \/ MarkFailed
  PROVE  IInv'
<1> DEFINE h == Head(batch)
<1>1. pc \in {"accepted", "refused"}
      /\ UNCHANGED <<customer, enabled, hookwise, changes, failures>>
      /\ batch' = Tail(batch)
      /\ pc' = IF Tail(batch) = << >> THEN "idle" ELSE "send"
  BY DEF MarkDelivered, MarkFailed, NextInBatch
<1>2. /\ h \in DOMAIN outbox
      /\ outbox[h] \in Event
      /\ outbox \in Seq(Event)
      /\ Current.finding \in Findings
  BY <1>1, CurrentEvent DEF Current, IInv, TypeOK
<1>3. PICK d \in Event : /\ outbox' = [outbox EXCEPT ![h] = d]
                         /\ d.finding = outbox[h].finding
                         /\ d.generation = outbox[h].generation
                         /\ d.type = outbox[h].type
  <2>1. CASE MarkDelivered
    <3> DEFINE d == [outbox[h] EXCEPT !.state = "delivered", !.tried = TRUE]
    <3>1. outbox' = [outbox EXCEPT ![h] = d]
      BY <1>2, <2>1 DEF MarkDelivered
    <3>2. /\ d \in Event
          /\ d.finding = outbox[h].finding
          /\ d.generation = outbox[h].generation
          /\ d.type = outbox[h].type
      BY <1>2 DEF Event
    <3> QED
      BY <3>1, <3>2
  <2>2. CASE MarkFailed
    <3> DEFINE d == [outbox[h] EXCEPT !.tried = TRUE, !.due = FALSE]
    <3>1. outbox' = [outbox EXCEPT ![h] = d]
      BY <1>2, <2>2 DEF MarkFailed
    <3>2. /\ d \in Event
          /\ d.finding = outbox[h].finding
          /\ d.generation = outbox[h].generation
          /\ d.type = outbox[h].type
      BY <1>2 DEF Event
    <3> QED
      BY <3>1, <3>2
  <2> QED
    BY <2>1, <2>2
<1>4. PICK ticket \in TicketStates : Show(ticket)
  BY DEF MarkDelivered, MarkFailed, TicketStates
<1> HIDE DEF h
<1>5. /\ outbox' \in Seq(Event)
      /\ DOMAIN outbox' = DOMAIN outbox
      /\ \A i \in DOMAIN outbox :
             /\ outbox'[i].finding = outbox[i].finding
             /\ outbox'[i].generation = outbox[i].generation
             /\ outbox'[i].type = outbox[i].type
      /\ \A i \in DOMAIN outbox : i # h => outbox'[i] = outbox[i]
  BY <1>2, <1>3, ExceptSeq, LenProperties
<1>6. ASSUME NEW f \in Findings
      PROVE  /\ row'[f] \in Row
             /\ row'[f].generation = row[f].generation
             /\ row'[f].desired = row[f].desired
             /\ Eligible(row'[f]) <=> Eligible(row[f])
  <2>1. row[f] \in Row /\ row \in [Findings -> Row]
    BY DEF IInv, TypeOK
  <2>2. PICK t \in TicketStates : row'[f] = [row[f] EXCEPT !.ticket = t] \/ row'[f] = row[f]
    <3> DEFINE c == Current.finding
               t == IF row[c].generation = Current.generation THEN ticket ELSE row[c].ticket
    <3>1. row' = [row EXCEPT ![c] = [row[c] EXCEPT !.ticket = t]]
      BY <1>4 DEF Show
    <3>2. row[c] \in Row
      BY <1>2, <2>1
    <3>3. t \in TicketStates
      BY <3>2 DEF Row
    <3> HIDE DEF c, t
    <3>4. row'[f] = [row[f] EXCEPT !.ticket = t] \/ row'[f] = row[f]
      BY <2>1, <3>1
    <3> QED
      BY <3>3, <3>4
  <2>3. /\ row'[f] \in Row
        /\ row'[f].generation = row[f].generation
        /\ Eligible(row'[f]) <=> Eligible(row[f])
    BY <2>1, <2>2 DEF Row, Eligible
  <2>4. row'[f].desired = row[f].desired
    BY <2>1, <2>2, Zenon DEF Row
  <2> QED
    BY <2>3, <2>4
<1>7. row' \in [Findings -> Row]
  BY <1>4, <1>6 DEF Show, IInv, TypeOK
<1>8. NextEventsAreMissing' /\ RowsFollowTheQueue'
  BY <1>2, <1>5, <1>6, NothingQueued DEF IInv
<1>9. GenerationsAreEarned'
  BY <1>1, <1>6 DEF IInv, GenerationsAreEarned
<1>10. /\ Tail(batch) \in Seq(DOMAIN outbox)
       /\ DOMAIN batch = 1 .. Len(batch)
       /\ DOMAIN Tail(batch) = 1 .. Len(batch) - 1
       /\ Len(batch) \in Nat \ {0}
       /\ h = batch[1]
       /\ \A m \in DOMAIN Tail(batch) : Tail(batch)[m] = batch[m + 1]
  BY <1>1, CurrentEvent DEF h
<1>11. TypeOK'
  BY <1>1, <1>5, <1>7, <1>10 DEF IInv, TypeOK
<1>12. PassHoldsPendingEvents'
  <2>1. ASSUME NEW m \in DOMAIN batch'
        PROVE  /\ outbox'[batch'[m]].state = "pending"
               /\ \A n \in DOMAIN batch' : batch'[m] = batch'[n] => m = n
    <3>1. /\ m + 1 \in DOMAIN batch /\ 1 \in DOMAIN batch /\ m + 1 # 1
          /\ \A n \in DOMAIN batch' : n + 1 \in DOMAIN batch /\ batch'[n] = batch[n + 1]
          /\ m \in Nat /\ DOMAIN batch' \subseteq Nat
      BY <1>1, <1>10
    <3>2. /\ outbox[batch[m + 1]].state = "pending"
          /\ batch[m + 1] # batch[1]
          /\ \A n \in DOMAIN batch : batch[m + 1] = batch[n] => m + 1 = n
      BY <3>1 DEF IInv, PassHoldsPendingEvents
    <3>3. batch[m + 1] \in DOMAIN outbox
      BY <3>1 DEF IInv, TypeOK
    <3>4. outbox'[batch'[m]].state = "pending"
      BY <1>5, <1>10, <3>1, <3>2, <3>3
    <3>5. ASSUME NEW n \in DOMAIN batch', batch'[m] = batch'[n] PROVE m = n
      <4>1. m + 1 = n + 1
        BY <3>1, <3>2, <3>5
      <4> QED
        BY <3>1, <4>1
    <3> QED
      BY <3>4, <3>5
  <2> QED
    BY <1>1, <2>1 DEF PassHoldsPendingEvents
<1> QED
  BY <1>8, <1>9, <1>11, <1>12 DEF IInv

LEMMA StepKeepsIInv == IInv /\ [Next]_vars => IInv'
<1> SUFFICES ASSUME IInv, [Next]_vars PROVE IInv'
  OBVIOUS
<1>1. CASE Change
  BY <1>1, ImportKeepsIInv, AnnotateKeepsIInv, EditsKeepIInv, RetryKeepsIInv,
     RetryFindingKeepsIInv, RecreateFindingKeepsIInv DEF Change
<1>2. CASE Dispatch
  BY <1>2, BeginPassKeepsIInv, ReconcileKeepsIInv, LoadBatchKeepsIInv, SendsKeepIInv,
     MarksKeepIInv DEF Dispatch
<1>3. CASE Failure
  BY <1>3, SendsKeepIInv, PassEndsKeepsIInv DEF Failure
<1>4. CASE \E i \in DOMAIN outbox : BackoffEnds(i)
  BY <1>4, BackoffEndsKeepsIInv
<1>5. CASE UNCHANGED vars
  <2>1. UNCHANGED <<row, outbox, customer, enabled, pc, batch, hookwise, changes, failures>>
    BY <1>5 DEF vars
  <2>2. TypeOK'
    BY <2>1 DEF IInv, TypeOK
  <2>3. PassHoldsPendingEvents'
    BY <2>1 DEF IInv, PassHoldsPendingEvents, Current
  <2> QED
    BY <2>1, <2>2, <2>3, RowsAndQueueUndisturbed DEF IInv
<1> QED
  BY <1>1, <1>2, <1>3, <1>4, <1>5 DEF Next

LEMMA IInvHolds == Spec => []IInv
  BY InitEstablishesIInv, StepKeepsIInv, PTL DEF Spec

-----------------------------------------------------------------------------
(* The life of a ticket *)

\* Later events of a finding have later generations, or close the ticket of the
\* same one.
EventsInOrder ==
    \A i, j \in DOMAIN outbox :
        j < i /\ outbox[j].finding = outbox[i].finding =>
            /\ outbox[j].generation <= outbox[i].generation
            /\ outbox[i].type = "open" => outbox[j].generation < outbox[i].generation

\* A ticket that is wanted and shown as open was delivered.
ShownAsDelivered ==
    \A f \in Findings, i \in DOMAIN outbox :
        LastEventOf(f, i) /\ row[f].desired /\ row[f].ticket = "open" =>
            outbox[i].state = "delivered"

LifeInv ==
    /\ EventsInOrder
    /\ OneLifePerGeneration
    /\ ShownAsDelivered

LEMMA InitEstablishesLifeInv == Init => LifeInv
  BY DEF Init, LifeInv, EventsInOrder, OneLifePerGeneration, ShownAsDelivered

\* Events that keep their keys, and stay delivered once they are, keep their order.
LEMMA OrderUndisturbed ==
  ASSUME EventsInOrder, OneLifePerGeneration,
         DOMAIN outbox' = DOMAIN outbox,
         \A i \in DOMAIN outbox :
             /\ outbox'[i].finding = outbox[i].finding
             /\ outbox'[i].generation = outbox[i].generation
             /\ outbox'[i].type = outbox[i].type
             /\ outbox[i].state = "delivered" => outbox'[i].state = "delivered"
  PROVE  EventsInOrder' /\ OneLifePerGeneration'
<1>1. EventsInOrder'
  BY DEF EventsInOrder
<1>2. ASSUME NEW i \in DOMAIN outbox', NEW j \in DOMAIN outbox', Precedes(j, i)'
      PROVE  Precedes(j, i)
  BY <1>2 DEF Precedes
<1>3. ASSUME NEW i \in DOMAIN outbox',
             \A j \in DOMAIN outbox' : j < i => outbox'[j].finding # outbox'[i].finding
      PROVE  outbox'[i].generation = 1 /\ outbox'[i].type = "open"
  <2>1. \A j \in DOMAIN outbox : j < i => outbox[j].finding # outbox[i].finding
    BY <1>3
  <2> QED
    BY <2>1 DEF OneLifePerGeneration
<1>4. ASSUME NEW i \in DOMAIN outbox', NEW j \in DOMAIN outbox', Precedes(j, i)'
      PROVE  IF outbox'[i].type = "closed"
             THEN outbox'[j].type = "open" /\ outbox'[j].generation = outbox'[i].generation
             ELSE /\ outbox'[j].generation + 1 = outbox'[i].generation
                  /\ outbox'[j].type = "open" => outbox'[j].state = "delivered"
  <2>1. Precedes(j, i)
    BY <1>2, <1>4
  <2> QED
    BY <2>1 DEF OneLifePerGeneration
<1> QED
  BY <1>1, <1>3, <1>4 DEF OneLifePerGeneration

\* So do tickets while no row begins to show one as open.
LEMMA LifeUndisturbed ==
  ASSUME LifeInv,
         DOMAIN outbox' = DOMAIN outbox,
         \A i \in DOMAIN outbox :
             /\ outbox'[i].finding = outbox[i].finding
             /\ outbox'[i].generation = outbox[i].generation
             /\ outbox'[i].type = outbox[i].type
             /\ outbox[i].state = "delivered" => outbox'[i].state = "delivered",
         \A f \in Findings :
             /\ row'[f].desired = row[f].desired
             /\ row'[f].ticket = "open" => row[f].ticket = "open"
  PROVE  LifeInv'
<1>1. EventsInOrder' /\ OneLifePerGeneration'
  BY OrderUndisturbed DEF LifeInv
<1>2. ASSUME NEW f \in Findings, NEW i \in DOMAIN outbox',
             LastEventOf(f, i)', row'[f].desired, row'[f].ticket = "open"
      PROVE  outbox'[i].state = "delivered"
  <2>1. LastEventOf(f, i)
    BY <1>2 DEF LastEventOf
  <2> QED
    BY <1>2, <2>1 DEF LifeInv, ShownAsDelivered
<1>3. ShownAsDelivered'
  BY <1>2 DEF ShownAsDelivered
<1> QED
  BY <1>1, <1>3 DEF LifeInv

\* The event queued last for a finding precedes the next one that is queued.
LEMMA LastPrecedes ==
  ASSUME NEW n \in Nat, DOMAIN outbox = 1 .. n, NEW i \in Nat, i > n,
         \A k \in 1 .. n : outbox'[k] = outbox[k],
         NEW j \in 1 .. n, Precedes(j, i)', DOMAIN outbox' = 1 .. Len(outbox'),
         Len(outbox') \in Nat, n <= Len(outbox')
  PROVE  LastEventOf(outbox'[i].finding, j)
<1>1. /\ outbox[j].finding = outbox'[i].finding
      /\ \A k \in DOMAIN outbox' : j < k /\ k < i => outbox'[k].finding # outbox'[i].finding
  BY DEF Precedes
<1>2. ASSUME NEW k \in DOMAIN outbox, k > j PROVE outbox[k].finding # outbox'[i].finding
  <2>1. k \in DOMAIN outbox' /\ j < k /\ k < i /\ outbox'[k] = outbox[k]
    BY <1>2
  <2> QED
    BY <1>1, <2>1
<1> QED
  BY <1>1, <1>2 DEF LastEventOf

\* A step that queues at most one event for a finding, which the finding may
\* queue next, keeps the life of tickets: a new ticket is wanted while one still
\* is only when that one is shown as open.
LEMMA QueuedInOrder ==
  ASSUME IInv, LifeInv,
         NEW events \in SUBSET Event, IsFiniteSet(events), Enqueue(events),
         \A e \in events :
             /\ NextEventOf(e)
             /\ e.type = "open" /\ row[e.finding].desired => row[e.finding].ticket = "open"
             /\ row'[e.finding].ticket # "open",
         \A e, d \in events : e.finding = d.finding => e = d,
         \A f \in Findings :
             (\A e \in events : e.finding # f) =>
                 /\ row'[f].desired = row[f].desired
                 /\ row'[f].ticket = "open" => row[f].ticket = "open"
  PROVE  LifeInv'
<1> DEFINE n == Len(outbox)
<1>1. /\ outbox' \in Seq(Event)
      /\ n \in Nat /\ Len(outbox') \in Nat /\ n <= Len(outbox')
      /\ DOMAIN outbox = 1 .. n
      /\ DOMAIN outbox' = 1 .. Len(outbox')
      /\ \A i \in 1 .. n : outbox'[i] = outbox[i]
      /\ \A i \in 1 .. Len(outbox') : i > n => outbox'[i] \in events
      /\ \A e \in events : \E i \in 1 .. Len(outbox') : i > n /\ outbox'[i] = e
      /\ \A i, j \in 1 .. Len(outbox') :
             i > n /\ j > n /\ outbox'[i] = outbox'[j] => i = j
  BY QueuedBehind DEF IInv
<1>2. /\ \A i \in 1 .. n : outbox[i] \in Event /\ outbox[i].generation \in Nat
      /\ \A f \in Findings : row[f].generation \in Nat
      /\ \A e \in events : e.finding \in Findings /\ e.generation \in Nat /\ e.type \in EventTypes
  BY <1>1, QueuedEvents, EventFields, NextGenerationExists DEF IInv, TypeOK
<1> HIDE DEF n
\* Behind an event that is new there is none of its finding.
<1>3. ASSUME NEW i \in 1 .. Len(outbox'), i > n,
             NEW j \in 1 .. Len(outbox'), j # i, outbox'[j].finding = outbox'[i].finding
      PROVE  j \in 1 .. n
  <2>1. CASE j > n
    <3>1. outbox'[i] \in events /\ outbox'[j] \in events
      BY <1>1, <1>3, <2>1
    <3>2. outbox'[i] = outbox'[j]
      BY <1>3, <3>1
    <3> QED
      BY <1>1, <1>3, <2>1, <3>2
  <2> QED
    BY <1>1, <2>1
<1>4. EventsInOrder'
  <2>1. ASSUME NEW i \in 1 .. Len(outbox'), NEW j \in 1 .. Len(outbox'),
               j < i, outbox'[j].finding = outbox'[i].finding
        PROVE  /\ outbox'[j].generation <= outbox'[i].generation
               /\ outbox'[i].type = "open" => outbox'[j].generation < outbox'[i].generation
    <3>1. CASE i > n
      <4>1. j \in 1 .. n /\ outbox'[j] = outbox[j]
        BY <1>1, <1>3, <2>1, <3>1
      <4>2. PICK e \in events : outbox'[i] = e
        BY <1>1, <3>1
      <4>3. outbox[j].generation <= row[e.finding].generation
        BY <1>1, <2>1, <4>1, <4>2 DEF IInv, NextEventsAreMissing
      <4>4. NextEventOf(e)
        OBVIOUS
      <4> QED
        BY <1>2, <4>1, <4>2, <4>3, <4>4 DEF NextEventOf
    <3>2. CASE i <= n
      <4>1. i \in DOMAIN outbox /\ j \in DOMAIN outbox
            /\ outbox'[i] = outbox[i] /\ outbox'[j] = outbox[j]
        BY <1>1, <2>1, <3>2
      <4> QED
        BY <2>1, <4>1 DEF LifeInv, EventsInOrder
    <3> QED
      BY <1>1, <3>1, <3>2
  <2> QED
    BY <1>1, <2>1 DEF EventsInOrder
<1>5. ASSUME NEW i \in 1 .. Len(outbox'), i > n
      PROVE  /\ (\A j \in 1 .. Len(outbox') : j < i => outbox'[j].finding # outbox'[i].finding) =>
                    outbox'[i].generation = 1 /\ outbox'[i].type = "open"
             /\ \A j \in 1 .. Len(outbox') : Precedes(j, i)' =>
                    IF outbox'[i].type = "closed"
                    THEN /\ outbox'[j].type = "open"
                         /\ outbox'[j].generation = outbox'[i].generation
                    ELSE /\ outbox'[j].generation + 1 = outbox'[i].generation
                         /\ outbox'[j].type = "open" => outbox'[j].state = "delivered"
  <2>1. PICK e \in events : outbox'[i] = e
    BY <1>1, <1>5
  <2> DEFINE f == e.finding
  <2>2. /\ NextEventOf(e)
        /\ e.type = "open" /\ row[f].desired => row[f].ticket = "open"
        /\ f \in Findings
    BY <1>2
  <2>3. ASSUME \A j \in 1 .. Len(outbox') : j < i => outbox'[j].finding # f
        PROVE  e.generation = 1 /\ e.type = "open"
    <3>1. \A j \in DOMAIN outbox : outbox[j].finding # f
      <4>1. ASSUME NEW j \in DOMAIN outbox PROVE outbox[j].finding # f
        <5>1. j \in 1 .. Len(outbox') /\ j < i /\ outbox'[j] = outbox[j]
          BY <1>1, <1>5, <4>1
        <5> QED
          BY <2>3, <5>1
      <4> QED
        BY <4>1
    <3>2. row[f].generation = 0 /\ ~row[f].desired
      BY <2>2, <3>1 DEF IInv, RowsFollowTheQueue
    <3> QED
      BY <2>2, <3>2 DEF NextEventOf
  <2>4. ASSUME NEW j \in 1 .. Len(outbox'), Precedes(j, i)'
        PROVE  IF e.type = "closed"
               THEN outbox'[j].type = "open" /\ outbox'[j].generation = e.generation
               ELSE /\ outbox'[j].generation + 1 = e.generation
                    /\ outbox'[j].type = "open" => outbox'[j].state = "delivered"
    <3>1. j < i /\ outbox'[j].finding = outbox'[i].finding
      BY <2>4 DEF Precedes
    <3>2. j \in 1 .. n
      BY <1>1, <1>3, <1>5, <3>1
    <3>3. outbox'[j] = outbox[j] /\ j \in DOMAIN outbox /\ i \in Nat
      BY <1>1, <3>2
    <3>4. LastEventOf(f, j)
      BY <1>1, <1>5, <2>1, <2>4, <3>2, <3>3, LastPrecedes
    <3>5. /\ row[f].generation = outbox[j].generation
          /\ row[f].desired = (outbox[j].type = "open")
      BY <2>2, <3>3, <3>4 DEF IInv, RowsFollowTheQueue
    <3>6. row[f].desired /\ row[f].ticket = "open" => outbox[j].state = "delivered"
      BY <2>2, <3>3, <3>4 DEF LifeInv, ShownAsDelivered
    <3>7. e.type \in {"open", "closed"}
      BY <1>2 DEF EventTypes
    <3>8. CASE e.type = "closed"
      <4>1. row[f].desired /\ e.generation = row[f].generation
        BY <2>2, <3>8 DEF NextEventOf
      <4> QED
        BY <3>3, <3>5, <3>8, <4>1
    <3>9. CASE e.type = "open"
      <4>1. e.generation = row[f].generation + 1
        BY <2>2, <3>9 DEF NextEventOf
      <4>2. outbox[j].type = "open" => outbox[j].state = "delivered"
        BY <2>2, <3>5, <3>6, <3>9
      <4> QED
        BY <3>3, <3>5, <3>9, <4>1, <4>2
    <3> QED
      BY <3>7, <3>8, <3>9
  <2> QED
    BY <2>1, <2>3, <2>4
<1>6. ASSUME NEW i \in 1 .. n
      PROVE  /\ (\A j \in 1 .. Len(outbox') : j < i => outbox'[j].finding # outbox'[i].finding) =>
                    outbox'[i].generation = 1 /\ outbox'[i].type = "open"
             /\ \A j \in 1 .. Len(outbox') : Precedes(j, i)' =>
                    IF outbox'[i].type = "closed"
                    THEN /\ outbox'[j].type = "open"
                         /\ outbox'[j].generation = outbox'[i].generation
                    ELSE /\ outbox'[j].generation + 1 = outbox'[i].generation
                         /\ outbox'[j].type = "open" => outbox'[j].state = "delivered"
  <2>1. i \in DOMAIN outbox /\ outbox'[i] = outbox[i]
    BY <1>1
  <2>2. ASSUME \A j \in 1 .. Len(outbox') : j < i => outbox'[j].finding # outbox'[i].finding
        PROVE  outbox'[i].generation = 1 /\ outbox'[i].type = "open"
    <3>1. \A j \in DOMAIN outbox : j < i => outbox[j].finding # outbox[i].finding
      BY <1>1, <2>1, <2>2
    <3> QED
      BY <2>1, <3>1 DEF LifeInv, OneLifePerGeneration
  <2>3. ASSUME NEW j \in 1 .. Len(outbox'), Precedes(j, i)'
        PROVE  j \in DOMAIN outbox /\ Precedes(j, i) /\ outbox'[j] = outbox[j]
    <3>1. /\ j < i
          /\ outbox'[j].finding = outbox'[i].finding
          /\ \A k \in 1 .. Len(outbox') : j < k /\ k < i => outbox'[k].finding # outbox'[i].finding
      BY <1>1, <2>3 DEF Precedes
    <3>2. j \in DOMAIN outbox /\ outbox'[j] = outbox[j]
      BY <1>1, <3>1
    <3>3. ASSUME NEW k \in DOMAIN outbox, j < k, k < i
          PROVE  outbox[k].finding # outbox[i].finding
      <4>1. k \in 1 .. Len(outbox') /\ outbox'[k] = outbox[k]
        BY <1>1
      <4> QED
        BY <2>1, <3>1, <3>3, <4>1
    <3> QED
      BY <2>1, <3>1, <3>2, <3>3 DEF Precedes
  <2>4. ASSUME NEW j \in 1 .. Len(outbox'), Precedes(j, i)'
        PROVE  IF outbox'[i].type = "closed"
               THEN /\ outbox'[j].type = "open"
                    /\ outbox'[j].generation = outbox'[i].generation
               ELSE /\ outbox'[j].generation + 1 = outbox'[i].generation
                    /\ outbox'[j].type = "open" => outbox'[j].state = "delivered"
    <3>1. j \in DOMAIN outbox /\ Precedes(j, i) /\ outbox'[j] = outbox[j]
      BY <2>3, <2>4
    <3> QED
      BY <2>1, <3>1 DEF LifeInv, OneLifePerGeneration
  <2> QED
    BY <2>2, <2>4
<1>7. OneLifePerGeneration'
  <2>1. ASSUME NEW i \in DOMAIN outbox'
        PROVE  /\ (\A j \in DOMAIN outbox' : j < i => outbox'[j].finding # outbox'[i].finding) =>
                      outbox'[i].generation = 1 /\ outbox'[i].type = "open"
               /\ \A j \in DOMAIN outbox' : Precedes(j, i)' =>
                      IF outbox'[i].type = "closed"
                      THEN /\ outbox'[j].type = "open"
                           /\ outbox'[j].generation = outbox'[i].generation
                      ELSE /\ outbox'[j].generation + 1 = outbox'[i].generation
                           /\ outbox'[j].type = "open" => outbox'[j].state = "delivered"
    <3>1. CASE i > n
      BY <1>1, <1>5, <3>1
    <3>2. CASE i \in 1 .. n
      BY <1>1, <1>6, <3>2
    <3> QED
      BY <1>1, <3>1, <3>2
  <2> QED
    BY <2>1 DEF OneLifePerGeneration
<1>8. ShownAsDelivered'
  <2>1. ASSUME NEW f \in Findings, NEW i \in 1 .. Len(outbox'), LastEventOf(f, i)',
               row'[f].desired, row'[f].ticket = "open"
        PROVE  outbox'[i].state = "delivered"
    <3>1. \A e \in events : e.finding # f
      BY <2>1
    <3>2. /\ outbox'[i].finding = f
          /\ \A j \in 1 .. Len(outbox') : j > i => outbox'[j].finding # f
      BY <1>1, <2>1 DEF LastEventOf
    <3>3. i \in 1 .. n
      BY <1>1, <3>1, <3>2
    <3>4. i \in DOMAIN outbox /\ outbox'[i] = outbox[i] /\ LastEventOf(f, i)
      BY <1>1, <3>2, <3>3 DEF LastEventOf
    <3> QED
      BY <2>1, <3>1, <3>4 DEF LifeInv, ShownAsDelivered
  <2> QED
    BY <1>1, <2>1 DEF ShownAsDelivered
<1> QED
  BY <1>4, <1>7, <1>8 DEF LifeInv

LEMMA RecreateFindingKeepsLifeInv ==
  ASSUME IInv, LifeInv, NEW f \in Findings, RecreateFinding(f)
  PROVE  LifeInv'
<1> DEFINE g == NextGeneration(row[f])
           e == NewEvent(f, g, "open")
<1>1. /\ Enqueue({e})
      /\ row' = [row EXCEPT ![f] = Queued(row[f], g, "open")]
      /\ row[f].desired /\ row[f].ticket = "open"
      /\ changes < MaxChanges
  BY DEF RecreateFinding, Changed
<1>2. g \in Generations /\ row[f] \in Row /\ row \in [Findings -> Row] /\ "open" \in EventTypes
  BY <1>1, NextGenerationExists DEF IInv, TypeOK, EventTypes
<1>3. e \in Event /\ e.finding = f /\ e.generation = g /\ e.type = "open"
  BY <1>2, NewEventFields
<1>4. row'[f].ticket = "queued_open" /\ \A h \in Findings : h # f => row'[h] = row[h]
  BY <1>1, <1>2 DEF Queued, Row
<1>5. {e} \in SUBSET Event /\ IsFiniteSet({e})
  BY <1>3, FS_Singleton
<1>6. NextEventOf(e)
  BY <1>3 DEF NextEventOf, NextGeneration
<1> HIDE DEF e, g
<1>7. \A d \in {e} : /\ NextEventOf(d)
                     /\ d.type = "open" /\ row[d.finding].desired => row[d.finding].ticket = "open"
                     /\ row'[d.finding].ticket # "open"
  BY <1>1, <1>3, <1>4, <1>6
<1>8. \A h \in Findings : (\A d \in {e} : d.finding # h) => row'[h] = row[h]
  BY <1>3, <1>4
<1>9. \A d, c \in {e} : d.finding = c.finding => d = c
  OBVIOUS
<1> QED
  BY <1>1, <1>5, <1>7, <1>8, <1>9, QueuedInOrder

LEMMA ReconcileKeepsLifeInv ==
  ASSUME IInv, LifeInv, Reconcile
  PROVE  LifeInv'
<1>1. CASE UNCHANGED <<row, outbox>>
  BY <1>1, LifeUndisturbed
<1>2. CASE ~UNCHANGED <<row, outbox>>
  <2> DEFINE opens == {NewEvent(f, NextGeneration(row[f]), "open") : f \in Opens}
             closes == {NewEvent(f, row[f].generation, "closed") : f \in Closes}
  <2>1. /\ Enqueue(opens \union closes)
        /\ row' = [f \in Findings |-> Reconciled(f)]
    BY <1>2 DEF Reconcile
  <2>2. /\ IsFiniteSet(opens \union closes)
        /\ \A e \in opens : /\ e \in Event
                            /\ e.finding \in Opens
                            /\ e = NewEvent(e.finding, NextGeneration(row[e.finding]), "open")
        /\ \A e \in closes : /\ e \in Event
                             /\ e.finding \in Closes
                             /\ e = NewEvent(e.finding, row[e.finding].generation, "closed")
    BY ReconcileEvents
  <2>3. /\ \A f \in Opens : \E e \in opens : e.finding = f
        /\ \A f \in Closes : \E e \in closes : e.finding = f
    <3>1. \A f \in Findings : \A g, type : NewEvent(f, g, type).finding = f
      BY DEF NewEvent
    <3>2. Opens \subseteq Findings /\ Closes \subseteq Findings
      BY DEF Opens, Closes
    <3> QED
      BY <3>1, <3>2
  <2> HIDE DEF opens, closes
  <2>4. Opens \cap Closes = {} /\ Opens \subseteq Findings /\ Closes \subseteq Findings
    BY DEF Opens, Closes
  <2>5. ASSUME NEW f \in Findings
        PROVE  /\ row'[f] = Reconciled(f)
               /\ f \in Opens => row'[f].ticket = "queued_open"
               /\ f \in Closes => row'[f].ticket = "queued_close"
               /\ f \notin Opens /\ f \notin Closes =>
                      /\ row'[f].desired = row[f].desired
                      /\ row'[f].ticket = "open" => row[f].ticket = "open"
    <3>1. row'[f] = Reconciled(f) /\ row[f] \in Row
      BY <2>1, NextGenerationExists
    <3>2. CASE f \in Opens
      <4>1. row'[f] = Queued(row[f], NextGeneration(row[f]), "open")
        BY <2>4, <3>1, <3>2 DEF Reconciled, Opens, Closes
      <4>2. row'[f].ticket = "queued_open"
        BY <3>1, <4>1 DEF Queued, Row
      <4> QED
        BY <2>4, <3>1, <3>2, <4>2
    <3>3. CASE f \in Closes
      <4>1. row'[f] = Queued(row[f], row[f].generation, "closed")
        BY <2>4, <3>1, <3>3 DEF Reconciled, Opens, Closes
      <4>2. row'[f].ticket = "queued_close"
        BY <3>1, <4>1 DEF Queued, Row
      <4> QED
        BY <2>4, <3>1, <3>3, <4>2
    <3>4. CASE f \notin Opens /\ f \notin Closes
      <4>1. \/ row'[f] = [row[f] EXCEPT !.ticket = "blocked"]
            \/ row'[f] = [row[f] EXCEPT !.ticket = "none"]
            \/ row'[f] = row[f]
        BY <3>1, <3>4 DEF Reconciled
      <4>2. row'[f].ticket = "open" => row[f].ticket = "open"
        BY <3>1, <4>1 DEF Row
      <4> QED
        BY <3>1, <3>4, <4>2, ReconciledRow
    <3> QED
      BY <3>2, <3>3, <3>4
  <2>6. ASSUME NEW e \in opens
        PROVE  /\ e.type = "open" /\ e.generation = row[e.finding].generation + 1
               /\ e.finding \in Opens /\ e.finding \in Findings
    BY <2>2, <2>4 DEF NewEvent, NextGeneration
  <2>7. ASSUME NEW e \in closes
        PROVE  /\ e.type = "closed" /\ e.generation = row[e.finding].generation
               /\ e.finding \in Closes /\ e.finding \in Findings
    BY <2>2, <2>4 DEF NewEvent
  <2>8. ASSUME NEW e \in opens \union closes
        PROVE  /\ NextEventOf(e)
               /\ e.type = "open" /\ row[e.finding].desired => row[e.finding].ticket = "open"
               /\ row'[e.finding].ticket # "open"
    <3>1. CASE e \in opens
      <4>1. ~row[e.finding].desired
        BY <2>6, <3>1 DEF Opens
      <4> QED
        BY <2>5, <2>6, <3>1, <4>1 DEF NextEventOf
    <3>2. CASE e \in closes
      <4>1. row[e.finding].desired
        BY <2>7, <3>2 DEF Closes
      <4> QED
        BY <2>5, <2>7, <3>2, <4>1 DEF NextEventOf
    <3> QED
      BY <3>1, <3>2
  <2>9. ASSUME NEW e \in opens \union closes, NEW d \in opens \union closes,
               e.finding = d.finding
        PROVE  e = d
    <3>1. CASE e \in opens
      <4>1. d \in opens
        BY <2>4, <2>6, <2>7, <2>9, <3>1
      <4> QED
        BY <2>2, <2>9, <3>1, <4>1
    <3>2. CASE e \in closes
      <4>1. d \in closes
        BY <2>4, <2>6, <2>7, <2>9, <3>2
      <4> QED
        BY <2>2, <2>9, <3>2, <4>1
    <3> QED
      BY <3>1, <3>2
  <2>10. ASSUME NEW f \in Findings, \A e \in opens \union closes : e.finding # f
         PROVE  /\ row'[f].desired = row[f].desired
                /\ row'[f].ticket = "open" => row[f].ticket = "open"
    <3>1. f \notin Opens /\ f \notin Closes
      BY <2>3, <2>10
    <3> QED
      BY <2>5, <3>1
  <2>11. opens \union closes \in SUBSET Event
    BY <2>2
  <2> QED
    BY <2>1, <2>2, <2>8, <2>9, <2>10, <2>11, QueuedInOrder
<1> QED
  BY <1>1, <1>2

\* What a mark leaves of the events and of the rows.
LEMMA MarkedEvents ==
  ASSUME IInv, MarkDelivered \/ MarkFailed
  PROVE  /\ DOMAIN outbox' = DOMAIN outbox
         /\ \A i \in DOMAIN outbox :
                /\ outbox'[i].finding = outbox[i].finding
                /\ outbox'[i].generation = outbox[i].generation
                /\ outbox'[i].type = outbox[i].type
                /\ outbox[i].state = "delivered" => outbox'[i].state = "delivered"
         /\ MarkDelivered => outbox'[Head(batch)].state = "delivered"
<1> DEFINE h == Head(batch)
<1>1. h \in DOMAIN outbox /\ outbox \in Seq(Event)
  BY CurrentEvent DEF IInv, TypeOK, MarkDelivered, MarkFailed
<1>2. outbox[h] \in Event
  BY <1>1, QueuedEvents
<1>3. CASE MarkDelivered
  <2>1. outbox' = [outbox EXCEPT ![h] = [outbox[h] EXCEPT !.state = "delivered", !.tried = TRUE]]
    BY <1>3 DEF MarkDelivered
  <2> HIDE DEF h
  <2>2. \A i \in DOMAIN outbox : i # h => outbox'[i] = outbox[i]
    BY <2>1
  <2>3. outbox'[h] = [outbox[h] EXCEPT !.state = "delivered", !.tried = TRUE]
    BY <1>1, <2>1
  <2> QED
    BY <1>1, <1>2, <2>1, <2>2, <2>3 DEF Event, h
<1>4. CASE MarkFailed
  <2>1. outbox' = [outbox EXCEPT ![h] = [outbox[h] EXCEPT !.tried = TRUE, !.due = FALSE]]
    BY <1>4 DEF MarkFailed
  <2> HIDE DEF h
  <2>2. \A i \in DOMAIN outbox : i # h => outbox'[i] = outbox[i]
    BY <2>1
  <2>3. outbox'[h] = [outbox[h] EXCEPT !.tried = TRUE, !.due = FALSE]
    BY <1>1, <2>1
  <2>4. ~MarkDelivered
    BY <1>4 DEF MarkDelivered, MarkFailed
  <2> QED
    BY <1>1, <1>2, <2>1, <2>2, <2>3, <2>4 DEF Event
<1> QED
  BY <1>3, <1>4

LEMMA MarksKeepLifeInv ==
  ASSUME IInv, LifeInv, MarkDelivered \/ MarkFailed
  PROVE  LifeInv'
<1> DEFINE h == Head(batch)
           c == Current.finding
<1>1. /\ h \in DOMAIN outbox /\ outbox \in Seq(Event)
      /\ outbox[h].finding = c /\ c \in Findings
      /\ outbox[h].generation = Current.generation /\ outbox[h].type = Current.type
      /\ row \in [Findings -> Row]
  BY CurrentEvent DEF IInv, TypeOK, MarkDelivered, MarkFailed, Current
<1>2. PICK ticket \in TicketStates :
          /\ Show(ticket)
          /\ ticket = "open" => MarkDelivered /\ Current.type = "open"
  <2>1. CASE MarkDelivered
    BY <2>1 DEF MarkDelivered, TicketStates
  <2>2. CASE MarkFailed
    BY <2>2 DEF MarkFailed, TicketStates
  <2> QED
    BY <2>1, <2>2
<1>3. /\ DOMAIN outbox' = DOMAIN outbox
      /\ \A i \in DOMAIN outbox :
             /\ outbox'[i].finding = outbox[i].finding
             /\ outbox'[i].generation = outbox[i].generation
             /\ outbox'[i].type = outbox[i].type
             /\ outbox[i].state = "delivered" => outbox'[i].state = "delivered"
      /\ MarkDelivered => outbox'[h].state = "delivered"
  BY MarkedEvents
<1> HIDE DEF h
<1>4. \A f \in Findings : row[f] \in Row /\ (f # c => row'[f] = row[f])
  BY <1>1, <1>2 DEF Show
<1>5. row'[c].desired = row[c].desired
      /\ row'[c].ticket = IF row[c].generation = Current.generation THEN ticket ELSE row[c].ticket
  <2> DEFINE t == IF row[c].generation = Current.generation THEN ticket ELSE row[c].ticket
  <2>1. row' = [row EXCEPT ![c] = [row[c] EXCEPT !.ticket = t]]
    BY <1>2 DEF Show
  <2> HIDE DEF t, c
  <2>2. row'[c] = [row[c] EXCEPT !.ticket = t] /\ row[c] \in Row
    BY <1>1, <2>1
  <2>3. row'[c].ticket = t
    BY <2>2 DEF Row
  <2>4. row'[c].desired = row[c].desired
    BY <2>2, Zenon DEF Row
  <2> QED
    BY <2>3, <2>4 DEF t
<1>6. \A f \in Findings : row'[f].desired = row[f].desired
  BY <1>1, <1>4, <1>5
<1>7. CASE ~(row'[c].ticket = "open" /\ row[c].ticket # "open")
  <2>1. \A f \in Findings : row'[f].ticket = "open" => row[f].ticket = "open"
    BY <1>1, <1>4, <1>7
  <2> QED
    BY <1>3, <1>6, <2>1, LifeUndisturbed
<1>8. CASE row'[c].ticket = "open" /\ row[c].ticket # "open"
  <2>1. /\ row[c].generation = Current.generation
        /\ MarkDelivered
        /\ Current.type = "open"
    BY <1>2, <1>5, <1>8
  <2>2. EventsInOrder' /\ OneLifePerGeneration'
    BY <1>3, OrderUndisturbed DEF LifeInv
  <2>3. ASSUME NEW f \in Findings, NEW i \in DOMAIN outbox, LastEventOf(f, i),
               row[f].desired, row'[f].ticket = "open"
        PROVE  outbox'[i].state = "delivered"
    <3>1. CASE f # c
      <4>1. row[f].ticket = "open"
        BY <1>4, <2>3, <3>1
      <4> QED
        BY <1>3, <2>3, <4>1 DEF LifeInv, ShownAsDelivered
    <3>2. CASE f = c
      <4>1. row[f].generation = outbox[i].generation /\ row[f].desired = (outbox[i].type = "open")
        BY <2>3 DEF IInv, RowsFollowTheQueue
      <4>2. outbox[i].type = "open" /\ outbox[i].generation = outbox[h].generation
        BY <1>1, <2>1, <2>3, <3>2, <4>1
      <4>3. ~(h > i)
        BY <1>1, <2>3, <3>2 DEF LastEventOf
      <4>4. ~(h < i)
        <5>1. outbox[i].finding = outbox[h].finding
          BY <1>1, <2>3, <3>2 DEF LastEventOf
        <5>2. outbox[i].generation \in Nat
          BY <1>1, QueuedEvents
        <5> QED
          BY <1>1, <4>2, <5>1, <5>2 DEF LifeInv, EventsInOrder
      <4>5. h \in Nat /\ i \in Nat
        BY <1>1, LenProperties
      <4>6. h = i
        BY <4>3, <4>4, <4>5
      <4> QED
        BY <1>3, <2>1, <4>6
    <3> QED
      BY <3>1, <3>2
  <2>4. \A f \in Findings, i \in DOMAIN outbox' : LastEventOf(f, i)' => LastEventOf(f, i)
    BY <1>3 DEF LastEventOf
  <2>5. ShownAsDelivered'
    BY <1>3, <1>6, <2>3, <2>4 DEF ShownAsDelivered
  <2> QED
    BY <2>2, <2>5 DEF LifeInv
<1> QED
  BY <1>7, <1>8

LEMMA StepKeepsLifeInv == IInv /\ LifeInv /\ [Next]_vars => LifeInv'
<1> SUFFICES ASSUME IInv, LifeInv, [Next]_vars PROVE LifeInv'
  OBVIOUS
<1>1. outbox \in Seq(Event) /\ row \in [Findings -> Row]
  BY DEF IInv, TypeOK
<1>2. ASSUME UNCHANGED outbox, \A f \in Findings : /\ row'[f].desired = row[f].desired
                                                   /\ row'[f].ticket = row[f].ticket
      PROVE  LifeInv'
  BY <1>2, LifeUndisturbed
<1>3. CASE \E S \in SUBSET Findings : \E H \in SUBSET S : Import(S, H)
  <2>1. PICK S \in SUBSET Findings : \E H \in SUBSET S : Import(S, H)
    BY <1>3
  <2>2. ASSUME NEW f \in Findings
        PROVE  row'[f].desired = row[f].desired /\ row'[f].ticket = row[f].ticket
    <3>1. row[f] \in Row
      BY <1>1
    <3>2. PICK H \in SUBSET S : \/ row'[f] = [row[f] EXCEPT !.present = TRUE, !.severe = f \in H]
                                \/ row'[f] = [row[f] EXCEPT !.present = FALSE]
      BY <2>1 DEF Import
    <3>3. row'[f].ticket = row[f].ticket
      BY <3>1, <3>2 DEF Row
    <3>4. row'[f].desired = row[f].desired
      BY <3>1, <3>2, Zenon DEF Row
    <3> QED
      BY <3>3, <3>4
  <2> QED
    BY <1>2, <2>1, <2>2 DEF Import
<1>4. CASE \E f \in Findings, d \in Dispositions, r \in Remediations : Annotate(f, d, r)
  BY <1>1, <1>2, <1>4 DEF Annotate, Row
<1>5. CASE \/ EditRoute \/ DeleteCustomer \/ SaveSettings
           \/ BeginPass \/ LoadBatch \/ SendAccepted
           \/ SendRefused \/ AnswerLost \/ PassEnds \/ UNCHANGED vars
  <2>1. UNCHANGED <<row, outbox>>
    BY <1>5 DEF EditRoute, DeleteCustomer, SaveSettings, BeginPass, LoadBatch, SendAccepted,
                SendRefused, AnswerLost, PassEnds, vars
  <2> QED
    BY <1>2, <2>1
<1>6. ASSUME NEW ids, outbox' = Rearmed(ids), UNCHANGED row PROVE LifeInv'
  BY <1>1, <1>6, RearmedEvents, LifeUndisturbed
<1>7. CASE Retry \/ \E f \in Findings : RetryFinding(f)
  BY <1>6, <1>7 DEF Retry, RetryFinding
<1>8. CASE \E i \in DOMAIN outbox : BackoffEnds(i)
  <2>1. PICK i \in DOMAIN outbox : BackoffEnds(i)
    BY <1>8
  <2>2. /\ DOMAIN outbox' = DOMAIN outbox
        /\ \A j \in DOMAIN outbox : /\ outbox'[j].finding = outbox[j].finding
                                    /\ outbox'[j].generation = outbox[j].generation
                                    /\ outbox'[j].type = outbox[j].type
                                    /\ outbox'[j].state = outbox[j].state
    <3>1. outbox[i] \in Event
      BY <1>1, <2>1, QueuedEvents
    <3> QED
      BY <1>1, <2>1, <3>1 DEF BackoffEnds, Event
  <2> QED
    BY <2>1, <2>2, LifeUndisturbed DEF BackoffEnds
<1> QED
  BY <1>3, <1>4, <1>5, <1>7, <1>8, RecreateFindingKeepsLifeInv, ReconcileKeepsLifeInv,
     MarksKeepLifeInv DEF Next, Change, Dispatch, Failure

-----------------------------------------------------------------------------
(* Theorems *)

\* The state keeps its type, whatever is imported, edited, delivered, refused,
\* lost or interrupted: generations stay within the changes that began them.
THEOREM TypeCorrect == Spec => []TypeOK
<1>1. IInv => TypeOK
  BY DEF IInv
<1> QED
  BY <1>1, IInvHolds, PTL

\* The row of a finding always says what was queued for it last: a transaction
\* that queues also changes the row, and nothing else touches either
\* (ReconcileHookwiseOutbox, RecreateHookwiseFinding).
THEOREM RowsFollow == Spec => []RowsFollowTheQueue
<1>1. IInv => RowsFollowTheQueue
  BY DEF IInv
<1> QED
  BY <1>1, IInvHolds, PTL

\* An event is only marked as delivered when Hookwise accepted it last for its
\* ticket (DispatchOnce).
THEOREM DeliveredOnlyIfAccepted == Spec => DeliveredWasAccepted
<1>1. ASSUME IInv, [Next]_vars, NEW i \in DOMAIN outbox,
             outbox[i].state = "pending", outbox'[i].state = "delivered"
      PROVE  hookwise[outbox[i].finding][outbox[i].generation] = outbox[i].type
  <2>1. outbox \in Seq(Event) /\ outbox[i] \in Event
    BY <1>1, QueuedEvents DEF IInv, TypeOK
  <2>2. ASSUME UNCHANGED outbox PROVE FALSE
    BY <1>1, <2>2
  <2>3. ASSUME NEW events \in SUBSET Event, IsFiniteSet(events), Enqueue(events) PROVE FALSE
    BY <1>1, <2>1, <2>3, EnqueueAppends
  <2>4. ASSUME NEW ids, outbox' = Rearmed(ids) PROVE FALSE
    BY <1>1, <2>1, <2>4, RearmedEvents
  <2>5. CASE MarkDelivered
    <3>1. pc = "accepted" /\ i = Head(batch)
      BY <1>1, <2>1, <2>5 DEF MarkDelivered
    <3> QED
      BY <1>1, <3>1 DEF IInv, PassHoldsPendingEvents, Current
  <2>6. CASE MarkFailed
    BY <1>1, <2>1, <2>6 DEF MarkFailed, Event
  <2>7. CASE \E j \in DOMAIN outbox : BackoffEnds(j)
    BY <1>1, <2>1, <2>7 DEF BackoffEnds, Event
  <2>8. CASE \E f \in Findings : RecreateFinding(f)
    <3>1. PICK f \in Findings : RecreateFinding(f)
      BY <2>8
    <3>2. NextGeneration(row[f]) \in Generations
      BY <1>1, <3>1, NextGenerationExists DEF RecreateFinding, Changed
    <3>3. NewEvent(f, NextGeneration(row[f]), "open") \in Event
      BY <3>2, NewEventFields DEF EventTypes
    <3> QED
      BY <2>3, <3>1, <3>3, FS_Singleton DEF RecreateFinding
  <2>9. CASE Reconcile
    <3>1. \/ UNCHANGED outbox
          \/ Enqueue({NewEvent(f, NextGeneration(row[f]), "open") : f \in Opens}
                     \union {NewEvent(f, row[f].generation, "closed") : f \in Closes})
      BY <2>9 DEF Reconcile
    <3> QED
      BY <1>1, <2>2, <2>3, <3>1, ReconcileEvents
  <2>10. CASE Retry \/ \E f \in Findings : RetryFinding(f)
    BY <2>4, <2>10 DEF Retry, RetryFinding
  <2> QED
    BY <1>1, <2>2, <2>5, <2>6, <2>7, <2>8, <2>9, <2>10
    DEF Next, Change, Dispatch, Failure, Import, Annotate, EditRoute, DeleteCustomer,
        SaveSettings, BeginPass, LoadBatch, SendAccepted, SendRefused, AnswerLost, PassEnds, vars
<1>2. IInv /\ [Next]_vars =>
      [\A i \in DOMAIN outbox :
           outbox[i].state = "pending" /\ outbox'[i].state = "delivered"
           => hookwise[outbox[i].finding][outbox[i].generation] = outbox[i].type]_vars
  BY <1>1
<1> QED
  BY <1>2, IInvHolds, PTL DEF Spec, DeliveredWasAccepted

\* Every generation of a ticket is opened once, first, and closed at most once and
\* right after, and none begins before the one that is open was delivered, whatever
\* passes, requests of operators and late results interleave
\* (ReconcileHookwiseOutbox, RecreateHookwiseFinding, MarkHookwiseDelivered).
THEOREM GenerationsLiveOnce == Spec => []OneLifePerGeneration
<1>1. Spec => []LifeInv
  BY InitEstablishesLifeInv, StepKeepsLifeInv, IInvHolds, PTL DEF Spec
<1>2. LifeInv => OneLifePerGeneration
  BY DEF LifeInv
<1> QED
  BY <1>1, <1>2, PTL

\* No pass sends an event that was marked as delivered (DispatchOnce).
THEOREM NeverDeliveredTwice == Spec => NoRepeatedDelivery
<1>1. IInv /\ [Next]_vars => [pc = "send" /\ pc' = "accepted" => Current.state = "pending"]_vars
  BY CurrentEvent
<1> QED
  BY <1>1, IInvHolds, PTL DEF Spec, NoRepeatedDelivery

=============================================================================
