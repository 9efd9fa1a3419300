---------------------------- MODULE CustomerEdits ----------------------------
(***************************************************************************)
(* How definitions of customers are edited: the review of a form and its   *)
(* confirmation by a signed token, randomizing, cloning and deleting       *)
(* (internal/web/customers.go, customer_actions.go), and the import of a   *)
(* document (internal/web/portable.go, internal/store/import.go). Requests *)
(* run concurrently; each query and each transaction is a step. What the   *)
(* reconciler does with a definition is in Reconciler.                     *)
(***************************************************************************)
EXTENDS Naturals, SequencesExt

CONSTANTS
    Ids,          \* ids of customers
    MaxName,      \* bound: names; the name after n is that of a copy of n
    Slots,        \* weekly slots
    Scopes,       \* lists of networks
    Forms,        \* definitions that operators enter
    Documents,    \* import documents
    Handlers,     \* requests at a time
    MaxRevision,  \* bound: revisions of a customer
    MaxTokens,    \* bound: confirmations to be given at a time
    MaxRestarts   \* bound: restarts of the process

Names == 1 .. MaxName
Definition == [name : Names, slot : Slots, networks : Scopes]
NoId == "no id"
Item == [id : Ids \union {NoId}, value : Definition]

ASSUME EditsAssumption ==
    /\ NoId \notin Ids
    /\ MaxName \in Nat /\ MaxRevision \in Nat \ {0} /\ MaxTokens \in Nat /\ MaxRestarts \in Nat
    /\ Forms \subseteq Definition
    /\ Documents \subseteq Seq(Item)

VARIABLES
    customers,  \* rows of customers with their networks
    tokens,     \* signed reviews that have not expired
    requests,   \* requests between two queries
    restarts

vars == <<customers, tokens, requests, restarts>>

Customer ==
    [state : {"active", "deleted"}, revision : 1 .. MaxRevision, value : Definition]
NoCustomer == [state |-> "none"]

\* base: the definition the review compared with.
EditToken ==
    [kind : {"edit"}, id : Ids, revision : 0 .. MaxRevision, base : Definition,
     value : Definition]
ImportToken == [kind : {"import"}, items : Seq(Item)]

\* value: what was read; networks come with a query of their own.
Request ==
    [op : {"preview", "randomize", "clone"}, complete : BOOLEAN, id : Ids,
     revision : 1 .. MaxRevision, value : Definition]
    \union
    [op : {"confirm"}, read : 1 .. MaxRevision, token : EditToken]
Idle == [op |-> "idle"]

TypeOK ==
    /\ customers \in [Ids -> Customer \union {NoCustomer}]
    /\ tokens \subseteq EditToken \union ImportToken
    /\ requests \in [Handlers -> Request \union {Idle}]
    /\ restarts \in 0 .. MaxRestarts

Init ==
    /\ customers = [c \in Ids |-> NoCustomer]
    /\ tokens = {}
    /\ requests = [h \in Handlers |-> Idle]
    /\ restarts = 0

Active(c) == customers[c].state = "active"
Known(c) == customers[c].state # "none"

\* id.New: an id that nothing has.
IdsOf(token) ==
    IF token.kind = "edit" THEN {token.id} ELSE {token.items[i].id : i \in DOMAIN token.items}
FreshIds == {c \in Ids : ~Known(c) /\ \A token \in tokens : c \notin IdsOf(token)}

-----------------------------------------------------------------------------
(* internal/store *)

\* UNIQUE on the names: deleted customers keep theirs.
NameTaken(rows, c, value) ==
    \E d \in Ids \ {c} : rows[d].state # "none" /\ rows[d].value.name = value.name

CanCreate(rows, c, value) == rows[c].state = "none" /\ ~NameTaken(rows, c, value)

\* CreateCustomer.
Created(rows, c, value) ==
    [rows EXCEPT ![c] = [state |-> "active", revision |-> 1, value |-> value]]

\* Mutant of CanUpdate: the row is updated although it was deleted.
CanUpdateDeleted(rows, c, value) == rows[c].state # "none" /\ ~NameTaken(rows, c, value)

CanUpdate(rows, c, value) == rows[c].state = "active" /\ ~NameTaken(rows, c, value)

\* Mutant of Updated: the revision stays.
UpdatedInPlace(rows, c, value) == [rows EXCEPT ![c].value = value]

\* UpdateCustomer: row and networks in one transaction.
Updated(rows, c, value) ==
    [rows EXCEPT ![c] = [state |-> "active", revision |-> @.revision + 1, value |-> value]]

\* ApplyImport, one customer: it is updated unless there is no active row, and
\* then inserted. An error ends the transaction.
ImportOne(result, item) ==
    CASE result.failed -> result
      [] ~result.failed /\ CanUpdate(result.rows, item.id, item.value) ->
             [result EXCEPT !.rows = Updated(@, item.id, item.value)]
      [] ~result.failed /\ CanCreate(result.rows, item.id, item.value) ->
             [result EXCEPT !.rows = Created(@, item.id, item.value)]
      [] OTHER -> [result EXCEPT !.failed = TRUE]

Imported(items) ==
    LET after[n \in 0 .. Len(items)] ==
            IF n = 0 THEN [failed |-> FALSE, rows |-> customers]
            ELSE ImportOne(after[n - 1], items[n])
    IN after[Len(items)]

WithinBound(rows) ==
    \A c \in {d \in Ids : rows[d].state # "none"} : rows[c].revision <= MaxRevision

-----------------------------------------------------------------------------
(* Reviewing and confirming *)

Issue(token) ==
    /\ Cardinality(tokens \union {token}) <= MaxTokens
    /\ tokens' = tokens \union {token}

\* customerPreviewNew.
PreviewNew(c, value) ==
    /\ c \in FreshIds
    /\ Issue([kind |-> "edit", id |-> c, revision |-> 0, base |-> value, value |-> value])
    /\ UNCHANGED <<customers, requests, restarts>>

\* customerPreviewExisting, customerRandomize and customerClone read the row,
ReadRow(h, op, c) ==
    /\ requests[h] = Idle
    /\ Active(c)
    /\ requests' = [requests EXCEPT ![h] =
                       [op |-> op, complete |-> FALSE, id |-> c,
                        revision |-> customers[c].revision, value |-> customers[c].value]]
    /\ UNCHANGED <<customers, tokens, restarts>>

\* and then the networks.
ReadNetworks(h) ==
    /\ requests[h].op \in {"preview", "randomize", "clone"} /\ ~requests[h].complete
    /\ requests' = [requests EXCEPT ![h].complete = TRUE,
                       ![h].value.networks = customers[requests[h].id].value.networks]
    /\ UNCHANGED <<customers, tokens, restarts>>

Ready(h, op) == requests[h].op = op /\ requests[h].complete
Answer(h) == requests' = [requests EXCEPT ![h] = Idle]

\* customerPreview signs the form with the revision it was compared with.
Preview(h, value) ==
    /\ Ready(h, "preview")
    /\ Answer(h)
    /\ Issue([kind |-> "edit", id |-> requests[h].id, revision |-> requests[h].revision,
              base |-> requests[h].value, value |-> value])
    /\ UNCHANGED <<customers, restarts>>

\* customerCreate.
ConfirmNew(token) ==
    /\ token.kind = "edit" /\ token.revision = 0
    /\ CanCreate(customers, token.id, token.value)
    /\ customers' = Created(customers, token.id, token.value)
    /\ UNCHANGED <<tokens, requests, restarts>>

\* Mutant of IsCurrent: any review of an active customer is accepted.
IsCurrentAnyway(token) == token.revision > 0 /\ Active(token.id)

\* customerUpdate compares the revisions,
IsCurrent(token) ==
    /\ token.revision > 0
    /\ Active(token.id) /\ customers[token.id].revision = token.revision

CheckRevision(h, token) ==
    /\ requests[h] = Idle
    /\ token.kind = "edit" /\ IsCurrent(token)
    /\ requests' = [requests EXCEPT ![h] =
                       [op |-> "confirm", read |-> customers[token.id].revision,
                        token |-> token]]
    /\ UNCHANGED <<customers, tokens, restarts>>

\* and then saves, unless the customer was deleted or the name taken meanwhile.
Save(c, value) ==
    IF CanUpdate(customers, c, value)
    THEN customers[c].revision < MaxRevision /\ customers' = Updated(customers, c, value)
    ELSE UNCHANGED customers

SaveConfirmed(h) ==
    /\ requests[h].op = "confirm"
    /\ Answer(h)
    /\ Save(requests[h].token.id, requests[h].token.value)
    /\ UNCHANGED <<tokens, restarts>>

-----------------------------------------------------------------------------
(* Other edits *)

\* customerRandomize saves what it read with another slot.
Randomize(h, slot) ==
    /\ Ready(h, "randomize")
    /\ Answer(h)
    /\ Save(requests[h].id, [requests[h].value EXCEPT !.slot = slot])
    /\ UNCHANGED <<tokens, restarts>>

\* customerClone: the copy gets an id, a name and a slot of its own.
Clone(h, c, slot) ==
    /\ Ready(h, "clone") /\ c \in FreshIds
    /\ requests[h].value.name + 1 \in Names
    /\ LET copy == [requests[h].value EXCEPT !.name = @ + 1, !.slot = slot]
       IN IF CanCreate(customers, c, copy) THEN customers' = Created(customers, c, copy)
          ELSE UNCHANGED customers
    /\ Answer(h)
    /\ UNCHANGED <<tokens, restarts>>

\* SoftDeleteCustomer.
Delete(c) ==
    /\ Active(c) /\ customers[c].revision < MaxRevision
    /\ customers' = [customers EXCEPT ![c].state = "deleted", ![c].revision = @ + 1]
    /\ UNCHANGED <<tokens, requests, restarts>>

-----------------------------------------------------------------------------
(* Importing *)

\* Validate: no id and no name occurs twice.
Valid(document) ==
    \A i, j \in DOMAIN document : i # j =>
        /\ document[i].value.name # document[j].value.name
        /\ document[i].id # document[j].id \/ document[i].id = NoId

\* A document without ids is matched by name with the active customers.
MatchByName(item) ==
    LET same == {c \in Ids : Active(c) /\ customers[c].value.name = item.value.name}
    IN IF item.id = NoId /\ same # {} THEN [item EXCEPT !.id = CHOOSE c \in same : TRUE]
       ELSE item

\* A name of another active customer is refused.
Conflicts(item) ==
    /\ item.id # NoId
    /\ \E c \in Ids \ {item.id} : Active(c) /\ customers[c].value.name = item.value.name

ImportPreview(document) ==
    /\ Valid(document)
    /\ \A i \in DOMAIN document : ~Conflicts(document[i])
    /\ Issue([kind |-> "import", items |-> [i \in DOMAIN document |-> MatchByName(document[i])]])
    /\ UNCHANGED <<customers, requests, restarts>>

\* importApply: what still has no id gets a new one, and the transaction commits
\* as a whole, or an error leaves everything as it was. No revision is compared. The
\* settings of the document, written first in the same transaction, are left out.
Identified(items, c) ==
    [i \in DOMAIN items |-> IF items[i].id = NoId THEN [items[i] EXCEPT !.id = c] ELSE items[i]]

ImportApply(token) ==
    /\ token.kind = "import"
    /\ \E c \in FreshIds \union {NoId} :
           /\ c = NoId => \A i \in DOMAIN token.items : token.items[i].id # NoId
           /\ LET result == Imported(Identified(token.items, c))
              IN /\ ~result.failed /\ WithinBound(result.rows)
                 /\ customers' = result.rows
    /\ UNCHANGED <<tokens, requests, restarts>>

-----------------------------------------------------------------------------
\* A review expires after 15 minutes.
Expire(token) ==
    /\ tokens' = tokens \ {token}
    /\ UNCHANGED <<customers, requests, restarts>>

\* The key that signs reviews is made anew.
Restart ==
    /\ restarts < MaxRestarts
    /\ restarts' = restarts + 1
    /\ tokens' = {}
    /\ requests' = [h \in Handlers |-> Idle]
    /\ UNCHANGED customers

Next ==
    \/ \E c \in Ids, value \in Forms : PreviewNew(c, value)
    \/ \E h \in Handlers, c \in Ids, op \in {"preview", "randomize", "clone"} : ReadRow(h, op, c)
    \/ \E h \in Handlers :
           \/ ReadNetworks(h)
           \/ \E value \in Forms : Preview(h, value)
           \/ \E token \in tokens : CheckRevision(h, token)
           \/ SaveConfirmed(h)
           \/ \E slot \in Slots : Randomize(h, slot)
           \/ \E c \in Ids, slot \in Slots : Clone(h, c, slot)
    \/ \E c \in Ids : Delete(c)
    \/ \E document \in Documents : ImportPreview(document)
    \/ \E token \in tokens : ConfirmNew(token) \/ ImportApply(token) \/ Expire(token)
    \/ Restart

Spec == Init /\ [][Next]_vars
=============================================================================
