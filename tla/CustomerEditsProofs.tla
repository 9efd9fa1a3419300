------------------------ MODULE CustomerEditsProofs ------------------------
(***************************************************************************)
(* Proofs about customer edits, for every value of the constants.          *)
(***************************************************************************)
EXTENDS CustomerEditsProperties, SequenceTheorems, NaturalRecursion, TLAPS

-----------------------------------------------------------------------------
(* What an import makes of the rows *)

Stored == [state : {"active", "deleted"}, revision : Nat \ {0}, value : Definition]

\* Rows that went on from customers: none is gone, deleted ones are the same, and
\* what changed has a later revision.
GoneOn(rows) ==
    \A c \in Ids :
        /\ customers[c].state = "deleted" => rows[c] = customers[c]
        /\ customers[c].state # "none" =>
               /\ rows[c].state # "none"
               /\ rows[c] = customers[c] \/ rows[c].revision > customers[c].revision

Results ==
    {result \in [failed : BOOLEAN, rows : [Ids -> Stored \union {NoCustomer}]] :
        GoneOn(result.rows)}

LEMMA StoredCustomers ==
  ASSUME TypeOK
  PROVE  /\ customers \in [Ids -> Stored \union {NoCustomer}]
         /\ \A c \in Ids : /\ customers[c] \in Customer \union {NoCustomer}
                           /\ Known(c) <=> customers[c] \in Customer
                           /\ Known(c) => /\ customers[c].revision \in 1 .. MaxRevision
                                          /\ customers[c].revision \in Nat \ {0}
                                          /\ customers[c].value \in Definition
                           /\ ~Known(c) => customers[c] = NoCustomer
<1>1. customers \in [Ids -> Customer \union {NoCustomer}] /\ MaxRevision \in Nat
  BY EditsAssumption DEF TypeOK
<1>2. Customer \subseteq Stored
  BY <1>1 DEF Customer, Stored
<1>3. customers \in [Ids -> Stored \union {NoCustomer}]
  BY <1>1, <1>2
<1> QED
  BY <1>1, <1>3 DEF Customer, NoCustomer, Known

\* Updating or inserting a row goes on from the rows.
LEMMA ImportOneGoesOn ==
  ASSUME TypeOK, NEW result \in Results, NEW item \in Item, item.id \in Ids
  PROVE  ImportOne(result, item) \in Results
<1> DEFINE c == item.id
           rows == result.rows
<1>1. /\ result \in [failed : BOOLEAN, rows : [Ids -> Stored \union {NoCustomer}]]
      /\ GoneOn(rows)
      /\ rows \in [Ids -> Stored \union {NoCustomer}]
  BY DEF Results
<1>2. item.value \in Definition /\ c \in Ids
  BY DEF Item
<1>3. \A d \in Ids : customers[d].state # "none" => customers[d].revision \in Nat
  BY StoredCustomers DEF Known
<1>4. CASE result.failed
  BY <1>4 DEF ImportOne
<1>5. CASE ~result.failed /\ CanUpdate(rows, c, item.value)
  <2> DEFINE new == [state |-> "active", revision |-> rows[c].revision + 1, value |-> item.value]
             after == [rows EXCEPT ![c] = new]
  <2>1. ImportOne(result, item) = [result EXCEPT !.rows = after]
    <3>1. ~CanCreate(rows, c, item.value)
      BY <1>5 DEF CanUpdate, CanCreate
    <3> QED
      BY <1>5, <3>1 DEF ImportOne, Updated
  <2>2. rows[c].state = "active"
    BY <1>5 DEF CanUpdate
  <2>3. rows[c] \in Stored /\ rows[c].revision \in Nat
    BY <1>1, <1>2, <2>2 DEF Stored, NoCustomer
  <2>4. new \in Stored
    BY <1>2, <2>3 DEF Stored
  <2> HIDE DEF rows, c
  <2>5. /\ after \in [Ids -> Stored \union {NoCustomer}]
        /\ after[c] = new
        /\ \A d \in Ids : d # c => after[d] = rows[d]
    BY <1>1, <1>2, <2>4
  <2>6. new.state = "active" /\ new.revision = rows[c].revision + 1
    OBVIOUS
  <2> HIDE DEF new, after
  <2>7. GoneOn(after)
    <3>1. ASSUME NEW d \in Ids
          PROVE  /\ customers[d].state = "deleted" => after[d] = customers[d]
                 /\ customers[d].state # "none" =>
                        /\ after[d].state # "none"
                        /\ after[d] = customers[d] \/ after[d].revision > customers[d].revision
      <4>1. CASE d # c
        BY <1>1, <2>5, <4>1 DEF GoneOn
      <4>2. CASE d = c
        <5>1. customers[c].state # "deleted"
          BY <1>1, <1>2, <2>2 DEF GoneOn
        <5>2. ASSUME customers[c].state # "none" PROVE new.revision > customers[c].revision
          BY <1>1, <1>2, <1>3, <2>3, <2>6, <5>2 DEF GoneOn
        <5> QED
          BY <2>5, <2>6, <4>2, <5>1, <5>2
      <4> QED
        BY <4>1, <4>2
    <3> QED
      BY <3>1 DEF GoneOn
  <2> QED
    BY <1>1, <2>1, <2>5, <2>7 DEF Results
<1>6. CASE ~result.failed /\ CanCreate(rows, c, item.value)
  <2> DEFINE new == [state |-> "active", revision |-> 1, value |-> item.value]
             after == [rows EXCEPT ![c] = new]
  <2>1. ImportOne(result, item) = [result EXCEPT !.rows = after]
    <3>1. ~CanUpdate(rows, c, item.value)
      BY <1>6 DEF CanUpdate, CanCreate
    <3> QED
      BY <1>6, <3>1 DEF ImportOne, Created
  <2>2. rows[c].state = "none"
    BY <1>6 DEF CanCreate
  <2>3. new \in Stored
    BY <1>2 DEF Stored
  <2> HIDE DEF rows, c, new
  <2>4. /\ after \in [Ids -> Stored \union {NoCustomer}]
        /\ \A d \in Ids : d # c => after[d] = rows[d]
    BY <1>1, <1>2, <2>3
  <2> HIDE DEF after
  <2>5. customers[c].state = "none"
    BY <1>1, <1>2, <2>2, StoredCustomers DEF GoneOn
  <2>6. GoneOn(after)
    BY <1>1, <2>4, <2>5 DEF GoneOn
  <2> QED
    BY <1>1, <2>1, <2>4, <2>6 DEF Results
<1>7. CASE /\ ~result.failed
           /\ ~CanUpdate(rows, c, item.value)
           /\ ~CanCreate(rows, c, item.value)
  <2>1. ImportOne(result, item) = [result EXCEPT !.failed = TRUE]
    BY <1>7 DEF ImportOne
  <2>2. [result EXCEPT !.failed = TRUE] \in [failed : BOOLEAN, rows : [Ids -> Stored \union {NoCustomer}]]
    BY <1>1
  <2>3. [result EXCEPT !.failed = TRUE].rows = rows
    BY <1>1
  <2> HIDE DEF rows
  <2> QED
    BY <1>1, <2>1, <2>2, <2>3 DEF Results
<1> QED
  BY <1>1, <1>4, <1>5, <1>6, <1>7

\* So does importing any sequence of customers.
LEMMA ImportGoesOn ==
  ASSUME TypeOK, NEW items \in Seq(Item), \A i \in DOMAIN items : items[i].id \in Ids
  PROVE  Imported(items) \in Results
<1> DEFINE n == Len(items)
           begin == [failed |-> FALSE, rows |-> customers]
           Recursion(f) == f = [i \in 0 .. n |-> IF i = 0 THEN begin
                                                  ELSE ImportOne(f[i - 1], items[i])]
           after == CHOOSE f : Recursion(f)
<1>1. n \in Nat /\ DOMAIN items = 1 .. n /\ \A i \in 1 .. n : items[i] \in Item /\ items[i].id \in Ids
  BY LenProperties, ElementOfSeq
<1>2. Imported(items) = after[n]
  BY DEF Imported
<1>3. begin \in Results
  <2>1. customers \in [Ids -> Stored \union {NoCustomer}]
    BY StoredCustomers
  <2>2. GoneOn(customers)
    BY DEF GoneOn
  <2> QED
    BY <2>1, <2>2 DEF Results
<1> HIDE DEF n, begin
<1>4. \E f : Recursion(f)
  <2> DEFINE step == [i \in 1 .. n |-> [r \in Results |-> ImportOne(r, items[i])]]
  <2>1. step \in Steps(n, Results)
    BY <1>1, ImportOneGoesOn DEF Steps
  <2>2. \A i \in 1 .. n, r \in Results : step[i][r] = ImportOne(r, items[i])
    OBVIOUS
  <2> HIDE DEF step
  <2>3. PICK f \in [0 .. n -> Results] : Runs(f, n, begin, step)
    <3>1. n \in Nat
      BY <1>1
    <3>2. HasRun(n, Results, begin, step)
      BY <3>1, <1>3, <2>1, RecursionOverInterval
    <3> QED
      BY <3>2 DEF HasRun
  <2>4. \A i \in 1 .. n : f[i] = ImportOne(f[i - 1], items[i])
    BY <1>1, <2>2, <2>3 DEF Runs
  <2>5. f = [i \in 0 .. n |-> IF i = 0 THEN begin ELSE ImportOne(f[i - 1], items[i])]
    BY <1>1, <2>3, <2>4 DEF Runs
  <2> QED
    BY <2>5
<1>5. Recursion(after)
  BY <1>4
<1> HIDE DEF after
<1>6. after[0] = begin /\ \A i \in 1 .. n : after[i] = ImportOne(after[i - 1], items[i])
  BY <1>1, <1>5
<1> DEFINE good == {i \in 0 .. n : after[i] \in Results}
<1>7. 0 \in good
  BY <1>1, <1>3, <1>6
<1>8. ASSUME NEW i \in 1 .. n, i - 1 \in good PROVE i \in good
  BY <1>1, <1>6, <1>8, ImportOneGoesOn
<1> HIDE DEF good
<1>9. 0 .. n \subseteq good
  BY <1>1, <1>7, <1>8, UpTo
<1> QED
  BY <1>1, <1>2, <1>9 DEF good

-----------------------------------------------------------------------------
(* What every step makes of the rows *)

RowsGoOn ==
    /\ customers' \in [Ids -> Customer \union {NoCustomer}]
    /\ GoneOn(customers')

LEMMA UnchangedRowsGoOn ==
  ASSUME TypeOK, UNCHANGED customers
  PROVE  RowsGoOn
  BY DEF TypeOK, RowsGoOn, GoneOn

\* A row of its own goes on when it is active and gets the next revision, or when
\* there is none.
LEMMA RowGoesOn ==
  ASSUME TypeOK, NEW c \in Ids, NEW new \in Customer,
         customers' = [customers EXCEPT ![c] = new],
         \/ customers[c].state = "active" /\ new.revision = customers[c].revision + 1
         \/ customers[c].state = "none"
  PROVE  RowsGoOn
<1>1. customers \in [Ids -> Customer \union {NoCustomer}]
  BY DEF TypeOK
<1>2. /\ customers' \in [Ids -> Customer \union {NoCustomer}]
      /\ customers'[c] = new
      /\ \A d \in Ids : d # c => customers'[d] = customers[d]
  BY <1>1
<1>3. customers[c].state # "none" => customers[c].revision \in Nat
  BY StoredCustomers DEF Known
<1>4. new.state # "none"
  BY DEF Customer
<1>5. GoneOn(customers')
  BY <1>2, <1>3, <1>4 DEF GoneOn
<1> QED
  BY <1>2, <1>5 DEF RowsGoOn

LEMMA SaveGoesOn ==
  ASSUME TypeOK, NEW c \in Ids, NEW value \in Definition, Save(c, value)
  PROVE  RowsGoOn
<1>1. CASE CanUpdate(customers, c, value)
  <2> DEFINE new == [state |-> "active", revision |-> customers[c].revision + 1, value |-> value]
  <2>1. /\ customers[c].state = "active"
        /\ customers[c].revision < MaxRevision
        /\ customers' = [customers EXCEPT ![c] = new]
    BY <1>1 DEF CanUpdate, Save, Updated
  <2>2. customers[c].revision \in 1 .. MaxRevision
    BY <2>1, StoredCustomers DEF Known
  <2>3. new \in Customer
    BY <2>1, <2>2, EditsAssumption DEF Customer
  <2>4. new.revision = customers[c].revision + 1
    OBVIOUS
  <2> HIDE DEF new
  <2> QED
    BY <2>1, <2>3, <2>4, RowGoesOn
<1>2. CASE ~CanUpdate(customers, c, value)
  BY <1>2, UnchangedRowsGoOn DEF Save
<1> QED
  BY <1>1, <1>2

LEMMA CreatedGoesOn ==
  ASSUME TypeOK, NEW c \in Ids, NEW value \in Definition,
         CanCreate(customers, c, value), customers' = Created(customers, c, value)
  PROVE  RowsGoOn
<1> DEFINE new == [state |-> "active", revision |-> 1, value |-> value]
<1>1. customers[c].state = "none" /\ customers' = [customers EXCEPT ![c] = new]
  BY DEF CanCreate, Created
<1>2. new \in Customer
  BY EditsAssumption DEF Customer
<1> HIDE DEF new
<1> QED
  BY <1>1, <1>2, RowGoesOn

LEMMA DeleteGoesOn ==
  ASSUME TypeOK, NEW c \in Ids, Delete(c)
  PROVE  RowsGoOn
<1> DEFINE new == [customers[c] EXCEPT !.state = "deleted", !.revision = @ + 1]
<1>1. customers[c].state = "active" /\ customers[c].revision < MaxRevision
  BY DEF Delete, Active
<1>2. customers[c] \in Customer /\ customers[c].revision \in 1 .. MaxRevision
  BY <1>1, StoredCustomers DEF Known
<1>3. new \in Customer /\ new.revision = customers[c].revision + 1
  <2>1. customers[c].revision + 1 \in 1 .. MaxRevision
    BY <1>1, <1>2, EditsAssumption
  <2> QED
    BY <1>2, <2>1 DEF Customer
<1>4. customers' = [customers EXCEPT ![c] = new]
  BY DEF Delete
<1> HIDE DEF new
<1> QED
  BY <1>1, <1>3, <1>4, RowGoesOn

LEMMA ImportApplyGoesOn ==
  ASSUME TypeOK, NEW token \in tokens, ImportApply(token)
  PROVE  RowsGoOn
<1>1. token \in ImportToken
  BY DEF ImportApply, TypeOK, EditToken, ImportToken
<1>2. token.items \in Seq(Item)
  BY <1>1 DEF ImportToken
<1>3. PICK c \in FreshIds \union {NoId} :
          /\ c = NoId => \A i \in DOMAIN token.items : token.items[i].id # NoId
          /\ ~Imported(Identified(token.items, c)).failed
          /\ WithinBound(Imported(Identified(token.items, c)).rows)
          /\ customers' = Imported(Identified(token.items, c)).rows
  BY DEF ImportApply
<1> DEFINE items == Identified(token.items, c)
<1>4. /\ DOMAIN token.items = 1 .. Len(token.items) /\ Len(token.items) \in Nat
      /\ \A i \in DOMAIN token.items : token.items[i] \in Item
  BY <1>2, LenProperties, ElementOfSeq
<1>5. c # NoId => c \in Ids
  BY DEF FreshIds
<1>6. /\ DOMAIN items = 1 .. Len(token.items)
      /\ \A i \in DOMAIN items : items[i] \in Item /\ items[i].id \in Ids
  <2>1. ASSUME NEW i \in DOMAIN token.items
        PROVE  items[i] \in Item /\ items[i].id \in Ids
    <3>1. token.items[i] \in Item
      BY <1>4
    <3>2. CASE token.items[i].id = NoId
      BY <1>3, <1>5, <3>1, <3>2 DEF Identified, Item
    <3>3. CASE token.items[i].id # NoId
      BY <3>1, <3>3 DEF Identified, Item
    <3> QED
      BY <3>2, <3>3
  <2> QED
    BY <1>4, <2>1 DEF Identified
<1>7. items \in Seq(Item)
  <2>1. items = [i \in 1 .. Len(token.items) |-> items[i]]
    BY <1>4 DEF Identified
  <2> HIDE DEF items
  <2> QED
    BY <1>4, <1>6, <2>1
<1> HIDE DEF items
<1>8. Imported(items) \in Results
  BY <1>6, <1>7, ImportGoesOn
<1>9. /\ customers' \in [Ids -> Stored \union {NoCustomer}]
      /\ GoneOn(customers')
      /\ WithinBound(customers')
  BY <1>3, <1>8 DEF Results, items
<1>10. ASSUME NEW d \in Ids PROVE customers'[d] \in Customer \union {NoCustomer}
  <2>1. CASE customers'[d].state # "none"
    <3>1. customers'[d] \in Stored
      BY <1>9, <2>1 DEF NoCustomer
    <3>2. customers'[d].revision <= MaxRevision
      BY <1>9, <2>1 DEF WithinBound
    <3> QED
      BY <3>1, <3>2, EditsAssumption DEF Stored, Customer
  <2>2. CASE customers'[d].state = "none"
    BY <1>9, <2>2 DEF Stored
  <2> QED
    BY <2>1, <2>2
<1> QED
  BY <1>9, <1>10 DEF RowsGoOn

-----------------------------------------------------------------------------
(* Requests and reviews *)

Reads == {"preview", "randomize", "clone"}
ReadRequest ==
    [op : Reads, complete : BOOLEAN, id : Ids, revision : 1 .. MaxRevision, value : Definition]
ConfirmRequest == [op : {"confirm"}, read : 1 .. MaxRevision, token : EditToken]

LEMMA RequestKinds ==
  ASSUME TypeOK, NEW h \in Handlers
  PROVE  /\ requests[h] \in Request \union {Idle}
         /\ requests[h].op \in Reads => requests[h] \in ReadRequest
         /\ requests[h].op = "confirm" => requests[h] \in ConfirmRequest
<1>1. requests[h] \in ReadRequest \union ConfirmRequest \union {Idle}
  BY DEF TypeOK, Request, ReadRequest, ConfirmRequest, Reads
<1>2. /\ requests[h] \in ReadRequest => requests[h].op \in Reads
      /\ requests[h] \in ConfirmRequest => requests[h].op = "confirm"
      /\ requests[h] = Idle => requests[h].op = "idle"
  BY DEF ReadRequest, ConfirmRequest, Idle
<1> QED
  BY <1>1, <1>2 DEF TypeOK, Reads

LEMMA EditTokens ==
  ASSUME TypeOK, NEW token \in tokens, token.kind = "edit"
  PROVE  token \in EditToken
  BY DEF TypeOK, EditToken, ImportToken

\* A document that is matched by name is one of items.
LEMMA MatchedItems ==
  ASSUME NEW document \in Seq(Item)
  PROVE  [kind |-> "import", items |-> [i \in DOMAIN document |-> MatchByName(document[i])]]
             \in ImportToken
<1> DEFINE items == [i \in DOMAIN document |-> MatchByName(document[i])]
<1>1. /\ DOMAIN document = 1 .. Len(document) /\ Len(document) \in Nat
      /\ \A i \in DOMAIN document : document[i] \in Item
  BY LenProperties, ElementOfSeq
<1>2. ASSUME NEW item \in Item PROVE MatchByName(item) \in Item
  <2> DEFINE same == {c \in Ids : Active(c) /\ customers[c].value.name = item.value.name}
  <2>1. same # {} => (CHOOSE c \in same : TRUE) \in Ids
    OBVIOUS
  <2> HIDE DEF same
  <2>2. \A c \in Ids : [item EXCEPT !.id = c] \in Item
    BY DEF Item
  <2>3. MatchByName(item) \in {item, [item EXCEPT !.id = CHOOSE c \in same : TRUE]}
        /\ (MatchByName(item) # item => same # {})
    BY DEF MatchByName, same
  <2> QED
    BY <2>1, <2>2, <2>3
<1>3. items \in [1 .. Len(document) -> Item]
  BY <1>1, <1>2
<1>4. items \in Seq(Item)
  BY <1>1, <1>3
<1> HIDE DEF items
<1> QED
  BY <1>4 DEF ImportToken, items

\* What a review or a request says about a row is what the row says, unless the
\* row has a later revision.
BasedOn(c, revision, base) ==
    /\ Known(c)
    /\ revision <= customers[c].revision
    /\ revision = customers[c].revision => base = customers[c].value

TokensAreBased ==
    \A token \in tokens :
        token.kind = "edit" /\ token.revision > 0 => BasedOn(token.id, token.revision, token.base)

RequestIsBased(request) ==
    /\ request.op \in Reads => BasedOn(request.id, request.revision, request.value)
    /\ request.op = "confirm" => BasedOn(request.token.id, request.read, request.token.base)

IInv ==
    /\ TypeOK
    /\ TokensAreBased
    /\ \A h \in Handlers : RequestIsBased(requests[h])

LEMMA InitEstablishesIInv == Init => IInv
<1> SUFFICES ASSUME Init PROVE IInv
  OBVIOUS
<1>1. TypeOK
  BY EditsAssumption DEF Init, TypeOK
<1>2. \A h \in Handlers : requests[h].op = "idle"
  BY DEF Init, Idle
<1> QED
  BY <1>1, <1>2 DEF Init, IInv, TokensAreBased, RequestIsBased, Reads

\* Rows that go on never contradict what was read before.
LEMMA BasedKept ==
  ASSUME TypeOK, RowsGoOn, NEW c \in Ids, NEW revision \in Nat, NEW base, BasedOn(c, revision, base)
  PROVE  BasedOn(c, revision, base)'
<1>1. /\ Known(c) /\ customers[c].revision \in Nat
      /\ customers'[c].state # "none"
      /\ customers'[c] = customers[c] \/ customers'[c].revision > customers[c].revision
  BY StoredCustomers DEF BasedOn, RowsGoOn, GoneOn, Known
<1>2. customers'[c].revision \in Nat
  BY <1>1 DEF RowsGoOn, Customer, NoCustomer
<1> QED
  BY <1>1, <1>2 DEF BasedOn, Known

\* A step keeps the invariant if its rows go on and its new reviews and requests
\* say what the rows say then.
LEMMA StepsKeepBases ==
  ASSUME IInv, RowsGoOn, TypeOK',
         \A token \in tokens' \ tokens :
             token.kind = "edit" /\ token.revision > 0 =>
                 BasedOn(token.id, token.revision, token.base)',
         \A h \in Handlers : requests'[h] = requests[h] \/ RequestIsBased(requests[h])'
  PROVE  IInv'
<1>1. TypeOK /\ MaxRevision \in Nat
  BY EditsAssumption DEF IInv
<1>2. ASSUME NEW token \in tokens', token.kind = "edit", token.revision > 0
      PROVE  BasedOn(token.id, token.revision, token.base)'
  <2>1. CASE token \in tokens
    <3>1. token.id \in Ids /\ token.revision \in Nat
      BY <1>1, <1>2, <2>1, EditTokens DEF EditToken
    <3>2. BasedOn(token.id, token.revision, token.base)
      BY <1>2, <2>1 DEF IInv, TokensAreBased
    <3> QED
      BY <1>1, <3>1, <3>2, BasedKept
  <2> QED
    BY <1>2, <2>1
<1>3. ASSUME NEW h \in Handlers, requests'[h] = requests[h]
      PROVE  RequestIsBased(requests[h])'
  <2> DEFINE r == requests[h]
  <2>1. RequestIsBased(r)
    BY DEF IInv
  <2>2. ASSUME r.op \in Reads PROVE BasedOn(r.id, r.revision, r.value)'
    <3>1. r.id \in Ids /\ r.revision \in Nat
      BY <1>1, <2>2, RequestKinds DEF ReadRequest
    <3>2. BasedOn(r.id, r.revision, r.value)
      BY <2>1, <2>2 DEF RequestIsBased
    <3>3. /\ customers'[r.id].state # "none"
          /\ r.revision <= customers'[r.id].revision
          /\ r.revision = customers'[r.id].revision => r.value = customers'[r.id].value
      BY <1>1, <3>1, <3>2, BasedKept DEF BasedOn, Known
    <3> QED
      BY <1>3, <3>3 DEF BasedOn, Known
  <2>3. ASSUME r.op = "confirm" PROVE BasedOn(r.token.id, r.read, r.token.base)'
    <3>1. r.token.id \in Ids /\ r.read \in Nat
      BY <1>1, <2>3, RequestKinds DEF ConfirmRequest, EditToken
    <3>2. BasedOn(r.token.id, r.read, r.token.base)
      BY <2>1, <2>3 DEF RequestIsBased
    <3>3. /\ customers'[r.token.id].state # "none"
          /\ r.read <= customers'[r.token.id].revision
          /\ r.read = customers'[r.token.id].revision =>
                 r.token.base = customers'[r.token.id].value
      BY <1>1, <3>1, <3>2, BasedKept DEF BasedOn, Known
    <3> QED
      BY <1>3, <3>3 DEF BasedOn, Known
  <2> QED
    BY <1>3, <2>2, <2>3 DEF RequestIsBased
<1>4. TokensAreBased'
  BY <1>2 DEF TokensAreBased
<1> QED
  BY <1>3, <1>4 DEF IInv

-----------------------------------------------------------------------------
(* Steps *)

LEMMA PreviewNewKeepsIInv ==
  ASSUME IInv, NEW c \in Ids, NEW value \in Forms, PreviewNew(c, value)
  PROVE  IInv'
<1> DEFINE token == [kind |-> "edit", id |-> c, revision |-> 0, base |-> value, value |-> value]
<1>1. tokens' = tokens \union {token} /\ UNCHANGED <<customers, requests, restarts>>
  BY DEF PreviewNew, Issue
<1>2. token \in EditToken
  BY EditsAssumption DEF EditToken
<1>3. token.revision = 0
  OBVIOUS
<1> HIDE DEF token
<1>4. TypeOK'
  BY <1>1, <1>2 DEF IInv, TypeOK
<1> QED
  BY <1>1, <1>3, <1>4, UnchangedRowsGoOn, StepsKeepBases DEF IInv

LEMMA ReadRowKeepsIInv ==
  ASSUME IInv, NEW h \in Handlers, NEW op \in Reads, NEW c \in Ids, ReadRow(h, op, c)
  PROVE  IInv'
<1> DEFINE r == [op |-> op, complete |-> FALSE, id |-> c,
                 revision |-> customers[c].revision, value |-> customers[c].value]
<1>1. /\ requests' = [requests EXCEPT ![h] = r] /\ Active(c)
      /\ UNCHANGED <<customers, tokens, restarts>>
  BY DEF ReadRow
<1>2. /\ Known(c)
      /\ customers[c].revision \in 1 .. MaxRevision
      /\ customers[c].revision \in Nat
      /\ customers[c].value \in Definition
  BY <1>1, StoredCustomers DEF IInv, Active, Known
<1>3. r \in ReadRequest
  BY <1>2 DEF ReadRequest
<1>4. BasedOn(r.id, r.revision, r.value) /\ r.op # "confirm"
  BY <1>2 DEF BasedOn, Reads
<1> HIDE DEF r
<1>5. requests \in [Handlers -> Request \union {Idle}] /\ ReadRequest \subseteq Request
  BY DEF IInv, TypeOK, Request, ReadRequest, Reads
<1>6. /\ requests' \in [Handlers -> Request \union {Idle}]
      /\ requests'[h] = r
      /\ \A k \in Handlers : k # h => requests'[k] = requests[k]
  BY <1>1, <1>3, <1>5
<1>7. TypeOK'
  BY <1>1, <1>6 DEF IInv, TypeOK
<1>8. RequestIsBased(requests[h])'
  BY <1>1, <1>4, <1>6 DEF RequestIsBased, BasedOn, Known
<1> QED
  BY <1>1, <1>6, <1>7, <1>8, UnchangedRowsGoOn, StepsKeepBases DEF IInv

LEMMA ReadNetworksKeepsIInv ==
  ASSUME IInv, NEW h \in Handlers, ReadNetworks(h)
  PROVE  IInv'
<1> DEFINE r == requests[h]
           mixed == [r.value EXCEPT !.networks = customers[r.id].value.networks]
           new == [r EXCEPT !.complete = TRUE, !.value = mixed]
<1>1. /\ requests' = [requests EXCEPT ![h] = new] /\ r.op \in Reads
      /\ UNCHANGED <<customers, tokens, restarts>>
  BY DEF ReadNetworks, Reads
<1>2. r \in ReadRequest /\ BasedOn(r.id, r.revision, r.value)
  BY <1>1, RequestKinds DEF IInv, RequestIsBased
<1>3. /\ customers[r.id].value \in Definition
      /\ r.value \in Definition
  BY <1>2, StoredCustomers DEF IInv, BasedOn, ReadRequest
<1>4. /\ mixed \in Definition
      /\ r.value = customers[r.id].value => mixed = r.value
  BY <1>3 DEF Definition
<1> HIDE DEF mixed
<1>5. /\ new \in ReadRequest
      /\ new.op = r.op /\ new.id = r.id /\ new.revision = r.revision /\ new.value = mixed
  BY <1>2, <1>4 DEF ReadRequest
<1>6. BasedOn(new.id, new.revision, new.value) /\ new.op # "confirm"
  BY <1>1, <1>2, <1>4, <1>5 DEF BasedOn, Reads
<1> HIDE DEF r, new
<1>7. requests \in [Handlers -> Request \union {Idle}] /\ ReadRequest \subseteq Request
  BY DEF IInv, TypeOK, Request, ReadRequest, Reads
<1>8. /\ requests' \in [Handlers -> Request \union {Idle}]
      /\ requests'[h] = new
      /\ \A k \in Handlers : k # h => requests'[k] = requests[k]
  BY <1>1, <1>5, <1>7
<1>9. TypeOK'
  BY <1>1, <1>8 DEF IInv, TypeOK
<1>10. RequestIsBased(requests[h])'
  BY <1>1, <1>6, <1>8 DEF RequestIsBased, BasedOn, Known
<1> QED
  BY <1>1, <1>8, <1>9, <1>10, UnchangedRowsGoOn, StepsKeepBases DEF IInv

\* A request that is answered is gone; the others stay.
LEMMA AnswerTypes ==
  ASSUME IInv, NEW h \in Handlers, Answer(h)
  PROVE  /\ requests' \in [Handlers -> Request \union {Idle}]
         /\ \A k \in Handlers : requests'[k] = requests[k] \/ RequestIsBased(requests[k])'
<1>1. requests \in [Handlers -> Request \union {Idle}]
  BY DEF IInv, TypeOK
<1>2. /\ requests' \in [Handlers -> Request \union {Idle}]
      /\ \A k \in Handlers : requests'[k] = requests[k] \/ requests'[k] = Idle
  BY <1>1 DEF Answer
<1>3. \A k \in Handlers : requests'[k] = Idle => RequestIsBased(requests[k])'
  BY DEF RequestIsBased, Idle, Reads
<1> QED
  BY <1>2, <1>3

LEMMA PreviewKeepsIInv ==
  ASSUME IInv, NEW h \in Handlers, NEW value \in Forms, Preview(h, value)
  PROVE  IInv'
<1> DEFINE r == requests[h]
           token == [kind |-> "edit", id |-> r.id, revision |-> r.revision, base |-> r.value,
                     value |-> value]
<1>1. /\ tokens' = tokens \union {token} /\ Answer(h) /\ r.op \in Reads
      /\ UNCHANGED <<customers, restarts>>
  BY DEF Preview, Issue, Ready, Reads
<1>2. r \in ReadRequest /\ BasedOn(r.id, r.revision, r.value)
  BY <1>1, RequestKinds DEF IInv, RequestIsBased
<1>3. /\ token \in EditToken
      /\ token.id = r.id /\ token.revision = r.revision /\ token.base = r.value
  BY <1>2, EditsAssumption DEF EditToken, ReadRequest
<1>4. BasedOn(token.id, token.revision, token.base)
  BY <1>2, <1>3
<1> HIDE DEF r, token
<1>5. TypeOK'
  BY <1>1, <1>3, AnswerTypes DEF IInv, TypeOK
<1>6. BasedOn(token.id, token.revision, token.base) =>
      /\ customers'[token.id].state # "none"
      /\ token.revision <= customers'[token.id].revision
      /\ token.revision = customers'[token.id].revision => token.base = customers'[token.id].value
  BY <1>1 DEF BasedOn, Known
<1>7. \A t \in tokens' \ tokens : BasedOn(t.id, t.revision, t.base)'
  BY <1>1, <1>4, <1>6 DEF BasedOn, Known
<1> QED
  BY <1>1, <1>5, <1>7, AnswerTypes, UnchangedRowsGoOn, StepsKeepBases DEF IInv

LEMMA ConfirmNewKeepsIInv ==
  ASSUME IInv, NEW token \in tokens, ConfirmNew(token)
  PROVE  IInv'
<1>1. /\ token.kind = "edit"
      /\ CanCreate(customers, token.id, token.value)
      /\ customers' = Created(customers, token.id, token.value)
      /\ UNCHANGED <<tokens, requests, restarts>>
  BY DEF ConfirmNew
<1>2. token.id \in Ids /\ token.value \in Definition
  BY <1>1, EditTokens DEF IInv, EditToken
<1>3. RowsGoOn
  BY <1>1, <1>2, CreatedGoesOn DEF IInv
<1>4. TypeOK'
  BY <1>1, <1>3 DEF IInv, TypeOK, RowsGoOn
<1> QED
  BY <1>1, <1>3, <1>4, StepsKeepBases

LEMMA CheckRevisionKeepsIInv ==
  ASSUME IInv, NEW h \in Handlers, NEW token \in tokens, CheckRevision(h, token)
  PROVE  IInv'
<1> DEFINE r == [op |-> "confirm", read |-> customers[token.id].revision, token |-> token]
<1>1. /\ requests' = [requests EXCEPT ![h] = r]
      /\ token.kind = "edit" /\ token.revision > 0
      /\ customers[token.id].revision = token.revision
      /\ UNCHANGED <<customers, tokens, restarts>>
  BY DEF CheckRevision, IsCurrent
<1>2. BasedOn(token.id, token.revision, token.base)
  BY <1>1 DEF IInv, TokensAreBased
<1>3. token \in EditToken /\ token.id \in Ids
  BY <1>1, EditTokens DEF IInv, EditToken
<1>4. customers[token.id].revision \in 1 .. MaxRevision
  BY <1>2, <1>3, StoredCustomers DEF IInv, BasedOn
<1>5. r \in ConfirmRequest
  BY <1>3, <1>4 DEF ConfirmRequest
<1>6. /\ r.op = "confirm" /\ r.op \notin Reads
      /\ BasedOn(r.token.id, r.read, r.token.base)
  BY <1>1, <1>2 DEF Reads
<1> HIDE DEF r
<1>7. requests \in [Handlers -> Request \union {Idle}] /\ ConfirmRequest \subseteq Request
  BY DEF IInv, TypeOK, Request, ConfirmRequest
<1>8. /\ requests' \in [Handlers -> Request \union {Idle}]
      /\ requests'[h] = r
      /\ \A k \in Handlers : k # h => requests'[k] = requests[k]
  BY <1>1, <1>5, <1>7
<1>9. TypeOK'
  BY <1>1, <1>8 DEF IInv, TypeOK
<1>10. RequestIsBased(requests[h])'
  BY <1>1, <1>6, <1>8 DEF RequestIsBased, BasedOn, Known
<1> QED
  BY <1>1, <1>8, <1>9, <1>10, UnchangedRowsGoOn, StepsKeepBases DEF IInv

\* What an answered request saved or copied.
LEMMA AnsweredKeepsIInv ==
  ASSUME IInv, NEW h \in Handlers, Answer(h), RowsGoOn, UNCHANGED <<tokens, restarts>>
  PROVE  IInv'
<1>1. TypeOK'
  BY AnswerTypes DEF IInv, TypeOK, RowsGoOn
<1> QED
  BY <1>1, AnswerTypes, StepsKeepBases

LEMMA SaveConfirmedKeepsIInv ==
  ASSUME IInv, NEW h \in Handlers, SaveConfirmed(h)
  PROVE  IInv' /\ RowsGoOn
<1>1. /\ requests[h].op = "confirm" /\ Answer(h)
      /\ Save(requests[h].token.id, requests[h].token.value)
      /\ UNCHANGED <<tokens, restarts>>
  BY DEF SaveConfirmed
<1>2. requests[h].token.id \in Ids /\ requests[h].token.value \in Definition
  BY <1>1, RequestKinds DEF IInv, ConfirmRequest, EditToken
<1>3. RowsGoOn
  BY <1>1, <1>2, SaveGoesOn DEF IInv
<1> QED
  BY <1>1, <1>3, AnsweredKeepsIInv

LEMMA RandomizeKeepsIInv ==
  ASSUME IInv, NEW h \in Handlers, NEW slot \in Slots, Randomize(h, slot)
  PROVE  IInv' /\ RowsGoOn
<1> DEFINE value == [requests[h].value EXCEPT !.slot = slot]
<1>1. /\ requests[h].op \in Reads /\ Answer(h)
      /\ Save(requests[h].id, value)
      /\ UNCHANGED <<tokens, restarts>>
  BY DEF Randomize, Ready, Reads
<1>2. requests[h].id \in Ids /\ requests[h].value \in Definition
  BY <1>1, RequestKinds DEF IInv, ReadRequest
<1>3. value \in Definition
  BY <1>2 DEF Definition
<1> HIDE DEF value
<1>4. RowsGoOn
  BY <1>1, <1>2, <1>3, SaveGoesOn DEF IInv
<1> QED
  BY <1>1, <1>4, AnsweredKeepsIInv

LEMMA CloneKeepsIInv ==
  ASSUME IInv, NEW h \in Handlers, NEW c \in Ids, NEW slot \in Slots, Clone(h, c, slot)
  PROVE  IInv' /\ RowsGoOn
<1> DEFINE copy == [requests[h].value EXCEPT !.name = @ + 1, !.slot = slot]
<1>1. /\ requests[h].op \in Reads /\ Answer(h)
      /\ requests[h].value.name + 1 \in Names
      /\ \/ CanCreate(customers, c, copy) /\ customers' = Created(customers, c, copy)
         \/ UNCHANGED customers
      /\ UNCHANGED <<tokens, restarts>>
  BY DEF Clone, Ready, Reads
<1>2. requests[h].value \in Definition
  BY <1>1, RequestKinds DEF IInv, ReadRequest
<1>3. copy \in Definition
  BY <1>1, <1>2 DEF Definition
<1> HIDE DEF copy
<1>4. RowsGoOn
  BY <1>1, <1>3, CreatedGoesOn, UnchangedRowsGoOn DEF IInv
<1> QED
  BY <1>1, <1>4, AnsweredKeepsIInv

LEMMA DeleteKeepsIInv ==
  ASSUME IInv, NEW c \in Ids, Delete(c)
  PROVE  IInv' /\ RowsGoOn
<1>1. RowsGoOn /\ UNCHANGED <<tokens, requests, restarts>>
  BY DeleteGoesOn DEF IInv, Delete
<1>2. TypeOK'
  BY <1>1 DEF IInv, TypeOK, RowsGoOn
<1> QED
  BY <1>1, <1>2, StepsKeepBases

LEMMA ImportsKeepIInv ==
  ASSUME IInv,
         \/ \E document \in Documents : ImportPreview(document)
         \/ \E token \in tokens : ImportApply(token)
  PROVE  IInv' /\ RowsGoOn
<1>1. CASE \E document \in Documents : ImportPreview(document)
  <2>1. PICK document \in Documents : ImportPreview(document)
    BY <1>1
  <2> DEFINE token == [kind |-> "import",
                       items |-> [i \in DOMAIN document |-> MatchByName(document[i])]]
  <2>2. /\ tokens' = tokens \union {token}
        /\ UNCHANGED <<customers, requests, restarts>>
    BY <2>1 DEF ImportPreview, Issue
  <2>3. document \in Seq(Item)
    BY EditsAssumption
  <2>4. token \in ImportToken
    BY <2>3, MatchedItems
  <2>5. token.kind = "import"
    OBVIOUS
  <2> HIDE DEF token
  <2>6. TypeOK'
    BY <2>2, <2>4 DEF IInv, TypeOK
  <2>7. RowsGoOn
    BY <2>2, UnchangedRowsGoOn DEF IInv
  <2> QED
    BY <2>2, <2>5, <2>6, <2>7, StepsKeepBases
<1>2. CASE \E token \in tokens : ImportApply(token)
  <2>1. RowsGoOn /\ UNCHANGED <<tokens, requests, restarts>>
    BY <1>2, ImportApplyGoesOn DEF IInv, ImportApply
  <2>2. TypeOK'
    BY <2>1 DEF IInv, TypeOK, RowsGoOn
  <2> QED
    BY <2>1, <2>2, StepsKeepBases
<1> QED
  BY <1>1, <1>2

LEMMA ForgettingKeepsIInv ==
  ASSUME IInv, (\E token \in tokens : Expire(token)) \/ Restart \/ UNCHANGED vars
  PROVE  IInv' /\ RowsGoOn
<1>1. /\ UNCHANGED customers /\ tokens' \subseteq tokens
      /\ requests' = requests \/ requests' = [h \in Handlers |-> Idle]
      /\ restarts' \in 0 .. MaxRestarts
  BY EditsAssumption DEF Expire, Restart, vars, IInv, TypeOK
<1>2. \A h \in Handlers : requests'[h] = requests[h] \/ requests'[h] = Idle
  BY <1>1
<1>3. \A h \in Handlers : requests'[h] = Idle => RequestIsBased(requests[h])'
  BY DEF RequestIsBased, Idle, Reads
<1>4. requests' \in [Handlers -> Request \union {Idle}]
  BY <1>1 DEF IInv, TypeOK
<1>5. TypeOK'
  BY <1>1, <1>4 DEF IInv, TypeOK
<1>6. RowsGoOn
  BY <1>1, UnchangedRowsGoOn DEF IInv
<1> QED
  BY <1>1, <1>2, <1>3, <1>5, <1>6, StepsKeepBases

LEMMA StepKeepsIInv ==
  ASSUME IInv, [Next]_vars
  PROVE  IInv' /\ RowsGoOn
<1>1. CASE \/ \E c \in Ids, value \in Forms : PreviewNew(c, value)
           \/ \E h \in Handlers, c \in Ids, op \in {"preview", "randomize", "clone"} :
                  ReadRow(h, op, c)
           \/ \E h \in Handlers :
                  \/ ReadNetworks(h)
                  \/ \E value \in Forms : Preview(h, value)
                  \/ \E token \in tokens : CheckRevision(h, token)
  <2>1. UNCHANGED customers
    BY <1>1 DEF PreviewNew, ReadRow, ReadNetworks, Preview, CheckRevision
  <2> QED
    BY <1>1, <2>1, UnchangedRowsGoOn, PreviewNewKeepsIInv, ReadRowKeepsIInv, ReadNetworksKeepsIInv,
       PreviewKeepsIInv, CheckRevisionKeepsIInv DEF IInv, Reads
<1>2. CASE \E token \in tokens : ConfirmNew(token)
  <2>1. PICK token \in tokens : ConfirmNew(token)
    BY <1>2
  <2>2. token.id \in Ids /\ token.value \in Definition
    BY <2>1, EditTokens DEF IInv, EditToken, ConfirmNew
  <2> QED
    BY <2>1, <2>2, ConfirmNewKeepsIInv, CreatedGoesOn DEF IInv, ConfirmNew
<1> QED
  BY <1>1, <1>2, SaveConfirmedKeepsIInv, RandomizeKeepsIInv, CloneKeepsIInv, DeleteKeepsIInv,
     ImportsKeepIInv, ForgettingKeepsIInv DEF Next

LEMMA IInvHolds == Spec => []IInv
<1>1. IInv /\ [Next]_vars => IInv'
  BY StepKeepsIInv
<1> QED
  BY <1>1, InitEstablishesIInv, PTL DEF Spec

-----------------------------------------------------------------------------
(* Theorems *)

\* The state keeps its type, whatever is entered, imported, cloned or deleted.
THEOREM TypeCorrect == Spec => []TypeOK
<1>1. IInv => TypeOK
  BY DEF IInv
<1> QED
  BY <1>1, IInvHolds, PTL

\* A review that would be accepted was compared with the definition that stands,
\* because the revision of a row stands for its definition (customerPreviewExisting,
\* customerUpdate).
THEOREM ReviewsAreCurrent == Spec => []ReviewsShowWhatStands
<1>1. ASSUME IInv, NEW token \in tokens, token.kind = "edit", IsCurrent(token)
      PROVE  customers[token.id].value = token.base
  <2>1. /\ token.revision > 0 /\ customers[token.id].revision = token.revision
    BY <1>1 DEF IsCurrent
  <2>2. BasedOn(token.id, token.revision, token.base)
    BY <1>1, <2>1 DEF IInv, TokensAreBased
  <2>3. token.revision \in Nat
    BY <1>1, EditTokens, EditsAssumption DEF IInv, EditToken
  <2> QED
    BY <2>1, <2>2, <2>3 DEF BasedOn
<1>2. IInv => ReviewsShowWhatStands
  BY <1>1 DEF ReviewsShowWhatStands
<1> QED
  BY <1>2, IInvHolds, PTL

\* No review, request or import restores or changes a deleted customer
\* (UpdateCustomer, ApplyImport, SoftDeleteCustomer).
THEOREM DeletedStays == Spec => DeletedStaysDeleted
<1>1. IInv /\ [Next]_vars =>
      [\A c \in Ids : customers[c].state = "deleted" => customers'[c] = customers[c]]_vars
  BY StepKeepsIInv DEF RowsGoOn, GoneOn
<1> QED
  BY <1>1, IInvHolds, PTL DEF Spec, DeletedStaysDeleted

\* Every change of a row, the items of an import one by one, gives it a later
\* revision (UpdateCustomer, ApplyImport, SoftDeleteCustomer).
THEOREM RevisionsName == Spec => RevisionsNameDefinitions
<1>1. ASSUME IInv, [Next]_vars, NEW c \in Ids, Known(c)
      PROVE  /\ customers'[c].revision >= customers[c].revision
             /\ customers'[c].revision = customers[c].revision => customers'[c] = customers[c]
  <2>1. /\ customers'[c].state # "none"
        /\ customers'[c] = customers[c] \/ customers'[c].revision > customers[c].revision
    BY <1>1, StepKeepsIInv DEF RowsGoOn, GoneOn, Known
  <2>2. customers[c].revision \in Nat /\ customers'[c].revision \in Nat
    BY <1>1, <2>1, StepKeepsIInv, StoredCustomers DEF IInv, RowsGoOn, Customer, NoCustomer
  <2> QED
    BY <2>1, <2>2
<1>2. IInv /\ [Next]_vars =>
      [\A c \in Ids : Known(c) =>
           /\ customers'[c].revision >= customers[c].revision
           /\ customers'[c].revision = customers[c].revision => customers'[c] = customers[c]]_vars
  BY <1>1
<1> QED
  BY <1>2, IInvHolds, PTL DEF Spec, RevisionsNameDefinitions
=============================================================================
