--------------------------- MODULE ReconcilerProofs ---------------------------
(***************************************************************************)
(* Proofs about reconciliation, for every value of the constants. What is  *)
(* said of markers is proved for definitions in which no marker is found   *)
(* in another one (UniqueMarkers).                                         *)
(***************************************************************************)
EXTENDS ReconcilerProperties, FiniteSetTheorems, SequenceTheorems, NaturalRecursion, TLAPS

-----------------------------------------------------------------------------
(* Keys and plans *)

Kinds == {"schedule", "target", "task"}

LEMMA SeqsAreSmall == Seqs \subseteq 1 .. 1024 /\ Seqs # {}
  BY ConstantsAssumption DEF Definition, Seqs

\* Keys are pairs of a kind and a number; every target has a task.
LEMMA KeysAreKeys ==
  /\ ScheduleKey \in Keys
  /\ \A s \in Seqs : TargetKey(s) \in Keys /\ TaskKey(s) \in Keys
  /\ \A k \in Keys :
        /\ k[1] \in Kinds /\ k[2] \in 0 .. 1024
        /\ k = <<k[1], k[2]>>
        /\ k # Unmarked
        /\ k[1] # "schedule" => k[2] \in Seqs
        /\ k[1] = "schedule" => k = ScheduleKey
<1>1. Seqs \subseteq 1 .. 1024
  BY SeqsAreSmall
<1>2. \A k \in Keys : \/ k = <<"schedule", 0>>
                      \/ \E s \in Seqs : k = <<"target", s>> \/ k = <<"task", s>>
  BY DEF Keys, ScheduleKey, TargetKey, TaskKey
<1>3. ScheduleKey \in Keys /\ \A s \in Seqs : TargetKey(s) \in Keys /\ TaskKey(s) \in Keys
  BY DEF Keys
<1>4. ASSUME NEW k \in Keys
      PROVE  /\ k[1] \in Kinds /\ k[2] \in 0 .. 1024
             /\ k = <<k[1], k[2]>>
             /\ k # Unmarked
             /\ k[1] # "schedule" => k[2] \in Seqs
             /\ k[1] = "schedule" => k = ScheduleKey
  <2>1. CASE k = <<"schedule", 0>>
    BY <2>1 DEF Kinds, Unmarked, ScheduleKey
  <2>2. CASE \E s \in Seqs : k = <<"target", s>> \/ k = <<"task", s>>
    BY <2>2, <1>1 DEF Kinds, Unmarked
  <2> QED
    BY <2>1, <2>2, <1>2
<1> QED
  BY <1>3, <1>4, Zenon

\* Every marker is found in itself, and none in the comment of an unmarked object.
LEMMA OwnMarkerShows == \A k \in Keys : Shows(k, k) /\ ~Shows(Unmarked, k)
<1>1. \A k \in Keys : k[1] \in Kinds /\ k[1] # "other"
  BY KeysAreKeys DEF Kinds
<1>2. Unmarked[1] = "other"
  BY DEF Unmarked
<1>3. \A k \in Keys : BeginsWith(k[2], k[2])
  BY DEF BeginsWith
<1> QED
  BY <1>1, <1>2, <1>3, Zenon DEF Shows

LEMMA LastSeqIsLast == LastSeq \in Seqs /\ LastSeq \in Nat /\ \A t \in Seqs : t <= LastSeq
<1> DEFINE T == {1024 - s : s \in Seqs}
<1>1. T \in SUBSET Nat /\ T # {}
  <2>1. \A s \in Seqs : 1024 - s \in Nat
    BY SeqsAreSmall
  <2>2. T \subseteq Nat
    BY <2>1
  <2>3. T # {}
    BY SeqsAreSmall
  <2> QED
    BY <2>2, <2>3
<1>2. PICK x \in T : \A y \in T : x <= y
  BY <1>1, LeastElement
<1>3. PICK s \in Seqs : x = 1024 - s
  BY <1>2
<1>4. \A t \in Seqs : t <= s
  <2> SUFFICES ASSUME NEW t \in Seqs PROVE t <= s
    OBVIOUS
  <2>1. 1024 - s <= 1024 - t
    BY <1>2, <1>3
  <2> QED
    BY <2>1, SeqsAreSmall
<1>5. LastSeq \in Seqs /\ \A t \in Seqs : t <= LastSeq
  BY <1>4 DEF LastSeq
<1> QED
  BY <1>5, SeqsAreSmall

\* A plan is made target by target.
PlanRuns(S, f) ==
    /\ f[0] = <<ScheduleKey>>
    /\ \A s \in 1 .. LastSeq :
          f[s] = IF s \in S THEN f[s - 1] \o <<TargetKey(s), TaskKey(s)>> ELSE f[s - 1]
    /\ f[LastSeq] = Plan(S)

LEMMA PlanByTargets ==
  ASSUME NEW S \in SUBSET Seqs
  PROVE  \E f \in [0 .. LastSeq -> Seq(Keys)] : PlanRuns(S, f)
<1> DEFINE n == LastSeq
           Q == Seq(Keys)
           first == <<ScheduleKey>>
           next(s, p) == IF s \in S THEN p \o <<TargetKey(s), TaskKey(s)>> ELSE p
           Recursion(f) == f = [s \in 0 .. n |-> IF s = 0 THEN first ELSE next(s, f[s - 1])]
           upTo == CHOOSE f : Recursion(f)
<1>1. n \in Nat
  BY LastSeqIsLast
<1>2. Plan(S) = upTo[n]
  <2>1. \A f, s : (IF s = 0 THEN <<ScheduleKey>>
                   ELSE IF s \in S THEN f[s - 1] \o <<TargetKey(s), TaskKey(s)>>
                   ELSE f[s - 1])
                  = (IF s = 0 THEN first ELSE next(s, f[s - 1]))
    OBVIOUS
  <2> QED
    BY <2>1, Zenon DEF Plan
<1>3. first \in Q
  BY KeysAreKeys
<1>4. ASSUME NEW s \in 1 .. n, NEW p \in Q PROVE next(s, p) \in Q
  <2>1. CASE s \in S
    <3>1. <<TargetKey(s), TaskKey(s)>> \in Seq(Keys)
      BY <2>1, KeysAreKeys
    <3> QED
      BY <2>1, <3>1, ConcatProperties
  <2> QED
    BY <2>1
<1> HIDE DEF n, Q, first, next
<1>5. PICK f \in [0 .. n -> Q] : Runs(f, n, first, [s \in 1 .. n |-> [p \in Q |-> next(s, p)]])
  <2> DEFINE step == [s \in 1 .. n |-> [p \in Q |-> next(s, p)]]
  <2>1. step \in Steps(n, Q)
    BY <1>4 DEF Steps
  <2> HIDE DEF step
  <2>2. HasRun(n, Q, first, step)
    BY <1>1, <1>3, <2>1, RecursionOverInterval
  <2> QED
    BY <2>2 DEF HasRun, step
<1>6. f[0] = first /\ \A s \in 1 .. n : f[s] = next(s, f[s - 1])
  <2>1. \A s \in 1 .. n : f[s - 1] \in Q
    BY <1>1
  <2> QED
    BY <1>5, <2>1, Zenon DEF Runs
<1>7. f = [s \in 0 .. n |-> IF s = 0 THEN first ELSE next(s, f[s - 1])]
  BY <1>1, <1>5, <1>6
<1>8. Recursion(upTo)
  BY <1>7
<1> HIDE DEF upTo
<1>9. upTo[0] = first /\ \A s \in 1 .. n : upTo[s] = next(s, upTo[s - 1])
  BY <1>1, <1>8
<1> DEFINE good == {s \in 0 .. n : upTo[s] \in Q}
<1>10. 0 \in good
  BY <1>1, <1>3, <1>9
<1>11. ASSUME NEW s \in 1 .. n, s - 1 \in good PROVE s \in good
  BY <1>1, <1>4, <1>9, <1>11
<1> HIDE DEF good
<1>12. 0 .. n \subseteq good
  BY <1>1, <1>10, <1>11, UpTo
<1>13. upTo \in [0 .. n -> Q]
  BY <1>8, <1>12 DEF good
<1>14. upTo \in [0 .. LastSeq -> Seq(Keys)]
  BY <1>13 DEF n, Q
<1>15. PlanRuns(S, upTo)
  BY <1>2, <1>9 DEF PlanRuns, n, first, next
<1> QED
  BY <1>14, <1>15

\* A plan lists keys of this customer.
LEMMA PlanIsSequence == ASSUME NEW S \in SUBSET Seqs PROVE Plan(S) \in Seq(Keys)
<1>1. PICK f \in [0 .. LastSeq -> Seq(Keys)] : PlanRuns(S, f)
  BY PlanByTargets
<1>2. LastSeq \in 0 .. LastSeq
  BY LastSeqIsLast
<1> QED
  BY <1>1, <1>2 DEF PlanRuns

\* Cleanup begins with a surplus key that none is to be removed before.
LEMMA SomeKeyGoesFirst ==
  ASSUME NEW T \in SUBSET Keys, T # {}
  PROVE  \E k \in T : \A l \in T : Before(k, l)
<1> DEFINE rank(k) == Priority(k[1]) * 2000 + (1024 - k[2])
           R == {rank(k) : k \in T}
<1>1. \A k \in T : k[1] \in Kinds /\ k[2] \in 0 .. 1024
  BY KeysAreKeys
<1>2. \A x \in Kinds : Priority(x) \in 1 .. 3
  BY DEF Kinds, Priority
<1>3. \A x, y \in Kinds : Priority(x) = Priority(y) => x = y
  BY DEF Kinds, Priority
<1>4. R \in SUBSET Nat /\ R # {}
  <2>2. \A k \in T : Priority(k[1]) \in 1 .. 3 /\ k[2] \in 0 .. 1024
    BY <1>1, <1>2
  <2>3. ASSUME NEW k \in T PROVE rank(k) \in Nat
    <3> DEFINE p == Priority(k[1])
               m == k[2]
    <3>1. p \in 1 .. 3 /\ m \in 0 .. 1024
      BY <2>2
    <3>2. p * 2000 + (1024 - m) \in Nat
      <4> HIDE DEF p, m
      <4> QED
        BY <3>1
    <3> QED
      BY <3>2
  <2> HIDE DEF rank
  <2> QED
    BY <2>3
<1>5. PICK x \in R : \A y \in R : x <= y
  BY <1>4, LeastElement
<1>6. PICK k \in T : x = rank(k)
  BY <1>5
<1>7. ASSUME NEW l \in T PROVE Before(k, l)
  <2>1. rank(k) <= rank(l)
    BY <1>5, <1>6
  <2>2. Priority(k[1]) \in 1 .. 3 /\ Priority(l[1]) \in 1 .. 3 /\ k[2] \in 0 .. 1024 /\ l[2] \in 0 .. 1024
    BY <1>1, <1>2
  <2>3. Priority(k[1]) < Priority(l[1]) \/ (Priority(k[1]) = Priority(l[1]) /\ k[2] >= l[2])
    <3> DEFINE p == Priority(k[1])
               q == Priority(l[1])
               m == k[2]
               o == l[2]
    <3>1. p \in 1 .. 3 /\ q \in 1 .. 3 /\ m \in 0 .. 1024 /\ o \in 0 .. 1024
      BY <2>2
    <3>2. p * 2000 + (1024 - m) <= q * 2000 + (1024 - o)
      BY <2>1
    <3>3. p < q \/ (p = q /\ m >= o)
      <4> HIDE DEF p, q, m, o
      <4> QED
        BY <3>1, <3>2
    <3> QED
      BY <3>3
  <2> QED
    BY <2>3, <1>1, <1>3 DEF Before
<1> QED
  BY <1>7

-----------------------------------------------------------------------------
(* Types *)

LEMMA Numbers == MaxObjects \in Nat /\ Ids = 1 .. MaxObjects /\ NoId = 0 /\ NoId \notin Ids
  BY ConstantsAssumption DEF Ids, NoId

LEMMA ContentTypes == NoContent \in Content /\ \A v \in Nat : Version(v) \in Content
  BY DEF NoContent, Content, Version

LEMMA DefinitionTypes ==
  \A d \in Definitions : /\ d.schedule \in Nat /\ d.networks \in Nat /\ d.policy \in Nat
                         /\ d.seqs \in SUBSET Seqs
  BY ConstantsAssumption DEF Definition, Seqs

LEMMA LoadTypes == ASSUME NEW d \in Desired PROVE Load(d) \in Loaded
  BY DefinitionTypes DEF Load, Loaded, Desired

LEMMA RowTypes ==
  ASSUME rows \in [Keys -> Row \union {NoRow}], NEW k \in Keys
  PROVE  /\ rows[k] \in Row \union {NoRow}
         /\ rows[k].id \in Ids \union {NoId}
         /\ rows[k].content \in Content
  BY ContentTypes DEF Row, NoRow

LEMMA NoRowTypes == NoRow.id = NoId /\ NoRow \notin Row /\ NoRow.state = "none" /\ NoRow.content = NoContent
  BY DEF NoRow, Row

\* What is wanted of an object has the type of a content.
LEMMA WantedTypes == ASSUME TypeOK, NEW k \in Keys PROVE Wanted(k) \in Content
<1>1. want.schedule \in Nat /\ want.networks \in Nat /\ want.policy \in Nat
  BY DEF TypeOK, Loaded
<1>2. k[1] \in Kinds
  BY KeysAreKeys
<1>3. CASE k[1] = "schedule"
  BY <1>1, <1>3, ContentTypes DEF Wanted, ContentOf
<1>4. CASE k[1] = "target"
  BY <1>1, <1>4, ContentTypes DEF Wanted, ContentOf
<1>5. CASE k[1] = "task"
  <2>1. TargetKey(k[2]) \in Keys /\ ScheduleKey \in Keys
    BY <1>5, KeysAreKeys
  <2>2. rows[TargetKey(k[2])].id \in Ids \union {NoId} /\ rows[ScheduleKey].id \in Ids \union {NoId}
    BY <2>1, RowTypes DEF TypeOK
  <2>3. Wanted(k) = [version |-> want.policy, target |-> rows[TargetKey(k[2])].id,
                     schedule |-> rows[ScheduleKey].id]
    BY <1>5 DEF Wanted, ContentOf
  <2> QED
    BY <1>1, <2>2, <2>3 DEF Content
<1> QED
  BY <1>2, <1>3, <1>4, <1>5 DEF Kinds

\* The rows that a pass writes.
RowWithoutRetention(k) == [rows EXCEPT ![k].state = "error"]

LEMMA RetentionRow ==
  ASSUME rows \in [Keys -> Row \union {NoRow}], NEW k \in Keys
  PROVE  /\ RowWithoutRetention(k) \in [Keys -> Row \union {NoRow}]
         /\ RowWithoutRetention(k)[k] =
                [state |-> "error", id |-> rows[k].id, content |-> rows[k].content]
         /\ \A l \in Keys \ {k} : RowWithoutRetention(k)[l] = rows[l]
<1> DEFINE row == [rows[k] EXCEPT !.state = "error"]
<1>1. row = [state |-> "error", id |-> rows[k].id, content |-> rows[k].content]
  BY DEF Row, NoRow
<1>2. row \in Row
  BY <1>1, RowTypes DEF Row
<1>3. RowWithoutRetention(k) = [rows EXCEPT ![k] = row]
  BY DEF RowWithoutRetention
<1> HIDE DEF row
<1> QED
  BY <1>1, <1>2, <1>3

LEMMA WrittenRows ==
  ASSUME TypeOK, NEW k \in Keys
  PROVE  /\ RowInError(k) \in [Keys -> Row \union {NoRow}]
         /\ RowWithoutAnswer(k) \in [Keys -> Row \union {NoRow}]
         /\ found # NoId => Checkpointed(k) \in Row
         /\ [state |-> "creating", id |-> NoId, content |-> Wanted(k)] \in Row
         /\ RowInError(k)[k].id = found /\ RowInError(k)[k].state = "error"
         /\ RowInError(k)[k].content = rows[k].content
         /\ RowWithoutAnswer(k)[k].id = NoId /\ RowWithoutAnswer(k)[k].state = "error"
         /\ RowWithoutAnswer(k)[k].content = Wanted(k)
         /\ \A l \in Keys \ {k} : RowInError(k)[l] = rows[l] /\ RowWithoutAnswer(k)[l] = rows[l]
<1>1. rows \in [Keys -> Row \union {NoRow}] /\ found \in Ids \union {NoId}
  BY DEF TypeOK
<1>2. Wanted(k) \in Content
  BY WantedTypes
<1>3. rows[k] \in Row \union {NoRow} /\ rows[k].content \in Content
  BY <1>1, RowTypes
<1> DEFINE failed == [rows[k] EXCEPT !.state = "error", !.id = found]
<1>4. failed = [state |-> "error", id |-> found, content |-> rows[k].content]
  <2>1. PICK s, i, c : rows[k] = [state |-> s, id |-> i, content |-> c]
    BY <1>3 DEF Row, NoRow
  <2>2. [[state |-> s, id |-> i, content |-> c] EXCEPT !.state = "error"]
           = [state |-> "error", id |-> i, content |-> c]
    OBVIOUS
  <2>3. [[state |-> "error", id |-> i, content |-> c] EXCEPT !.id = found]
           = [state |-> "error", id |-> found, content |-> c]
    OBVIOUS
  <2>4. [rows[k] EXCEPT !.state = "error"] = [state |-> "error", id |-> i, content |-> c]
    BY <2>1, <2>2, Zenon
  <2>5. failed = [[state |-> "error", id |-> i, content |-> c] EXCEPT !.id = found]
    BY <2>4, Zenon
  <2>6. rows[k].content = c
    BY <2>1
  <2> QED
    BY <2>3, <2>5, <2>6, Zenon
<1>5. failed \in Row
  BY <1>1, <1>3, <1>4 DEF Row
<1>6. RowInError(k) = [rows EXCEPT ![k] = failed]
  BY <1>1 DEF RowInError
<1> DEFINE lost == [state |-> "error", id |-> NoId, content |-> Wanted(k)]
<1>7. lost \in Row
  BY <1>2 DEF Row
<1>8. /\ failed.id = found /\ failed.state = "error" /\ failed.content = rows[k].content
      /\ lost.id = NoId /\ lost.state = "error" /\ lost.content = Wanted(k)
  BY <1>4
<1>9. RowWithoutAnswer(k) = [rows EXCEPT ![k] = lost]
  BY DEF RowWithoutAnswer
<1>10. /\ found # NoId => Checkpointed(k) \in Row
       /\ [state |-> "creating", id |-> NoId, content |-> Wanted(k)] \in Row
  BY <1>1, <1>2 DEF Row, Checkpointed
<1> HIDE DEF failed, lost
<1> QED
  BY <1>1, <1>5, <1>6, <1>7, <1>8, <1>9, <1>10

-----------------------------------------------------------------------------
(* What a pass knows *)

Applying == {"recover", "own", "modify", "create", "checkpoint"}
Removing == {"find", "trash", "delete", "drop"}

\* What every step of a pass starts from, and what a pass leaves in the end: no
\* rows but those of the definition that was loaded.
PassInv ==
    /\ pc \in Applying => todo # <<>>
    /\ pc \in {"own", "modify", "checkpoint", "delete"} => found # NoId
    /\ pc \in {"recover", "create", "find"} => found = NoId
    /\ pc = "drop" => ~Live(found)
    /\ pc = "finish" => \A k \in Keys \ KeysOf(want) : rows[k] = NoRow
    /\ status \in {"applied", "deleted"} =>
           /\ pc \in {"idle", "networks", "begin"}
           /\ \A k \in Keys \ KeysOf(shown) : rows[k] = NoRow

-----------------------------------------------------------------------------
(* Steps keep types *)

Typed == TypeOK /\ PassInv

LEMMA InitIsTyped == Init => Typed
<1> SUFFICES ASSUME Init PROVE Typed
  OBVIOUS
<1> USE DEF Init
<1>1. desired \in Desired
  <2>1. PICK d \in Definitions : desired = [def |-> d, deleted |-> FALSE]
    BY DEF NotDeleted
  <2> QED
    BY <2>1 DEF Desired
<1>2. want \in Loaded
  BY <1>1, LoadTypes
<1>3. objects \in [Ids -> Object \union {Gone}] /\ rows \in [Keys -> Row \union {NoRow}]
  OBVIOUS
<1>4. 0 \in 0 .. MaxObjects /\ 0 \in 0 .. MaxEdits /\ 0 \in 0 .. MaxFaults /\ 0 \in 0 .. MaxMeddling
  BY ConstantsAssumption
<1>5. todo \in Seq(Keys)
  OBVIOUS
<1>6. TypeOK
  BY <1>1, <1>2, <1>3, <1>4, <1>5, KeysAreKeys DEF TypeOK, Statuses, Pcs
<1>7. PassInv
  BY DEF PassInv, Applying
<1> QED
  BY <1>6, <1>7 DEF Typed


\* Steps of a pass that leave rows and objects alone.
LEMMA BeginTyped == Typed /\ Begin => Typed'
<1> SUFFICES ASSUME Typed, Begin PROVE Typed'
  OBVIOUS
<1> USE DEF Typed, TypeOK, Begin, Outside
<1>1. want' \in Loaded
  <2>1. Load(desired) \in Loaded
    BY LoadTypes
  <2>2. \A w \in Loaded : [w EXCEPT !.networks = 0, !.seqs = {}] \in Loaded
    <3>1. SUFFICES ASSUME NEW w \in Loaded PROVE [[w EXCEPT !.networks = 0] EXCEPT !.seqs = {}] \in Loaded
      OBVIOUS
    <3>2. [w EXCEPT !.networks = 0] \in Loaded
      BY DEF Loaded
    <3> QED
      BY <3>2 DEF Loaded
  <2> QED
    BY <2>1, <2>2
<1>2. TypeOK'
  BY <1>1, KeysAreKeys DEF Pcs
<1>3. PassInv'
  BY DEF PassInv, Applying
<1> QED
  BY <1>2, <1>3

LEMMA LoadNetworksTyped == Typed /\ LoadNetworks => Typed'
<1> SUFFICES ASSUME Typed, LoadNetworks PROVE Typed'
  OBVIOUS
<1> USE DEF Typed, TypeOK, LoadNetworks, Outside
<1>1. want' \in Loaded
  <2>1. desired.def.networks \in Nat /\ desired.def.seqs \in SUBSET Seqs
    BY DefinitionTypes DEF Desired
  <2>2. [want EXCEPT !.networks = desired.def.networks] \in Loaded
    BY <2>1 DEF Loaded
  <2>3. [[want EXCEPT !.networks = desired.def.networks] EXCEPT !.seqs = desired.def.seqs] \in Loaded
    BY <2>1, <2>2 DEF Loaded
  <2> QED
    BY <2>3
<1>2. TypeOK'
  BY <1>1 DEF Pcs
<1>3. PassInv'
  BY DEF PassInv, Applying
<1> QED
  BY <1>2, <1>3

LEMMA MarkSyncingTyped == Typed /\ MarkSyncing => Typed'
<1> SUFFICES ASSUME Typed, MarkSyncing PROVE Typed'
  OBVIOUS
<1> USE DEF Typed, TypeOK, MarkSyncing, Outside
<1>1. todo' \in Seq(Keys)
  <2>1. want.seqs \in SUBSET Seqs
    BY DEF Loaded
  <2>2. Plan(want.seqs) \in Seq(Keys)
    BY <2>1, PlanIsSequence
  <2> QED
    BY <2>2
<1>2. TypeOK'
  BY <1>1 DEF Pcs, Statuses
<1>3. PassInv'
  BY DEF PassInv, Applying
<1> QED
  BY <1>2, <1>3

\* An error ends the pass.
LEMMA FailTyped ==
  ASSUME Typed, Fail, UNCHANGED <<desired, shown>>
  PROVE  /\ PassInv'
         /\ status' \in Statuses /\ pc' \in Pcs /\ want' \in Loaded /\ todo' \in Seq(Keys)
         /\ victim' \in Keys /\ found' \in Ids \union {NoId}
  BY DEF Typed, TypeOK, Fail, PassInv, Applying, Statuses, Pcs

\* What is to be done next is a key.
LEMMA NextKey ==
  ASSUME Typed, todo # <<>>
  PROVE  Head(todo) \in Keys /\ Tail(todo) \in Seq(Keys)
  BY HeadTailProperties DEF Typed, TypeOK

\* While a pass works the status does not say that it is done.
LEMMA NotDoneYet ==
  ASSUME Typed, pc \notin {"idle", "networks", "begin"}
  PROVE  status \notin {"applied", "deleted"}
  BY DEF Typed, PassInv

\* What the rows have held.
LEMMA LearnTyped ==
  ASSUME Typed, Learn, rows' \in [Keys -> Row \union {NoRow}]
  PROVE  known' \subseteq Ids
<1>1. \A k \in Keys : rows'[k].id \in Ids \union {NoId}
  BY DEF Row, NoRow
<1> QED
  BY <1>1 DEF Learn, Typed, TypeOK

LEMMA ApplyTyped == Typed /\ Apply => Typed'
<1> SUFFICES ASSUME Typed, Apply PROVE Typed'
  OBVIOUS
<1> DEFINE k == Head(todo)
<1>1. pc = "work" /\ k \in Keys /\ Tail(todo) \in Seq(Keys) /\ todo # <<>>
  BY NextKey DEF Apply
<1>2. status \notin {"applied", "deleted"}
  BY <1>1, NotDoneYet
<1>3. rows \in [Keys -> Row \union {NoRow}] /\ rows[k].id \in Ids \union {NoId}
  BY <1>1, RowTypes DEF Typed, TypeOK
<1>4. CASE Release(k)
  <2>1. TaskKey(k[2]) \in Keys
    BY <1>1, <1>4, KeysAreKeys DEF Release, ReleasesTask
  <2>2. rows[TaskKey(k[2])].id \in Ids \union {NoId}
    BY <1>3, <2>1, RowTypes
  <2>3. victim' \in Keys /\ found' \in Ids \union {NoId} /\ pc' \in {"find", "trash"}
        /\ (pc' = "find" => found' = NoId)
    BY <1>4, <2>1, <2>2 DEF Release
  <2>4. UNCHANGED <<want, todo, status, rows, objects, created, faults, orphans, known, Outside>>
    BY <1>4 DEF Release
  <2>5. TypeOK'
    BY <2>3, <2>4 DEF Typed, TypeOK, Pcs, Outside
  <2>6. PassInv'
    BY <2>3, <2>4, <1>2 DEF PassInv, Applying
  <2> QED
    BY <2>5, <2>6 DEF Typed
<1>5. CASE Skip(k)
  <2>1. UNCHANGED <<rows, objects, created, faults, orphans, known, Outside>>
    BY <1>5 DEF Skip
  <2>2. CASE Fail
    BY <2>1, <2>2, FailTyped DEF Typed, TypeOK, Outside
  <2>3. CASE ~Fail
    <3>1. todo' = Tail(todo) /\ UNCHANGED <<pc, want, victim, found, status>>
      BY <1>5, <2>3 DEF Skip
    <3>2. TypeOK'
      BY <1>1, <2>1, <3>1 DEF Typed, TypeOK, Outside
    <3>3. PassInv'
      BY <1>1, <1>2, <3>1 DEF PassInv, Applying
    <3> QED
      BY <3>2, <3>3 DEF Typed
  <2> QED
    BY <2>2, <2>3
<1>6. CASE Insert(k)
  <2> DEFINE row == [state |-> "creating", id |-> NoId, content |-> Wanted(k)]
  <2>1. row \in Row
    BY <1>1, WrittenRows DEF Typed
  <2>2. rows' = [rows EXCEPT ![k] = row]
    BY <1>6 DEF Insert
  <2>3. rows' \in [Keys -> Row \union {NoRow}]
    <3> HIDE DEF row
    <3> QED
      BY <1>3, <2>1, <2>2
  <2>4. found' = NoId /\ pc' = "create"
        /\ UNCHANGED <<want, todo, victim, status, objects, created, faults, orphans, known, Outside>>
    BY <1>6 DEF Insert, GoTo
  <2>5. TypeOK'
    BY <2>3, <2>4 DEF Typed, TypeOK, Pcs, Outside
  <2>6. PassInv'
    BY <1>1, <1>2, <2>4 DEF PassInv, Applying
  <2> QED
    BY <2>5, <2>6 DEF Typed
<1>7. CASE Resume(k)
  <2>1. found' = rows[k].id /\ pc' \in {"recover", "own"} /\ (pc' = "recover" <=> rows[k].id = NoId)
        /\ UNCHANGED <<want, todo, victim, status, rows, objects, created, faults, orphans, known, Outside>>
    BY <1>7 DEF Resume, GoTo
  <2>2. TypeOK'
    BY <1>3, <2>1 DEF Typed, TypeOK, Pcs, Outside
  <2>3. PassInv'
    BY <1>1, <1>2, <2>1 DEF PassInv, Applying
  <2> QED
    BY <2>2, <2>3 DEF Typed
<1>8. CASE RetentionFails(k)
  <2>1. /\ rows' = RowWithoutRetention(k) /\ Fail /\ Fault
        /\ UNCHANGED <<objects, created, orphans, known, Outside>>
    BY <1>8 DEF RetentionFails, RowWithoutRetention
  <2>2. rows' \in [Keys -> Row \union {NoRow}]
    BY <1>1, <1>3, <2>1, RetentionRow
  <2>3. faults' \in 0 .. MaxFaults
    BY <2>1, ConstantsAssumption DEF Fault, Typed, TypeOK
  <2> QED
    BY <2>1, <2>2, <2>3, FailTyped DEF Typed, TypeOK, Outside
<1> QED
  BY <1>4, <1>5, <1>6, <1>7, <1>8 DEF Apply

LEMMA RecoverTyped == Typed /\ RecoverByMarker => Typed'
<1> SUFFICES ASSUME Typed, RecoverByMarker PROVE Typed'
  OBVIOUS
<1>1. /\ pc = "recover" /\ todo # <<>> /\ Recover(Head(todo))
      /\ UNCHANGED <<rows, objects, created, faults, orphans, known, Outside>>
  BY DEF RecoverByMarker, Typed, PassInv, Applying
<1>2. status \notin {"applied", "deleted"}
  BY <1>1, NotDoneYet
<1>3. CASE Fail
  BY <1>1, <1>3, FailTyped DEF Typed, TypeOK, Outside
<1>4. CASE ~Fail
  <2>1. /\ found' \in Ids \union {NoId} /\ pc' \in {"create", "own"} /\ (pc' = "create" <=> found' = NoId)
        /\ UNCHANGED <<want, todo, victim, status>>
    BY <1>1, <1>4, Numbers DEF Recover, GoTo, Matches
  <2>2. TypeOK'
    BY <1>1, <2>1 DEF Typed, TypeOK, Pcs, Outside
  <2>3. PassInv'
    BY <1>1, <1>2, <2>1 DEF PassInv, Applying
  <2> QED
    BY <2>2, <2>3 DEF Typed
<1> QED
  BY <1>3, <1>4

LEMMA CheckOwnerTyped == Typed /\ CheckOwner => Typed'
<1> SUFFICES ASSUME Typed, CheckOwner PROVE Typed'
  OBVIOUS
<1>1. /\ pc = "own" /\ todo # <<>>
      /\ UNCHANGED <<rows, objects, created, faults, orphans, known, Outside>>
  BY DEF CheckOwner, Typed, PassInv, Applying
<1>2. status \notin {"applied", "deleted"}
  BY <1>1, NotDoneYet
<1>3. CASE Fail
  BY <1>1, <1>3, FailTyped DEF Typed, TypeOK, Outside
<1>4. CASE ~Fail
  <2>1. /\ \/ pc' = "create" /\ found' = NoId
           \/ pc' = "modify" /\ found' = found
        /\ UNCHANGED <<want, todo, victim, status>>
    BY <1>4 DEF CheckOwner, GoTo
  <2>2. TypeOK'
    BY <1>1, <2>1 DEF Typed, TypeOK, Pcs, Outside
  <2>3. PassInv'
    BY <1>1, <1>2, <2>1 DEF Typed, PassInv, Applying
  <2> QED
    BY <2>2, <2>3 DEF Typed
<1> QED
  BY <1>3, <1>4

\* Objects get contents that exist.
LEMMA ObjectTypes ==
  ASSUME Typed, NEW k \in Keys, NEW i \in Ids
  PROVE  /\ [objects EXCEPT ![i] = [comment |-> k, content |-> Wanted(k)]] \in [Ids -> Object \union {Gone}]
         /\ [objects EXCEPT ![i] = Gone] \in [Ids -> Object \union {Gone}]
         /\ [objects EXCEPT ![i].comment = Unmarked] \in [Ids -> Object \union {Gone}]
<1>1. objects \in [Ids -> Object \union {Gone}]
  BY DEF Typed, TypeOK
<1>2. [comment |-> k, content |-> Wanted(k)] \in Object
  BY WantedTypes DEF Object, Typed
<1>3. [objects[i] EXCEPT !.comment = Unmarked] \in Object
  BY <1>1, ContentTypes DEF Object, Gone
<1> DEFINE new == [comment |-> k, content |-> Wanted(k)]
           old == [objects[i] EXCEPT !.comment = Unmarked]
<1>4. [objects EXCEPT ![i].comment = Unmarked] = [objects EXCEPT ![i] = old]
  OBVIOUS
<1> HIDE DEF new, old
<1> QED
  BY <1>1, <1>2, <1>3, <1>4 DEF new, old

LEMMA ModifyTyped == Typed /\ Modify => Typed'
<1> SUFFICES ASSUME Typed, Modify PROVE Typed'
  OBVIOUS
<1> DEFINE k == Head(todo)
<1>1. /\ pc = "modify" /\ todo # <<>> /\ found # NoId /\ found \in Ids
      /\ UNCHANGED <<created, orphans, Outside>>
  BY DEF Modify, Typed, PassInv, Applying, TypeOK
<1>2. k \in Keys
  BY <1>1, NextKey
<1>3. status \notin {"applied", "deleted"}
  BY <1>1, NotDoneYet
<1>4. Modified \in [Ids -> Object \union {Gone}]
  BY <1>1, <1>2, ObjectTypes DEF Modified
<1>5. RowInError(k) \in [Keys -> Row \union {NoRow}]
  BY <1>2, WrittenRows DEF Typed
<1>6. CASE Fail
  <2>1. /\ objects' \in {objects, Modified}
        /\ rows' = RowInError(k) /\ Learn
        /\ faults' = faults \/ Fault
    BY <1>6, <1>1 DEF Modify, Fail, GoTo
  <2>2. known' \subseteq Ids
    BY <2>1, <1>5, LearnTyped
  <2>3. faults' \in 0 .. MaxFaults
    BY <2>1, ConstantsAssumption DEF Fault, Typed, TypeOK
  <2> QED
    BY <1>1, <1>4, <1>5, <1>6, <2>1, <2>2, <2>3, FailTyped DEF Typed, TypeOK, Outside
<1>7. CASE ~Fail
  <2>1. /\ objects' = Modified
        /\ pc' = "checkpoint"
        /\ UNCHANGED <<want, todo, victim, status, rows, found, faults, known>>
    BY <1>7 DEF Modify, GoTo
  <2>2. TypeOK'
    BY <1>1, <1>4, <2>1 DEF Typed, TypeOK, Outside, Pcs
  <2>3. PassInv'
    BY <1>1, <1>3, <2>1 DEF PassInv, Applying
  <2> QED
    BY <2>2, <2>3 DEF Typed
<1> QED
  BY <1>6, <1>7

LEMMA CreateTyped == Typed /\ Create => Typed'
<1> SUFFICES ASSUME Typed, Create PROVE Typed'
  OBVIOUS
<1> DEFINE k == Head(todo)
<1>1. /\ pc = "create" /\ todo # <<>> /\ created < MaxObjects
      /\ UNCHANGED <<orphans, known, Outside>>
  BY DEF Create, Typed, PassInv, Applying
<1>2. k \in Keys
  BY <1>1, NextKey
<1>3. status \notin {"applied", "deleted"}
  BY <1>1, NotDoneYet
<1>4. created + 1 \in Ids /\ created + 1 \in 0 .. MaxObjects /\ created + 1 # NoId
  BY <1>1, Numbers DEF Typed, TypeOK
<1>5. Created \in [Ids -> Object \union {Gone}]
  BY <1>2, <1>4, ObjectTypes DEF Created
<1>6. RowWithoutAnswer(k) \in [Keys -> Row \union {NoRow}]
  BY <1>2, WrittenRows DEF Typed
<1>7. CASE Fail
  <2>1. /\ \/ objects' = Created /\ created' = created + 1
           \/ UNCHANGED <<objects, created>>
        /\ rows' = RowWithoutAnswer(k)
        /\ faults' = faults \/ Fault
    BY <1>7, <1>1 DEF Create, Fail, GoTo
  <2>2. objects' \in [Ids -> Object \union {Gone}] /\ created' \in 0 .. MaxObjects
    BY <2>1, <1>4, <1>5 DEF Typed, TypeOK
  <2>3. faults' \in 0 .. MaxFaults
    BY <2>1, ConstantsAssumption DEF Fault, Typed, TypeOK
  <2> QED
    BY <1>1, <1>6, <1>7, <2>1, <2>2, <2>3, FailTyped DEF Typed, TypeOK, Outside
<1>8. CASE ~Fail
  <2>1. /\ objects' = Created /\ created' = created + 1 /\ found' = created + 1
        /\ pc' = "checkpoint"
        /\ UNCHANGED <<want, todo, victim, status, rows, faults>>
    BY <1>8 DEF Create, GoTo
  <2>2. TypeOK'
    BY <1>1, <1>4, <1>5, <2>1 DEF Typed, TypeOK, Outside, Pcs
  <2>3. PassInv'
    BY <1>1, <1>3, <1>4, <2>1 DEF PassInv, Applying
  <2> QED
    BY <2>2, <2>3 DEF Typed
<1> QED
  BY <1>7, <1>8

LEMMA CheckpointTyped == Typed /\ Checkpoint => Typed'
<1> SUFFICES ASSUME Typed, Checkpoint PROVE Typed'
  OBVIOUS
<1> DEFINE k == Head(todo)
           row == Checkpointed(k)
<1>1. /\ pc = "checkpoint" /\ todo # <<>> /\ found # NoId
      /\ rows' = [rows EXCEPT ![k] = row] /\ Learn /\ pc' = "work" /\ todo' = Tail(todo)
      /\ unrecorded' \subseteq unrecorded
      /\ UNCHANGED <<want, victim, found, status, objects, created, faults, orphans,
                     desired, edits, meddling, foreign, shown>>
  BY DEF Checkpoint, Typed, PassInv, Applying
<1>2. k \in Keys /\ Tail(todo) \in Seq(Keys)
  BY <1>1, NextKey
<1>3. status \notin {"applied", "deleted"}
  BY <1>1, NotDoneYet
<1>4. row \in Row
  BY <1>1, <1>2, WrittenRows DEF Typed
<1>5. rows' \in [Keys -> Row \union {NoRow}]
  <2> HIDE DEF k, row
  <2> QED
    BY <1>1, <1>4 DEF Typed, TypeOK
<1>6. known' \subseteq Ids
  BY <1>1, <1>5, LearnTyped
<1>7. TypeOK'
  BY <1>1, <1>2, <1>5, <1>6 DEF Typed, TypeOK, Pcs
<1>8. PassInv'
  BY <1>1, <1>3 DEF PassInv, Applying
<1> QED
  BY <1>7, <1>8 DEF Typed

LEMMA CleanupTyped == Typed /\ Cleanup => Typed'
<1> SUFFICES ASSUME Typed, Cleanup PROVE Typed'
  OBVIOUS
<1>1. pc = "work" /\ UNCHANGED <<rows, objects, created, faults, orphans, known, Outside>>
  BY DEF Cleanup
<1>2. status \notin {"applied", "deleted"}
  BY <1>1, NotDoneYet
<1>3. CASE Surplus = {}
  <2>1. pc' = "finish" /\ UNCHANGED <<want, todo, victim, status, found>>
    BY <1>3 DEF Cleanup, GoTo
  <2>2. \A k \in Keys \ KeysOf(want) : rows[k] = NoRow
    BY <1>3 DEF Surplus
  <2>3. TypeOK'
    BY <1>1, <2>1 DEF Typed, TypeOK, Outside, Pcs
  <2>4. PassInv'
    BY <1>1, <1>2, <2>1, <2>2 DEF PassInv, Applying
  <2> QED
    BY <2>3, <2>4 DEF Typed
<1>4. CASE Surplus # {}
  <2>1. /\ victim' = CHOOSE k \in Surplus : \A l \in Surplus : Before(k, l)
        /\ found' = rows[victim'].id
        /\ pc' = "trash" /\ UNCHANGED <<want, todo, status>>
    BY <1>4 DEF Cleanup
  <2>2. Surplus \in SUBSET Keys
    BY DEF Surplus
  <2>3. \E k \in Surplus : \A l \in Surplus : Before(k, l)
    BY <1>4, <2>2, SomeKeyGoesFirst
  <2>4. victim' \in Keys
    BY <2>1, <2>2, <2>3
  <2>5. found' \in Ids \union {NoId}
    BY <2>1, <2>4, RowTypes DEF Typed, TypeOK
  <2>6. TypeOK'
    BY <1>1, <2>1, <2>4, <2>5 DEF Typed, TypeOK, Outside, Pcs
  <2>7. PassInv'
    BY <1>1, <1>2, <2>1 DEF PassInv, Applying
  <2> QED
    BY <2>6, <2>7 DEF Typed
<1> QED
  BY <1>3, <1>4

LEMMA FindVictimTyped == Typed /\ FindVictim => Typed'
<1> SUFFICES ASSUME Typed, FindVictim PROVE Typed'
  OBVIOUS
<1>1. pc = "find" /\ UNCHANGED <<rows, objects, created, faults, orphans, known, Outside>>
  BY DEF FindVictim
<1>2. status \notin {"applied", "deleted"}
  BY <1>1, NotDoneYet
<1>3. CASE Fail
  BY <1>1, <1>3, FailTyped DEF Typed, TypeOK, Outside
<1>4. CASE ~Fail
  <2>1. found' \in Ids \union {NoId} /\ pc' = "trash" /\ UNCHANGED <<want, todo, victim, status>>
    BY <1>4 DEF FindVictim, GoTo, Matches
  <2>2. TypeOK'
    BY <1>1, <2>1 DEF Typed, TypeOK, Outside, Pcs
  <2>3. PassInv'
    BY <1>1, <1>2, <2>1 DEF PassInv, Applying
  <2> QED
    BY <2>2, <2>3 DEF Typed
<1> QED
  BY <1>3, <1>4

LEMMA CheckVictimTyped == Typed /\ CheckVictim => Typed'
<1> SUFFICES ASSUME Typed, CheckVictim PROVE Typed'
  OBVIOUS
<1>1. pc = "trash" /\ UNCHANGED <<rows, objects, created, faults, orphans, known, Outside>>
  BY DEF CheckVictim
<1>2. status \notin {"applied", "deleted"}
  BY <1>1, NotDoneYet
<1>3. CASE Fail
  BY <1>1, <1>3, FailTyped DEF Typed, TypeOK, Outside
<1>4. CASE ~Fail
  <2>1. /\ \/ pc' = "drop" /\ ~Live(found)
           \/ pc' = "delete" /\ Live(found)
        /\ UNCHANGED <<found, want, todo, victim, status>>
    BY <1>4 DEF CheckVictim, GoTo
  <2>2. TypeOK'
    BY <1>1, <2>1 DEF Typed, TypeOK, Outside, Pcs
  <2>3. Live(found)' <=> Live(found)
    BY <1>1, <2>1 DEF Live
  <2>4. PassInv'
    BY <1>1, <1>2, <2>1, <2>3 DEF PassInv, Applying, Live
  <2> QED
    BY <2>2, <2>4 DEF Typed
<1> QED
  BY <1>3, <1>4

LEMMA DeleteTyped == Typed /\ Delete => Typed'
<1> SUFFICES ASSUME Typed, Delete PROVE Typed'
  OBVIOUS
<1>1. /\ pc = "delete" /\ found # NoId /\ found \in Ids /\ victim \in Keys
      /\ UNCHANGED <<created, orphans, Outside>>
  BY DEF Delete, Typed, PassInv, TypeOK
<1>2. status \notin {"applied", "deleted"}
  BY <1>1, NotDoneYet
<1> DEFINE without == [objects EXCEPT ![found] = Gone]
<1>3. without \in [Ids -> Object \union {Gone}]
  BY <1>1, ObjectTypes
<1>4. RowInError(victim) \in [Keys -> Row \union {NoRow}]
  BY <1>1, WrittenRows DEF Typed
<1>5. CASE Fail
  <2>1. /\ objects' \in {objects, without}
        /\ rows' = RowInError(victim) /\ Learn
        /\ faults' = faults \/ Fault
    BY <1>5, <1>1 DEF Delete, Fail, GoTo
  <2>2. known' \subseteq Ids
    BY <2>1, <1>4, LearnTyped
  <2>3. faults' \in 0 .. MaxFaults
    BY <2>1, ConstantsAssumption DEF Fault, Typed, TypeOK
  <2> HIDE DEF without
  <2> QED
    BY <1>1, <1>3, <1>4, <1>5, <2>1, <2>2, <2>3, FailTyped DEF Typed, TypeOK, Outside
<1>6. CASE ~Fail
  <2>1. /\ objects' = without
        /\ pc' = "drop"
        /\ UNCHANGED <<want, todo, victim, status, rows, found, faults, known>>
    BY <1>6 DEF Delete, GoTo
  <2>2. ~Live(found)'
    BY <1>1, <2>1 DEF Live, Typed, TypeOK
  <2> HIDE DEF without
  <2>3. TypeOK'
    BY <1>1, <1>3, <2>1 DEF Typed, TypeOK, Outside, Pcs
  <2>4. PassInv'
    BY <1>1, <1>2, <2>1, <2>2 DEF PassInv, Applying
  <2> QED
    BY <2>3, <2>4 DEF Typed
<1> QED
  BY <1>5, <1>6

LEMMA DropRowTyped == Typed /\ DropRow => Typed'
<1> SUFFICES ASSUME Typed, DropRow PROVE Typed'
  OBVIOUS
<1>1. /\ pc = "drop" /\ pc' = "work" /\ rows' = [rows EXCEPT ![victim] = NoRow]
      /\ UNCHANGED <<want, todo, victim, status, found, objects, created, faults, known, Outside>>
      /\ orphans' \subseteq orphans \union Ids
  BY DEF DropRow, GoTo
<1>2. status \notin {"applied", "deleted"}
  BY <1>1, NotDoneYet
<1>3. TypeOK'
  BY <1>1 DEF Typed, TypeOK, Outside, Pcs
<1>4. PassInv'
  BY <1>1, <1>2 DEF PassInv, Applying
<1> QED
  BY <1>3, <1>4 DEF Typed

LEMMA FinishTyped == Typed /\ Finish => Typed'
<1> SUFFICES ASSUME Typed, Finish PROVE Typed'
  OBVIOUS
<1>1. /\ pc = "finish" /\ pc' = "idle" /\ status' \in {"applied", "deleted"} /\ shown' = want
      /\ UNCHANGED <<want, todo, victim, found, rows, objects, created, faults, orphans, known,
                     desired, edits, meddling, foreign, unrecorded>>
  BY DEF Finish
<1>2. TypeOK'
  BY <1>1 DEF Typed, TypeOK, Pcs, Statuses
<1>3. \A k \in Keys \ KeysOf(want) : rows[k] = NoRow
  BY <1>1 DEF Typed, PassInv
<1>4. PassInv'
  BY <1>1, <1>3 DEF PassInv, Applying
<1> QED
  BY <1>2, <1>4 DEF Typed

\* Failures, crashes, administrators and whoever else works at the scanner.
LEMMA LosesCheckpointTyped ==
  ASSUME Typed, LosesCheckpoint PROVE orphans' \subseteq Ids /\ unrecorded' \subseteq Ids
<1>1. pc = "checkpoint" => found \in Ids
  BY DEF Typed, PassInv, TypeOK
<1> QED
  BY <1>1 DEF LosesCheckpoint, Typed, TypeOK

LEMMA CallFailsTyped == Typed /\ CallFails => Typed'
<1> SUFFICES ASSUME Typed, CallFails PROVE Typed'
  OBVIOUS
<1>1. Fail /\ Fault /\ LosesCheckpoint /\ UNCHANGED <<rows, objects, created, known, desired, edits, meddling, foreign, shown>>
  BY DEF CallFails
<1>2. faults' \in 0 .. MaxFaults
  BY <1>1, ConstantsAssumption DEF Fault, Typed, TypeOK
<1> QED
  BY <1>1, <1>2, FailTyped, LosesCheckpointTyped DEF Typed, TypeOK

LEMMA CrashTyped == Typed /\ Crash => Typed'
<1> SUFFICES ASSUME Typed, Crash PROVE Typed'
  OBVIOUS
<1>1. /\ pc # "idle" /\ pc' = "idle" /\ Fault /\ LosesCheckpoint
      /\ UNCHANGED <<want, todo, victim, found, status, rows, objects, created, known,
                     desired, edits, meddling, foreign, shown>>
  BY DEF Crash
<1>2. faults' \in 0 .. MaxFaults
  BY <1>1, ConstantsAssumption DEF Fault, Typed, TypeOK
<1>3. orphans' \subseteq Ids /\ unrecorded' \subseteq Ids
  BY <1>1, LosesCheckpointTyped
<1>4. TypeOK'
  BY <1>1, <1>2, <1>3 DEF Typed, TypeOK, Pcs
<1>5. PassInv'
  BY <1>1 DEF Typed, PassInv, Applying
<1> QED
  BY <1>4, <1>5 DEF Typed

LEMMA EditsTyped == Typed /\ (Edit \/ SoftDelete) => Typed'
<1> SUFFICES ASSUME Typed, Edit \/ SoftDelete PROVE Typed'
  OBVIOUS
<1>1. /\ status' = "pending" /\ edits < MaxEdits /\ edits' = edits + 1
      /\ UNCHANGED <<pass, rows, objects, created, faults, meddling, ghosts>>
  BY DEF Edit, SoftDelete
<1>2. edits' \in 0 .. MaxEdits
  BY <1>1, ConstantsAssumption DEF Typed, TypeOK
<1>3. desired' \in Desired
  <2>1. CASE Edit
    <3>1. PICK d \in Definitions : desired' = [def |-> d, deleted |-> FALSE]
      BY <2>1 DEF Edit, NotDeleted
    <3> QED
      BY <3>1 DEF Desired
  <2>2. CASE SoftDelete
    BY <2>2 DEF SoftDelete, Desired, Typed, TypeOK
  <2> QED
    BY <2>1, <2>2
<1>4. TypeOK'
  BY <1>1, <1>2, <1>3 DEF Typed, TypeOK, pass, ghosts, Statuses
<1>5. PassInv'
  BY <1>1 DEF Typed, PassInv, Applying, pass, ghosts, Live
<1> QED
  BY <1>4, <1>5 DEF Typed

\* Nobody brings a dead object back.
LEMMA DeadStaysDead ==
  ASSUME Typed, Meddle
  PROVE  /\ UNCHANGED <<desired, status, pass, rows, created, edits, orphans, known,
                     unrecorded, shown>>
         /\ objects' \in [Ids -> Object \union {Gone}]
         /\ \A i \in Ids : \/ objects'[i] = objects[i]
                           \/ objects'[i] = Gone
                           \/ Live(i) /\ objects'[i].comment = Unmarked
         /\ \A i \in Ids : i \notin foreign /\ i \in foreign' =>
                pc = "idle" /\ objects'[i].comment = Unmarked /\ Live(i)
         /\ foreign \subseteq foreign' /\ foreign' \subseteq Ids
         /\ meddling' = meddling + 1 /\ meddling' \in 0 .. MaxMeddling
         /\ faults' \in 0 .. MaxFaults
<1>1. /\ UNCHANGED <<desired, status, pass, rows, created, edits, orphans, known,
                     unrecorded, shown>>
      /\ meddling < MaxMeddling /\ meddling' = meddling + 1
      /\ faults < MaxFaults /\ faults' = faults + 1
  BY DEF Meddle, Fault
<1>2. meddling' \in 0 .. MaxMeddling /\ faults' \in 0 .. MaxFaults
  BY <1>1, ConstantsAssumption DEF Typed, TypeOK
<1>3. objects \in [Ids -> Object \union {Gone}] /\ foreign \subseteq Ids
  BY DEF Typed, TypeOK
<1>4. PICK i \in Ids :
        /\ Live(i)
        /\ \/ /\ objects' = [objects EXCEPT ![i] = Gone]
              /\ UNCHANGED foreign
           \/ /\ objects' = [objects EXCEPT ![i].comment = Unmarked]
              /\ foreign' = IF pc = "idle" THEN foreign \union {i} ELSE foreign
  BY DEF Meddle
<1>5. /\ [objects EXCEPT ![i] = Gone] \in [Ids -> Object \union {Gone}]
      /\ [objects EXCEPT ![i].comment = Unmarked] \in [Ids -> Object \union {Gone}]
  <2>1. ScheduleKey \in Keys
    BY KeysAreKeys
  <2> QED
    BY <2>1, ObjectTypes
<1>6. [objects[i] EXCEPT !.comment = Unmarked].comment = Unmarked
  BY <1>3 DEF Object, Gone
<1>7. \A j \in Ids \ {i} : objects'[j] = objects[j]
  BY <1>3, <1>4
<1>8. \/ objects'[i] = Gone /\ UNCHANGED foreign
      \/ objects'[i].comment = Unmarked
  BY <1>3, <1>4, <1>6
<1> QED
  BY <1>1, <1>2, <1>3, <1>4, <1>5, <1>7, <1>8

LEMMA MeddleTyped == Typed /\ Meddle => Typed'
<1> SUFFICES ASSUME Typed, Meddle PROVE Typed'
  OBVIOUS
<1>1. TypeOK'
  BY DeadStaysDead DEF Typed, TypeOK, pass
<1>2. found \in Ids \union {NoId} /\ UNCHANGED <<pc, want, todo, victim, found, status, shown, rows>>
  BY DeadStaysDead DEF Typed, TypeOK, pass
<1>3. pc = "drop" => ~Live(found)'
  BY <1>2, DeadStaysDead DEF Typed, PassInv, Live
<1>4. PassInv'
  BY <1>2, <1>3 DEF Typed, PassInv, Applying
<1> QED
  BY <1>1, <1>4 DEF Typed

LEMMA StepIsTyped == Typed /\ [Next]_vars => Typed'
<1> SUFFICES ASSUME Typed, [Next]_vars PROVE Typed'
  OBVIOUS
<1>1. CASE Next
  BY <1>1, BeginTyped, LoadNetworksTyped, MarkSyncingTyped, ApplyTyped, RecoverTyped,
     CheckOwnerTyped, ModifyTyped, CreateTyped, CheckpointTyped, CleanupTyped, FindVictimTyped,
     CheckVictimTyped, DeleteTyped, DropRowTyped, FinishTyped, CallFailsTyped, CrashTyped,
     EditsTyped, MeddleTyped
  DEF Next, Step
<1>2. CASE UNCHANGED vars
  BY <1>2 DEF vars, Typed, TypeOK, PassInv, Live, Applying
<1> QED
  BY <1>1, <1>2

\* Every reachable state is well typed, and no pass ends as applied or deleted with
\* a row that its definition does not have (runCustomersOnce to reconcileCustomer).
THEOREM TypeCorrect == Spec => []TypeOK
<1>1. Init => Typed
  BY InitIsTyped
<1>2. Typed /\ [Next]_vars => Typed'
  BY StepIsTyped
<1>3. Typed => TypeOK
  BY DEF Typed
<1> QED
  BY <1>1, <1>2, <1>3, PTL DEF Spec

-----------------------------------------------------------------------------
(* What steps do *)

\* Steps that leave rows and objects as they are; a lost checkpoint makes orphans.
Quiet ==
    /\ UNCHANGED <<rows, objects, created, known, foreign>>
    /\ \/ UNCHANGED orphans /\ (pc = "checkpoint" => UNCHANGED <<pc, todo, found>>)
       \/ pc' = "idle" /\ LosesCheckpoint

\* How such a step goes on.
Moves ==
    \/ pc' \notin Applying \union Removing /\ found' \in {found, NoId}
    \/ UNCHANGED <<pc, todo, victim, found>>
    \/ /\ pc = "work" /\ todo # <<>> /\ todo' = todo
       /\ rows[Head(todo)] # NoRow /\ found' = rows[Head(todo)].id
       /\ pc' = IF found' = NoId THEN "recover" ELSE "own"
    \/ /\ pc = "work" /\ victim' \in Keys /\ found' = rows[victim'].id
       /\ pc' \in {"find", "trash"} /\ (pc' = "find" => found' = NoId)
    \/ /\ pc = "recover" /\ pc' = "create" /\ todo' = todo
       /\ found' = NoId /\ Matches(Head(todo)) = {}
    \/ /\ pc = "recover" /\ pc' = "own" /\ todo' = todo
       /\ found' # NoId /\ Matches(Head(todo)) = {found'}
    \/ /\ pc = "own" /\ pc' = "create" /\ todo' = todo
       /\ found' = NoId /\ ~Live(found)
    \/ /\ pc = "own" /\ pc' = "modify" /\ UNCHANGED <<todo, found>>
       /\ Live(found) /\ Owned(Head(todo), found)
    \/ /\ pc = "find" /\ pc' = "trash" /\ victim' = victim
       /\ IF Matches(victim) = {} THEN found' = NoId
          ELSE found' # NoId /\ Matches(victim) = {found'}
    \/ /\ pc = "trash" /\ pc' = "drop" /\ UNCHANGED <<victim, found>>
    \/ /\ pc = "trash" /\ pc' = "delete" /\ UNCHANGED <<victim, found>>
       /\ Live(found) /\ Owned(victim, found)

QuietSteps ==
    \/ Begin \/ LoadNetworks \/ MarkSyncing
    \/ pc = "work" /\ (Release(Head(todo)) \/ Skip(Head(todo)) \/ Resume(Head(todo))) /\ todo # <<>>
    \/ RecoverByMarker \/ CheckOwner \/ Cleanup \/ FindVictim \/ CheckVictim \/ Finish
    \/ CallFails \/ Crash \/ Edit \/ SoftDelete \/ UNCHANGED vars

LEMMA OnlyMatch ==
  ASSUME NEW k \in Keys, ~(Cardinality(Matches(k)) > 1),
         NEW i \in Matches(k)
  PROVE  Matches(k) = {i} /\ i # NoId
<1>1. Matches(k) \in SUBSET Ids /\ IsFiniteSet(Ids)
  BY Numbers, FS_Interval DEF Matches
<1>2. IsFiniteSet(Matches(k))
  BY <1>1, FS_Subset
<1>3. Cardinality(Matches(k)) \in Nat
  BY <1>2, FS_CardinalityType
<1>4. Cardinality(Matches(k)) # 0
  BY <1>2, FS_EmptySet
<1>5. Cardinality(Matches(k)) = 1
  BY <1>3, <1>4
<1>6. PICK j : Matches(k) = {j}
  BY <1>2, <1>5, FS_Singleton
<1> QED
  BY <1>6, <1>1, Numbers

LEMMA QuietStepsMove == Typed /\ QuietSteps => Quiet /\ Moves
<1> SUFFICES ASSUME Typed, QuietSteps PROVE Quiet /\ Moves
  OBVIOUS
<1> USE DEF Quiet, Moves
<1>1. CASE Begin \/ LoadNetworks \/ MarkSyncing \/ Finish
  BY <1>1 DEF Begin, LoadNetworks, MarkSyncing, Finish, Outside, Applying, Removing
<1>2. ASSUME pc = "work", todo # <<>>, Release(Head(todo)) PROVE Quiet /\ Moves
  <2>1. TaskKey(Head(todo)[2]) \in Keys
    BY <1>2, NextKey, KeysAreKeys DEF Release, ReleasesTask
  <2> QED
    BY <1>2, <2>1 DEF Release, Outside
<1>3. ASSUME pc = "work", Skip(Head(todo)) PROVE Quiet /\ Moves
  BY <1>3 DEF Skip, Fail, Outside, Applying, Removing
<1>4. ASSUME pc = "work", todo # <<>>, Resume(Head(todo)) PROVE Quiet /\ Moves
  BY <1>4 DEF Resume, GoTo, Outside
<1>5. CASE RecoverByMarker
  <2> DEFINE k == Head(todo)
  <2>1. /\ pc = "recover" /\ Recover(k) /\ k \in Keys
        /\ UNCHANGED <<rows, objects, created, faults, orphans, known, Outside>>
    BY <1>5, NextKey DEF RecoverByMarker, Typed, PassInv, Applying
  <2>2. CASE Fail
    BY <2>1, <2>2 DEF Fail, Outside, Applying, Removing
  <2>3. CASE ~Fail
    <3>1. ~(Cardinality(Matches(k)) > 1)
      BY <2>1, <2>3 DEF Recover
    <3>2. CASE Matches(k) = {}
      BY <2>1, <2>3, <3>1, <3>2 DEF Recover, GoTo, Outside
    <3>3. CASE Matches(k) # {}
      <4>1. found' \in Matches(k) /\ pc' = "own" /\ todo' = todo
        BY <2>1, <2>3, <3>1, <3>3 DEF Recover, GoTo
      <4>2. Matches(k) = {found'} /\ found' # NoId
        BY <2>1, <3>1, <4>1, OnlyMatch
      <4> QED
        BY <2>1, <4>1, <4>2 DEF Outside
    <3> QED
      BY <3>2, <3>3
  <2> QED
    BY <2>2, <2>3
<1>6. CASE CheckOwner
  BY <1>6 DEF CheckOwner, Fail, GoTo, Outside, Applying, Removing
<1>7. CASE Cleanup
  <2>1. CASE Surplus = {}
    BY <1>7, <2>1 DEF Cleanup, GoTo, Outside, Applying, Removing
  <2>2. CASE Surplus # {}
    <3>1. victim' \in Keys
      BY <1>7, CleanupTyped DEF Typed, TypeOK
    <3> QED
      BY <1>7, <2>2, <3>1 DEF Cleanup, Outside
  <2> QED
    BY <2>1, <2>2
<1>8. CASE FindVictim
  <2>1. /\ pc = "find" /\ victim \in Keys
        /\ UNCHANGED <<rows, objects, created, faults, orphans, known, Outside>>
    BY <1>8 DEF FindVictim, Typed, TypeOK
  <2>2. CASE Fail
    BY <2>1, <2>2 DEF Fail, Outside, Applying, Removing
  <2>3. CASE ~Fail
    <3>1. /\ ~(Cardinality(Matches(victim)) > 1) /\ pc' = "trash" /\ victim' = victim
          /\ found' \in IF Matches(victim) = {} THEN {NoId} ELSE Matches(victim)
      BY <1>8, <2>3 DEF FindVictim, GoTo
    <3>2. Matches(victim) # {} => Matches(victim) = {found'} /\ found' # NoId
      BY <2>1, <3>1, OnlyMatch
    <3> QED
      BY <2>1, <3>1, <3>2 DEF Outside
  <2> QED
    BY <2>2, <2>3
<1>9. CASE CheckVictim
  BY <1>9 DEF CheckVictim, Fail, GoTo, Outside, Applying, Removing
<1>10. CASE CallFails \/ Crash
  BY <1>10 DEF CallFails, Crash, Fail, Outside, Applying, Removing
<1>11. CASE Edit \/ SoftDelete
  BY <1>11 DEF Edit, SoftDelete, pass, ghosts
<1>12. CASE UNCHANGED vars
  BY <1>12 DEF vars
<1> QED
  BY <1>1, <1>2, <1>3, <1>4, <1>5, <1>6, <1>7, <1>8, <1>9, <1>10, <1>11, <1>12 DEF QuietSteps

\* Only object i changes; it is alive with the marker of k.
Marks(i, k) ==
    /\ \A j \in Ids \ {i} : objects'[j] = objects[j]
    /\ objects'[i] # Gone /\ objects'[i].comment = k

\* Only the row of k changes.
OtherRowsStay(k) == \A l \in Keys \ {k} : rows'[l] = rows[l]

LEMMA Marking ==
  ASSUME Typed, NEW k \in Keys, NEW i \in Ids,
         objects' = [objects EXCEPT ![i] = [comment |-> k, content |-> Wanted(k)]]
  PROVE  Marks(i, k)
<1> DEFINE new == [comment |-> k, content |-> Wanted(k)]
<1>1. objects \in [Ids -> Object \union {Gone}]
  BY DEF Typed, TypeOK
<1>2. new.comment = k /\ k # Unmarked
  BY KeysAreKeys
<1>3. new # Gone
  BY <1>2 DEF Gone
<1>4. objects' = [objects EXCEPT ![i] = new]
  OBVIOUS
<1> HIDE DEF new
<1>5. objects'[i] = new /\ \A j \in Ids \ {i} : objects'[j] = objects[j]
  BY <1>1, <1>4
<1> QED
  BY <1>2, <1>3, <1>5, Zenon DEF Marks

LEMMA InsertEffect ==
  ASSUME Typed, pc = "work", todo # <<>>, Insert(Head(todo))
  PROVE  /\ UNCHANGED <<objects, created, orphans, known, foreign, todo>>
         /\ found' = NoId /\ pc' = "create"
         /\ Head(todo) \in Keys /\ rows[Head(todo)] = NoRow
         /\ OtherRowsStay(Head(todo))
         /\ rows'[Head(todo)].id = NoId /\ rows'[Head(todo)] # NoRow
<1> DEFINE k == Head(todo)
           row == [state |-> "creating", id |-> NoId, content |-> Wanted(k)]
<1>1. k \in Keys
  BY NextKey
<1>2. row \in Row /\ row.id = NoId
  BY <1>1, WrittenRows DEF Typed
<1>3. rows' = [rows EXCEPT ![k] = row] /\ rows[k] = NoRow /\ found' = NoId /\ pc' = "create"
      /\ UNCHANGED <<objects, created, orphans, known, foreign, todo>>
  BY DEF Insert, GoTo, Outside
<1>4. rows \in [Keys -> Row \union {NoRow}] /\ NoRow \notin Row
  BY NoRowTypes DEF Typed, TypeOK
<1> HIDE DEF row
<1> QED
  BY <1>1, <1>2, <1>3, <1>4 DEF OtherRowsStay

LEMMA RetentionEffect ==
  ASSUME Typed, pc = "work", todo # <<>>, RetentionFails(Head(todo))
  PROVE  /\ UNCHANGED <<objects, created, orphans, known, foreign, todo, victim, found>>
         /\ pc' = "idle"
         /\ Head(todo) \in Keys /\ rows[Head(todo)] # NoRow
         /\ OtherRowsStay(Head(todo))
         /\ rows'[Head(todo)].id = rows[Head(todo)].id /\ rows'[Head(todo)] # NoRow
         /\ rows'[Head(todo)].state = "error"
         /\ rows'[Head(todo)].content = rows[Head(todo)].content
<1> DEFINE k == Head(todo)
<1>1. k \in Keys
  BY NextKey
<1>2. /\ rows' = RowWithoutRetention(k) /\ rows[k].state = "applied" /\ pc' = "idle"
      /\ UNCHANGED <<objects, created, orphans, known, foreign, todo, victim, found>>
  BY DEF RetentionFails, RowWithoutRetention, Unchanged, Fail, Outside
<1>3. /\ rows'[k] = [state |-> "error", id |-> rows[k].id, content |-> rows[k].content]
      /\ OtherRowsStay(k)
  BY <1>1, <1>2, RetentionRow DEF OtherRowsStay, Typed, TypeOK
<1>4. rows'[k].state = "error"
  BY <1>3
<1> QED
  BY <1>1, <1>2, <1>3, <1>4, NoRowTypes

\* An error is recorded in the row together with what was found.
LEMMA ErrorEffect ==
  ASSUME Typed, NEW k \in Keys, rows' = RowInError(k)
  PROVE  OtherRowsStay(k) /\ rows'[k].id = found /\ rows'[k] # NoRow
  BY WrittenRows, NoRowTypes DEF OtherRowsStay, Typed

LEMMA NoAnswerEffect ==
  ASSUME Typed, NEW k \in Keys, rows' = RowWithoutAnswer(k)
  PROVE  OtherRowsStay(k) /\ rows'[k].id = NoId /\ rows'[k] # NoRow
  BY WrittenRows, NoRowTypes DEF OtherRowsStay, Typed

LEMMA ModifyEffect ==
  ASSUME Typed, Modify
  PROVE  /\ UNCHANGED <<created, orphans, foreign, todo, victim, found>>
         /\ pc = "modify" /\ Head(todo) \in Keys /\ found \in Ids
         /\ objects' = objects \/ (Live(found) /\ Marks(found, Head(todo)))
         /\ \/ pc' = "checkpoint" /\ UNCHANGED <<rows, known>>
            \/ /\ pc' = "idle" /\ Learn
               /\ OtherRowsStay(Head(todo))
               /\ rows'[Head(todo)].id = found /\ rows'[Head(todo)] # NoRow
<1> DEFINE k == Head(todo)
<1>1. /\ pc = "modify" /\ todo # <<>> /\ found \in Ids /\ found # NoId
      /\ UNCHANGED <<created, orphans, foreign, todo, victim, found>>
  BY DEF Modify, GoTo, Fail, Outside, Typed, PassInv, TypeOK, Applying
<1>2. k \in Keys
  BY <1>1, NextKey
<1>3. objects' = Modified => Marks(found, k)
  BY <1>1, <1>2, Marking DEF Modified
<1>4. rows' = RowInError(k) =>
         OtherRowsStay(k) /\ rows'[k].id = found /\ rows'[k] # NoRow
  BY <1>2, ErrorEffect
<1>5. ~RefusesModify(k, found) => Live(found)
  BY DEF RefusesModify
<1>6. \/ objects' = Modified /\ ~RefusesModify(k, found)
      \/ objects' = objects
  BY DEF Modify
<1>7. \/ pc' = "checkpoint" /\ UNCHANGED <<rows, known>>
      \/ pc' = "idle" /\ Learn /\ rows' = RowInError(k)
  BY DEF Modify, GoTo, Fail
<1> QED
  BY <1>1, <1>2, <1>3, <1>4, <1>5, <1>6, <1>7

LEMMA CreateEffect ==
  ASSUME Typed, Create
  PROVE  /\ UNCHANGED <<orphans, known, foreign, todo, victim>>
         /\ pc = "create" /\ Head(todo) \in Keys /\ found = NoId
         /\ created + 1 \in Ids /\ created \in Nat
         /\ \/ UNCHANGED <<objects, created>>
            \/ created' = created + 1 /\ Marks(created + 1, Head(todo))
         /\ \/ pc' = "checkpoint" /\ UNCHANGED rows /\ found' = created' /\ created' = created + 1
            \/ /\ pc' = "idle" /\ found' = found
               /\ OtherRowsStay(Head(todo))
               /\ rows'[Head(todo)].id = NoId /\ rows'[Head(todo)] # NoRow
<1> DEFINE k == Head(todo)
<1>1. /\ pc = "create" /\ todo # <<>> /\ found = NoId /\ created < MaxObjects
      /\ UNCHANGED <<orphans, known, foreign, todo, victim>>
  BY DEF Create, GoTo, Fail, Outside, Typed, PassInv, Applying
<1>2. k \in Keys
  BY <1>1, NextKey
<1>3. created + 1 \in Ids /\ created \in Nat
  BY <1>1, Numbers DEF Typed, TypeOK
<1>4. objects' = Created => Marks(created + 1, k)
  BY <1>2, <1>3, Marking DEF Created
<1>5. rows' = RowWithoutAnswer(k) =>
         OtherRowsStay(k) /\ rows'[k].id = NoId /\ rows'[k] # NoRow
  BY <1>2, NoAnswerEffect
<1>6. \/ objects' = Created /\ created' = created + 1
      \/ UNCHANGED <<objects, created>>
  BY DEF Create
<1>7. \/ pc' = "checkpoint" /\ UNCHANGED rows /\ found' = created + 1 /\ created' = created + 1
      \/ pc' = "idle" /\ found' = found /\ rows' = RowWithoutAnswer(k)
  BY DEF Create, GoTo, Fail
<1> QED
  BY <1>1, <1>2, <1>3, <1>4, <1>5, <1>6, <1>7

LEMMA CheckpointEffect ==
  ASSUME Typed, Checkpoint
  PROVE  /\ UNCHANGED <<objects, created, orphans, foreign, victim, found>>
         /\ pc = "checkpoint" /\ pc' = "work" /\ Head(todo) \in Keys /\ found \in Ids
         /\ Learn
         /\ OtherRowsStay(Head(todo))
         /\ rows'[Head(todo)].id = found /\ rows'[Head(todo)] # NoRow
<1> DEFINE k == Head(todo)
           row == Checkpointed(k)
<1>1. /\ pc = "checkpoint" /\ todo # <<>> /\ found \in Ids /\ found # NoId
      /\ rows' = [rows EXCEPT ![k] = row] /\ Learn /\ pc' = "work"
      /\ UNCHANGED <<objects, created, orphans, foreign, victim, found>>
  BY DEF Checkpoint, Outside, Typed, PassInv, TypeOK, Applying
<1>2. k \in Keys
  BY <1>1, NextKey
<1>3. row \in Row /\ row.id = found
  BY <1>1, <1>2, WrittenRows DEF Typed, Checkpointed
<1>4. rows \in [Keys -> Row \union {NoRow}] /\ NoRow \notin Row
  BY NoRowTypes DEF Typed, TypeOK
<1> HIDE DEF row
<1> QED
  BY <1>1, <1>2, <1>3, <1>4 DEF OtherRowsStay

LEMMA DeleteEffect ==
  ASSUME Typed, Delete
  PROVE  /\ UNCHANGED <<created, orphans, foreign, todo, victim, found>>
         /\ pc = "delete" /\ victim \in Keys /\ found \in Ids
         /\ \A i \in Ids : objects'[i] = objects[i] \/ (i = found /\ objects'[i] = Gone)
         /\ \/ pc' = "drop" /\ UNCHANGED <<rows, known>>
            \/ /\ pc' = "idle" /\ Learn
               /\ OtherRowsStay(victim)
               /\ rows'[victim].id = found /\ rows'[victim] # NoRow
<1>1. /\ pc = "delete" /\ found \in Ids /\ found # NoId /\ victim \in Keys
      /\ UNCHANGED <<created, orphans, foreign, todo, victim, found>>
  BY DEF Delete, GoTo, Fail, Outside, Typed, PassInv, TypeOK
<1>2. objects' \in {objects, [objects EXCEPT ![found] = Gone]}
  BY DEF Delete
<1>3. \A i \in Ids : objects'[i] = objects[i] \/ (i = found /\ objects'[i] = Gone)
  BY <1>2 DEF Typed, TypeOK
<1>4. rows' = RowInError(victim) =>
         OtherRowsStay(victim) /\ rows'[victim].id = found /\ rows'[victim] # NoRow
  BY <1>1, ErrorEffect
<1>5. \/ pc' = "drop" /\ UNCHANGED <<rows, known>>
      \/ pc' = "idle" /\ Learn /\ rows' = RowInError(victim)
  BY DEF Delete, GoTo, Fail
<1> QED
  BY <1>1, <1>3, <1>4, <1>5

LEMMA DropEffect ==
  ASSUME Typed, DropRow
  PROVE  /\ UNCHANGED <<objects, created, known, foreign, todo, victim, found>>
         /\ pc = "drop" /\ pc' = "work" /\ victim \in Keys /\ ~Live(found)
         /\ OtherRowsStay(victim) /\ rows'[victim] = NoRow
         /\ orphans' = orphans \union
              {i \in Ids : Live(i) /\ objects[i].comment = victim /\ rows[victim].id = NoId}
  BY DEF DropRow, GoTo, Outside, Typed, TypeOK, PassInv, OtherRowsStay

\* Every step is one of these.
LEMMA KindsOfSteps ==
  ASSUME [Next]_vars
  PROVE  \/ QuietSteps
         \/ pc = "work" /\ todo # <<>> /\ Insert(Head(todo))
         \/ pc = "work" /\ todo # <<>> /\ RetentionFails(Head(todo))
         \/ Modify \/ Create \/ Checkpoint \/ Delete \/ DropRow \/ Meddle
  BY DEF Next, Step, Apply, QuietSteps

\* Nothing is alive under an id that was not given, and nothing is known by one.
NumberedInv ==
    /\ \A i \in Ids : Live(i) => i <= created
    /\ \A k \in Keys : rows[k].id <= created
    /\ found <= created
    /\ known \subseteq 0 .. created
    /\ foreign \subseteq 0 .. created

LEMMA QuietFinds ==
  ASSUME Typed, Quiet, Moves
  PROVE  \/ found' \in {found, NoId}
         \/ \E k \in Keys : found' = rows[k].id
         \/ found' \in Ids /\ Live(found')
<1>1. todo # <<>> => Head(todo) \in Keys
  BY NextKey
<1> QED
  BY <1>1 DEF Moves, Matches

\* Rows that change take the id that was found or none.
LEMMA RowIds ==
  ASSUME Typed, NEW k \in Keys, OtherRowsStay(k), rows'[k].id \in {found, NoId}
  PROVE  \A l \in Keys : rows'[l].id \in {rows[l].id, found, NoId}
  BY DEF OtherRowsStay

LEMMA LearnIds == Learn => known' = (known \union {rows'[k].id : k \in Keys}) \ {NoId}
  BY DEF Learn

LEMMA NumberedStep ==
  ASSUME Typed, NumberedInv, [Next]_vars
  PROVE  NumberedInv'
<1>1. created \in Nat /\ NoId = 0 /\ created' \in Nat
  BY StepIsTyped DEF Typed, TypeOK, NoId
<1> DEFINE below(x) == x <= created
<1>2. ASSUME UNCHANGED created, \A i \in Ids : Live(i)' => Live(i),
             found' <= created, \A k \in Keys : rows'[k].id <= created,
             known' \subseteq 0 .. created, foreign' \subseteq 0 .. created
      PROVE  NumberedInv'
  BY <1>2 DEF NumberedInv
<1>3. NoId <= created /\ found <= created /\ \A k \in Keys : rows[k].id <= created
  BY <1>1 DEF NumberedInv
<1>4. ASSUME \A k \in Keys : rows'[k].id \in Nat, \A k \in Keys : rows'[k].id <= created, Learn
      PROVE  known' \subseteq 0 .. created
  <2>1. known' \subseteq known \union {rows'[k].id : k \in Keys}
    BY <1>4, LearnIds
  <2>2. {rows'[k].id : k \in Keys} \subseteq 0 .. created
    BY <1>1, <1>4
  <2> QED
    BY <2>1, <2>2 DEF NumberedInv
<1>5. \A k \in Keys : rows'[k].id \in Nat
  <2>1. rows' \in [Keys -> Row \union {NoRow}]
    BY StepIsTyped DEF Typed, TypeOK
  <2> QED
    BY <2>1, Numbers DEF Row, NoRow
<1>6. CASE QuietSteps
  <2>1. Quiet /\ Moves
    BY <1>6, QuietStepsMove
  <2>2. found' <= created
    BY <2>1, <1>3, QuietFinds DEF NumberedInv
  <2>3. \A i \in Ids : Live(i)' => Live(i)
    BY <2>1 DEF Quiet, Live
  <2> QED
    BY <1>2, <1>3, <2>1, <2>2, <2>3 DEF Quiet, NumberedInv
<1>7. CASE pc = "work" /\ todo # <<>> /\ Insert(Head(todo))
  <2>1. \A k \in Keys : rows'[k].id <= created
    BY <1>3, <1>7, InsertEffect, RowIds
  <2>2. \A i \in Ids : Live(i)' => Live(i)
    BY <1>7, InsertEffect DEF Live
  <2> QED
    BY <1>2, <1>3, <1>7, <2>1, <2>2, InsertEffect DEF NumberedInv
<1>8. CASE Modify
  <2>1. \A k \in Keys : rows'[k].id <= created
    BY <1>3, <1>8, ModifyEffect, RowIds
  <2>2. \A i \in Ids : Live(i)' => Live(i)
    BY <1>8, ModifyEffect DEF Live, Marks
  <2>3. known' \subseteq 0 .. created
    BY <1>4, <1>5, <1>8, <2>1, ModifyEffect DEF NumberedInv
  <2> QED
    BY <1>2, <1>3, <1>8, <2>1, <2>2, <2>3, ModifyEffect DEF NumberedInv
<1>9. CASE Create
  <2>1. \A k \in Keys : rows'[k].id <= created
    BY <1>3, <1>9, CreateEffect, RowIds
  <2>2. created' \in {created, created + 1} /\ created <= created'
    BY <1>1, <1>9, CreateEffect
  <2>3. \A i \in Ids : Live(i)' => Live(i) \/ (i = created + 1 /\ created' = created + 1)
    BY <1>9, CreateEffect DEF Live, Marks
  <2>4. \A i \in Ids : Live(i)' => i <= created'
    BY <1>1, <2>2, <2>3, Numbers DEF NumberedInv
  <2>5. found' <= created'
    BY <1>1, <1>3, <1>9, <2>2, CreateEffect
  <2>6. \A k \in Keys : rows'[k].id <= created'
    BY <1>1, <1>5, <2>1, <2>2
  <2>7. known' \subseteq 0 .. created' /\ foreign' \subseteq 0 .. created'
    <3>1. 0 .. created \subseteq 0 .. created'
      BY <1>1, <2>2
    <3> QED
      BY <1>9, <3>1, CreateEffect DEF NumberedInv
  <2> QED
    BY <2>4, <2>5, <2>6, <2>7 DEF NumberedInv
<1>10. CASE Checkpoint
  <2>1. \A k \in Keys : rows'[k].id <= created
    BY <1>3, <1>10, CheckpointEffect, RowIds
  <2>2. \A i \in Ids : Live(i)' => Live(i)
    BY <1>10, CheckpointEffect DEF Live
  <2>3. known' \subseteq 0 .. created
    BY <1>4, <1>5, <1>10, <2>1, CheckpointEffect
  <2> QED
    BY <1>2, <1>3, <1>10, <2>1, <2>2, <2>3, CheckpointEffect DEF NumberedInv
<1>11. CASE Delete
  <2>1. \A k \in Keys : rows'[k].id <= created
    BY <1>3, <1>11, DeleteEffect, RowIds
  <2>2. \A i \in Ids : Live(i)' => Live(i)
    BY <1>11, DeleteEffect DEF Live
  <2>3. known' \subseteq 0 .. created
    BY <1>4, <1>5, <1>11, <2>1, DeleteEffect DEF NumberedInv
  <2> QED
    BY <1>2, <1>3, <1>11, <2>1, <2>2, <2>3, DeleteEffect DEF NumberedInv
<1>12. CASE DropRow
  <2>1. \A k \in Keys : rows'[k].id <= created
    BY <1>3, <1>12, DropEffect, RowIds, NoRowTypes
  <2>2. \A i \in Ids : Live(i)' => Live(i)
    BY <1>12, DropEffect DEF Live
  <2> QED
    BY <1>2, <1>3, <1>12, <2>1, <2>2, DropEffect DEF NumberedInv
<1>13. CASE Meddle
  <2>1. UNCHANGED <<created, rows, found, known>>
    BY <1>13, DeadStaysDead DEF pass
  <2>2. \A i \in Ids : Live(i)' => Live(i)
    BY <1>13, DeadStaysDead DEF Live
  <2>3. foreign' \subseteq 0 .. created
    <3>1. \A i \in foreign' : i \in foreign \/ (i \in Ids /\ Live(i))
      BY <1>13, DeadStaysDead
    <3>2. \A i \in Ids : Live(i) => i \in 0 .. created
      BY <1>1, Numbers DEF NumberedInv
    <3> QED
      BY <3>1, <3>2 DEF NumberedInv
  <2> QED
    BY <1>2, <1>3, <2>1, <2>2, <2>3 DEF NumberedInv
<1>14. CASE pc = "work" /\ todo # <<>> /\ RetentionFails(Head(todo))
  <2>1. \A k \in Keys : rows'[k].id = rows[k].id
    BY <1>14, RetentionEffect DEF OtherRowsStay
  <2>2. \A i \in Ids : Live(i)' => Live(i)
    BY <1>14, RetentionEffect DEF Live
  <2> QED
    BY <1>2, <1>3, <1>14, <2>1, <2>2, RetentionEffect DEF NumberedInv
<1> QED
  BY <1>6, <1>7, <1>8, <1>9, <1>10, <1>11, <1>12, <1>13, <1>14, KindsOfSteps

-----------------------------------------------------------------------------
(* Objects that lost their marker *)

\* They have no marker until the end, and the pass has not found one to touch.
ForeignInv ==
    /\ \A i \in foreign : objects[i].comment = Unmarked
    /\ pc \in {"modify", "delete"} => found \notin foreign

\* What is owned has a marker.
LEMMA OwnedIsNotForeign ==
  ASSUME Typed, ForeignInv, NEW k \in Keys, Owned(k, found)
  PROVE  found \notin foreign
  BY OwnMarkerShows DEF ForeignInv, Owned

LEMMA ForeignStep ==
  ASSUME Typed, NumberedInv, ForeignInv, [Next]_vars
  PROVE  /\ ForeignInv'
         /\ meddling' = meddling => \A i \in foreign : objects'[i] = objects[i]
<1>1. foreign \subseteq Ids /\ objects \in [Ids -> Object \union {Gone}] /\ created \in Nat
  BY DEF Typed, TypeOK
<1>2. ASSUME UNCHANGED foreign, \A i \in foreign : objects'[i] = objects[i],
             pc' \in {"modify", "delete"} => found' \notin foreign
      PROVE  /\ ForeignInv'
             /\ meddling' = meddling => \A i \in foreign : objects'[i] = objects[i]
  BY <1>2 DEF ForeignInv
<1>3. CASE QuietSteps
  <2>1. Quiet /\ Moves
    BY <1>3, QuietStepsMove
  <2>2. todo # <<>> => Head(todo) \in Keys
    BY NextKey
  <2>3. victim \in Keys /\ (pc = "own" => todo # <<>>)
    BY DEF Typed, TypeOK, PassInv, Applying
  <2>4. pc' \in {"modify", "delete"} => found' \notin foreign
    <3>1. SUFFICES ASSUME pc' \in {"modify", "delete"} PROVE found' \notin foreign
      OBVIOUS
    <3>2. \/ UNCHANGED <<pc, found>>
          \/ found' = found /\ \E k \in Keys : Owned(k, found)
      BY <2>1, <2>2, <2>3, <3>1 DEF Moves, Applying, Removing
    <3> QED
      BY <3>1, <3>2, OwnedIsNotForeign DEF ForeignInv
  <2> QED
    BY <1>2, <2>1, <2>4 DEF Quiet
<1>4. CASE pc = "work" /\ todo # <<>> /\ Insert(Head(todo))
  BY <1>2, <1>4, InsertEffect
<1>5. CASE Modify
  <2>1. found \notin foreign
    BY <1>5, ModifyEffect DEF ForeignInv
  <2> QED
    BY <1>1, <1>2, <1>5, <2>1, ModifyEffect DEF Marks
<1>6. CASE Create
  <2>1. created + 1 \notin foreign
    BY <1>1 DEF NumberedInv
  <2>2. \A i \in foreign : objects'[i] = objects[i]
    BY <1>1, <1>6, <2>1, CreateEffect DEF Marks
  <2> QED
    BY <1>2, <1>6, <2>2, CreateEffect
<1>7. CASE Checkpoint
  BY <1>2, <1>7, CheckpointEffect
<1>8. CASE Delete
  <2>1. found \notin foreign
    BY <1>8, DeleteEffect DEF ForeignInv
  <2> QED
    BY <1>1, <1>2, <1>8, <2>1, DeleteEffect
<1>9. CASE DropRow
  BY <1>2, <1>9, DropEffect
<1>10. CASE Meddle
  <2>1. meddling' # meddling
    BY <1>10, DeadStaysDead, ConstantsAssumption DEF Typed, TypeOK
  <2>2. \A i \in foreign' : objects'[i].comment = Unmarked
    <3>1. Gone.comment = Unmarked
      BY DEF Gone
    <3>2. \A i \in foreign : objects'[i].comment = Unmarked
      BY <1>1, <1>10, <3>1, DeadStaysDead DEF ForeignInv
    <3> QED
      BY <1>10, <3>2, DeadStaysDead
  <2>3. pc' \in {"modify", "delete"} => found' \notin foreign'
    <3>1. UNCHANGED <<pc, found>>
      BY <1>10, DeadStaysDead DEF pass
    <3>2. pc # "idle" => \A i \in foreign' : i \in foreign
      BY <1>10, DeadStaysDead
    <3> QED
      BY <3>1, <3>2 DEF ForeignInv
  <2> QED
    BY <2>1, <2>2, <2>3 DEF ForeignInv
<1>11. CASE pc = "work" /\ todo # <<>> /\ RetentionFails(Head(todo))
  BY <1>2, <1>11, RetentionEffect
<1> QED
  BY <1>3, <1>4, <1>5, <1>6, <1>7, <1>8, <1>9, <1>10, <1>11, KindsOfSteps

LEMMA InitIsNumbered == Init => NumberedInv /\ ForeignInv
<1> SUFFICES ASSUME Init PROVE NumberedInv /\ ForeignInv
  OBVIOUS
<1>1. \A k \in Keys : rows[k].id = 0
  BY DEF Init, NoRow, NoId
<1>2. \A i \in Ids : ~Live(i)
  BY DEF Init, Live
<1> QED
  BY <1>1, <1>2 DEF Init, NumberedInv, ForeignInv, NoId

\* An object that lost its marker while no pass was running is never touched again,
\* however passes fail and whoever edits: every write follows a look at the comment
\* (isOwned).
THEOREM ForeignStay == Spec => ForeignObjectsStay
<1> DEFINE I == Typed /\ NumberedInv /\ ForeignInv
<1>1. Init => I
  BY InitIsTyped, InitIsNumbered
<1>2. I /\ [Next]_vars => I'
  BY StepIsTyped, NumberedStep, ForeignStep
<1>3. I /\ [Next]_vars =>
         [meddling' = meddling => \A i \in foreign : objects'[i] = objects[i]]_vars
  BY ForeignStep
<1> QED
  BY <1>1, <1>2, <1>3, PTL DEF Spec, ForeignObjectsStay

-----------------------------------------------------------------------------
(* What rows hold *)

Works(k) == (pc \in Applying /\ k = Head(todo)) \/ (pc \in Removing /\ k = victim)

\* The row that is worked on holds what was found or nothing alive; what a row has
\* known is held by a row as long as it lives.
HeldInv ==
    /\ \A k \in Keys : Works(k) /\ rows[k].id # found => ~Live(rows[k].id)
    /\ \A i \in known : Live(i) => \E k \in Keys : rows[k].id = i

LEMMA HeldStep ==
  ASSUME Typed, NumberedInv, HeldInv, [Next]_vars
  PROVE  HeldInv'
<1>1. /\ known \subseteq Ids /\ created \in Nat /\ NoId \notin Ids
      /\ \A k \in Keys : rows[k].id \in Ids \union {NoId}
  BY Numbers, RowTypes DEF Typed, TypeOK
<1>2. ~Live(NoId) /\ ~Live(NoId)'
  BY DEF Live
\* A row that is given another id held nothing alive.
<1>3. ASSUME NEW k \in Keys, Works(k), OtherRowsStay(k), rows'[k].id = found, Learn,
             \A i \in Ids : Live(i)' => Live(i)
      PROVE  \A i \in known' : Live(i)' => \E l \in Keys : rows'[l].id = i
  <2> SUFFICES ASSUME NEW i \in known', Live(i)' PROVE \E l \in Keys : rows'[l].id = i
    OBVIOUS
  <2>1. i \in known \/ \E l \in Keys : rows'[l].id = i
    BY LearnIds, <1>3
  <2>2. CASE i \in known
    <3>1. PICK l \in Keys : rows[l].id = i
      BY <1>1, <1>3, <2>2 DEF HeldInv
    <3>2. l = k => i = found
      BY <1>1, <1>3, <2>2, <3>1 DEF HeldInv
    <3> QED
      BY <1>3, <3>1, <3>2 DEF OtherRowsStay
  <2> QED
    BY <2>1, <2>2
<1>4. CASE QuietSteps
  <2>1. Quiet /\ Moves
    BY <1>4, QuietStepsMove
  <2>2. \A i : Live(i)' <=> Live(i)
    BY <2>1 DEF Quiet, Live
  <2>3. \A k \in Keys : Works(k)' /\ rows'[k].id # found' => ~Live(rows[k].id)
    <3> SUFFICES ASSUME NEW k \in Keys, Works(k)', rows[k].id # found'
                 PROVE  ~Live(rows[k].id)
      BY <2>1 DEF Quiet
    <3>1. (pc' \in Applying /\ k = Head(todo)') \/ (pc' \in Removing /\ k = victim')
      BY DEF Works
    <3>2. pc \in {"recover", "find"} => found = NoId
      BY DEF Typed, PassInv
    <3> QED
      BY <1>2, <2>1, <3>1, <3>2 DEF Moves, HeldInv, Works, Applying, Removing
  <2>4. \A k \in Keys : rows'[k] = rows[k]
    BY <2>1 DEF Quiet
  <2> QED
    BY <2>1, <2>2, <2>3, <2>4 DEF HeldInv, Quiet
<1>5. CASE pc = "work" /\ todo # <<>> /\ Insert(Head(todo))
  <2>1. \A i : Live(i)' <=> Live(i)
    BY <1>5, InsertEffect DEF Live
  <2>2. \A k \in Keys : rows'[k].id = rows[k].id
    BY <1>5, InsertEffect, NoRowTypes DEF OtherRowsStay
  <2>3. \A k \in Keys : Works(k)' => rows'[k].id = found'
    BY <1>5, InsertEffect DEF Works, Applying, Removing
  <2> QED
    BY <1>5, <2>1, <2>2, <2>3, InsertEffect DEF HeldInv
<1>6. CASE Modify
  <2> DEFINE k == Head(todo)
  <2>1. k \in Keys /\ Works(k) /\ \A i \in Ids : Live(i)' => Live(i)
    BY <1>6, ModifyEffect DEF Works, Applying, Live, Marks
  <2>2. CASE UNCHANGED <<rows, known>>
    <3>1. \A l \in Keys : Works(l)' => l = k
      BY <1>6, ModifyEffect DEF Works, Applying, Removing
    <3>2. \A l \in Keys : ~Live(rows[l].id) => ~Live(rows[l].id)'
      BY <1>1, <1>2, <2>1, <2>2
    <3> QED
      BY <1>1, <1>6, <2>1, <2>2, <3>1, <3>2, ModifyEffect DEF HeldInv
  <2>3. CASE ~(UNCHANGED <<rows, known>>)
    <3>1. \A l \in Keys : ~Works(l)'
      BY <1>6, <2>3, ModifyEffect DEF Works, Applying, Removing
    <3>2. \A i \in known' : Live(i)' => \E l \in Keys : rows'[l].id = i
      BY <1>3, <1>6, <2>1, <2>3, ModifyEffect
    <3> QED
      BY <3>1, <3>2 DEF HeldInv
  <2> QED
    BY <2>2, <2>3
<1>7. CASE Create
  <2> DEFINE k == Head(todo)
  <2>1. k \in Keys /\ Works(k) /\ found = NoId /\ known' = known /\ todo' = todo
    BY <1>7, CreateEffect DEF Works, Applying
  <2>2. ~Live(rows[k].id)
    BY <1>2, <2>1 DEF HeldInv
  <2>3. \A i \in Ids : i <= created /\ Live(i)' => Live(i)
    BY <1>1, <1>7, CreateEffect, Numbers DEF Live, Marks
  <2>4. \A l \in Keys : Works(l)' => l = k /\ rows' = rows
    BY <1>7, CreateEffect DEF Works, Applying, Removing
  <2>5. rows' = rows => ~Live(rows[k].id)'
    <3> DEFINE i == rows[k].id
    <3>1. i = NoId \/ (i \in Ids /\ i <= created)
      BY <1>1, <2>1 DEF NumberedInv
    <3>2. i \in Ids => ~(i # NoId /\ objects'[i] # Gone)
      BY <2>2, <2>3, <3>1, <1>1 DEF Live
    <3>3. ~(i # NoId /\ objects'[i] # Gone)
      BY <3>1, <3>2
    <3> QED
      BY <2>1, <3>3 DEF Live
  <2>6. \A i \in known : Live(i)' => Live(i)
    BY <1>1, <2>3 DEF NumberedInv
  <2>7. \A l \in Keys \ {k} : rows'[l] = rows[l]
    BY <1>7, CreateEffect DEF OtherRowsStay
  <2>8. \A i \in known : Live(i)' => \E l \in Keys : rows'[l].id = i
    BY <2>2, <2>6, <2>7 DEF HeldInv
  <2> QED
    <3>1. \A l \in Keys : Works(l)' /\ rows'[l].id # found' => ~Live(rows[l].id)'
      BY <2>1, <2>4, <2>5
    <3> QED
      BY <2>1, <2>8, <3>1 DEF HeldInv
<1>8. CASE Checkpoint
  <2> DEFINE k == Head(todo)
  <2>1. k \in Keys /\ Works(k) /\ \A i \in Ids : Live(i)' => Live(i)
    BY <1>8, CheckpointEffect DEF Works, Applying, Live
  <2>2. \A l \in Keys : ~Works(l)'
    BY <1>8, CheckpointEffect DEF Works, Applying, Removing
  <2>3. \A i \in known' : Live(i)' => \E l \in Keys : rows'[l].id = i
    BY <1>3, <1>8, <2>1, CheckpointEffect
  <2> QED
    BY <2>2, <2>3 DEF HeldInv
<1>9. CASE Delete
  <2>1. victim \in Keys /\ Works(victim) /\ \A i \in Ids : Live(i)' => Live(i)
    BY <1>9, DeleteEffect DEF Works, Removing, Live
  <2>2. CASE UNCHANGED <<rows, known>>
    <3>1. \A l \in Keys : Works(l)' => l = victim
      BY <1>9, DeleteEffect DEF Works, Applying, Removing
    <3>2. \A l \in Keys : ~Live(rows[l].id) => ~Live(rows[l].id)'
      BY <1>1, <1>2, <2>1, <2>2
    <3> QED
      BY <1>1, <1>9, <2>1, <2>2, <3>1, <3>2, DeleteEffect DEF HeldInv
  <2>3. CASE ~(UNCHANGED <<rows, known>>)
    <3>1. \A l \in Keys : ~Works(l)'
      BY <1>9, <2>3, DeleteEffect DEF Works, Applying, Removing
    <3>2. \A i \in known' : Live(i)' => \E l \in Keys : rows'[l].id = i
      BY <1>3, <1>9, <2>1, <2>3, DeleteEffect
    <3> QED
      BY <3>1, <3>2 DEF HeldInv
  <2> QED
    BY <2>2, <2>3
<1>10. CASE DropRow
  <2>1. victim \in Keys /\ Works(victim) /\ \A i : Live(i)' <=> Live(i)
    BY <1>10, DropEffect DEF Works, Removing, Live
  <2>2. ~Live(rows[victim].id)
    BY <1>10, <2>1, DropEffect DEF HeldInv
  <2>3. \A l \in Keys : ~Works(l)'
    BY <1>10, DropEffect DEF Works, Applying, Removing
  <2>4. \A i \in known' : Live(i)' => \E l \in Keys : rows'[l].id = i
    BY <1>10, <2>1, <2>2, DropEffect DEF HeldInv, OtherRowsStay
  <2> QED
    BY <2>3, <2>4 DEF HeldInv
<1>11. CASE Meddle
  <2>1. UNCHANGED <<pc, todo, victim, found, rows, known>>
    BY <1>11, DeadStaysDead DEF pass
  <2>2. \A i \in Ids : Live(i)' => Live(i)
    BY <1>11, DeadStaysDead DEF Live
  <2>3. \A l \in Keys : ~Live(rows[l].id) => ~Live(rows[l].id)'
    BY <1>1, <1>2, <2>1, <2>2
  <2>4. \A k \in Keys : Works(k)' <=> Works(k)
    BY <2>1 DEF Works
  <2> QED
    BY <1>1, <2>1, <2>2, <2>3, <2>4 DEF HeldInv
<1>12. CASE pc = "work" /\ todo # <<>> /\ RetentionFails(Head(todo))
  <2>1. \A k \in Keys : rows'[k].id = rows[k].id
    BY <1>12, RetentionEffect DEF OtherRowsStay
  <2>2. \A l \in Keys : ~Works(l)'
    BY <1>12, RetentionEffect DEF Works, Applying, Removing
  <2>3. known' = known /\ \A i : Live(i)' <=> Live(i)
    BY <1>12, RetentionEffect DEF Live
  <2> QED
    BY <2>1, <2>2, <2>3 DEF HeldInv
<1> QED
  BY <1>4, <1>5, <1>6, <1>7, <1>8, <1>9, <1>10, <1>11, <1>12, KindsOfSteps

-----------------------------------------------------------------------------
(* One object for a row *)

\* A row that has an id is the only one to know an object of its key, a key
\* without a row has none, and what a pass works with is the only one there is.
Twins(k) ==
    /\ rows[k] = NoRow => Ours(k) = {}
    /\ \A i, j \in Ours(k) : i = j
    /\ rows[k].id # NoId /\ ~(pc = "checkpoint" /\ k = Head(todo)) => Ours(k) \subseteq {rows[k].id}
    /\ pc \in {"own", "modify", "create", "checkpoint"} /\ k = Head(todo) => Ours(k) \subseteq {found}
    /\ pc \in {"trash", "delete"} /\ k = victim /\ found # NoId => Ours(k) \subseteq {found}
    /\ pc \in Applying /\ k = Head(todo) => rows[k] # NoRow

TwinsInv == \A k \in Keys : Twins(k)

LEMMA OursAreLive == \A k, i : i \in Ours(k) => i \in Ids /\ Live(i) /\ i # NoId
  BY DEF Ours, Live

LEMMA OursMatch == \A k \in Keys : Ours(k) \subseteq Matches(k)
  BY OwnMarkerShows DEF Ours, Matches

\* Without a new mark and with the same id in its row nothing new counts as ours.
LEMMA OursShrink ==
  ASSUME NEW k \in Keys, rows'[k].id = rows[k].id, orphans \subseteq orphans',
         \A i \in Ids : \/ objects'[i] = objects[i]
                        \/ objects'[i] = Gone
                        \/ objects'[i].comment # k
  PROVE  Ours(k)' \subseteq Ours(k)
<1>1. \A i \in Ids : Live(i)' /\ objects'[i].comment = k => Live(i) /\ objects[i].comment = k
  BY DEF Live
<1> QED
  BY <1>1 DEF Ours

\* A key that a step does not work on keeps what it says of its objects.
LEMMA OtherTwins ==
  ASSUME NEW k \in Keys, Twins(k), rows'[k] = rows[k], Ours(k)' \subseteq Ours(k),
         pc = "checkpoint" => k # Head(todo),
         pc' \in Applying => k # Head(todo)',
         pc' \in Removing => k # victim'
  PROVE  Twins(k)'
  BY DEF Twins, Applying, Removing

LEMMA QuietTwins ==
  ASSUME Typed, Typed', HeldInv, TwinsInv, Quiet, Moves, NEW k \in Keys
  PROVE  Twins(k)'
<1>1. Ours(k)' \subseteq Ours(k) /\ rows' = rows /\ Twins(k)
  BY OursShrink DEF Quiet, LosesCheckpoint, TwinsInv
<1>2. todo # <<>> => Head(todo) \in Keys
  BY NextKey
<1>3. rows[k] = NoRow => Ours(k)' = {}
  BY <1>1 DEF Twins
<1>4. \A i, j \in Ours(k)' : i = j
  BY <1>1 DEF Twins
<1>5. rows[k].id # NoId /\ ~(pc' = "checkpoint" /\ k = Head(todo)') => Ours(k)' \subseteq {rows[k].id}
  <2> SUFFICES ASSUME rows[k].id # NoId, ~(pc' = "checkpoint" /\ k = Head(todo)')
               PROVE  Ours(k)' \subseteq {rows[k].id}
    OBVIOUS
  <2>1. CASE ~(pc = "checkpoint" /\ k = Head(todo))
    BY <1>1, <2>1 DEF Twins
  <2>2. CASE pc = "checkpoint" /\ k = Head(todo) /\ rows[k].id = found
    BY <1>1, <2>2 DEF Twins
  <2>3. CASE pc = "checkpoint" /\ k = Head(todo) /\ rows[k].id # found
    <3>1. LosesCheckpoint
      BY <2>3 DEF Quiet
    <3>2. found \in orphans'
      BY <2>3, <3>1 DEF LosesCheckpoint
    <3>3. Ours(k)' \subseteq {found}
      BY <1>1, <2>3 DEF Twins
    <3>4. found \notin Ours(k)'
      BY <1>1, <2>3, <3>2 DEF Ours
    <3> QED
      BY <3>3, <3>4
  <2> QED
    BY <2>1, <2>2, <2>3
<1>6. pc' \in {"own", "modify", "create", "checkpoint"} /\ k = Head(todo)' => Ours(k)' \subseteq {found'}
  <2> SUFFICES ASSUME pc' \in {"own", "modify", "create", "checkpoint"}, k = Head(todo)'
               PROVE  Ours(k) \subseteq {found'}
    BY <1>1
  <2>1. CASE UNCHANGED <<pc, todo, found>>
    BY <1>1, <2>1 DEF Twins
  <2>2. CASE pc = "work" /\ todo' = todo /\ found' = rows[Head(todo)].id /\ found' # NoId
    BY <1>1, <2>2 DEF Twins
  <2>3. CASE pc = "recover" /\ todo' = todo /\ Matches(Head(todo)) \subseteq {found'}
    BY <2>3, OursMatch
  <2>4. CASE pc = "own" /\ todo' = todo /\ ~Live(found)
    BY <1>1, <2>4, OursAreLive DEF Twins
  <2>5. CASE pc = "own" /\ UNCHANGED <<todo, found>>
    BY <1>1, <2>5 DEF Twins
  <2> QED
    BY <2>1, <2>2, <2>3, <2>4, <2>5 DEF Moves, Applying, Removing
<1>7. pc' \in {"trash", "delete"} /\ k = victim' /\ found' # NoId => Ours(k)' \subseteq {found'}
  <2> SUFFICES ASSUME pc' \in {"trash", "delete"}, k = victim', found' # NoId
               PROVE  Ours(k) \subseteq {found'}
    BY <1>1
  <2>1. CASE UNCHANGED <<pc, victim, found>>
    BY <1>1, <2>1 DEF Twins
  <2>2. CASE pc = "work" /\ found' = rows[victim'].id
    BY <1>1, <2>2 DEF Twins
  <2>3. CASE pc = "find" /\ victim' = victim /\ Matches(victim) \subseteq {found'}
    BY <2>3, OursMatch
  <2>4. CASE pc = "trash" /\ UNCHANGED <<victim, found>>
    BY <1>1, <2>4 DEF Twins
  <2> QED
    BY <2>1, <2>2, <2>3, <2>4 DEF Moves, Applying, Removing
<1>8. pc' \in Applying /\ k = Head(todo)' => rows[k] # NoRow
  BY <1>1 DEF Moves, Applying, Removing, Twins
<1> QED
  BY <1>1, <1>3, <1>4, <1>5, <1>6, <1>7, <1>8 DEF Twins

\* A step that changes one object adds at most that one to the objects of a key.
LEMMA OursButOne ==
  ASSUME NEW k \in Keys, NEW x, UNCHANGED orphans, rows'[k].id \in {rows[k].id, x, NoId},
         \A i \in Ids \ {x} : objects'[i] = objects[i] \/ objects'[i] = Gone
  PROVE  Ours(k)' \subseteq Ours(k) \union {x}
<1> SUFFICES ASSUME NEW i \in Ours(k)', i # x PROVE i \in Ours(k)
  OBVIOUS
<1>1. i \in Ids /\ i # NoId /\ objects'[i] = objects[i] /\ objects[i] # Gone /\ objects[i].comment = k
  BY DEF Ours, Live
<1>2. i \in orphans => i = rows[k].id
  BY <1>1 DEF Ours
<1> QED
  BY <1>1, <1>2 DEF Ours, Live

LEMMA TwinsStep ==
  ASSUME Typed, HeldInv, TwinsInv, [Next]_vars
  PROVE  TwinsInv'
<1> SUFFICES ASSUME NEW k \in Keys PROVE Twins(k)'
  BY DEF TwinsInv
<1>1. Twins(k) /\ Typed'
  BY StepIsTyped DEF TwinsInv
<1>2. CASE QuietSteps
  BY <1>1, <1>2, QuietStepsMove, QuietTwins
<1>3. CASE pc = "work" /\ todo # <<>> /\ Insert(Head(todo))
  <2>1. Ours(k)' \subseteq Ours(k)
    <3>1. rows'[k].id = rows[k].id
      BY <1>3, InsertEffect, NoRowTypes DEF OtherRowsStay
    <3> QED
      BY <1>3, <3>1, InsertEffect, OursShrink
  <2>2. CASE k = Head(todo)
    <3>1. Ours(k)' = {} /\ rows'[k].id = NoId /\ rows'[k] # NoRow /\ pc' = "create"
      BY <1>1, <1>3, <2>1, <2>2, InsertEffect DEF Twins
    <3> QED
      BY <3>1 DEF Twins
  <2>3. CASE k # Head(todo)
    <3>1. rows'[k] = rows[k] /\ pc = "work" /\ pc' = "create" /\ todo' = todo
      BY <1>3, <2>3, InsertEffect DEF OtherRowsStay
    <3> QED
      BY <1>1, <2>1, <2>3, <3>1, OtherTwins DEF Removing
  <2> QED
    BY <2>2, <2>3
<1>4. CASE Modify
  <2>1. CASE k = Head(todo)
    <3>1. Ours(k) \subseteq {found} /\ rows[k] # NoRow
      BY <1>1, <1>4, <2>1, ModifyEffect DEF Twins, Applying
    <3>2. Ours(k)' \subseteq Ours(k) \union {found}
      BY <1>4, <2>1, ModifyEffect, OursButOne DEF Marks
    <3>3. Ours(k)' \subseteq {found'} /\ rows'[k] # NoRow /\ todo' = todo
          /\ (pc' = "checkpoint" \/ (pc' = "idle" /\ rows'[k].id = found'))
      BY <1>4, <2>1, <3>1, <3>2, ModifyEffect
    <3> QED
      BY <2>1, <3>3 DEF Twins, Applying
  <2>2. CASE k # Head(todo)
    <3>1. rows'[k] = rows[k] /\ pc = "modify" /\ pc' \in {"checkpoint", "idle"} /\ todo' = todo
          /\ UNCHANGED orphans
      BY <1>4, <2>2, ModifyEffect DEF OtherRowsStay
    <3>2. Ours(k)' \subseteq Ours(k)
      BY <1>4, <2>2, <3>1, ModifyEffect, OursShrink DEF Marks
    <3> QED
      BY <1>1, <2>2, <3>1, <3>2, OtherTwins DEF Applying, Removing
  <2> QED
    BY <2>1, <2>2
<1>5. CASE Create
  <2>1. CASE k = Head(todo)
    <3>1. Ours(k) = {} /\ rows[k] # NoRow
      BY <1>1, <1>5, <2>1, CreateEffect, OursAreLive DEF Twins, Applying
    <3>2. Ours(k)' \subseteq Ours(k) \union {created + 1}
      BY <1>5, <2>1, CreateEffect, OursButOne DEF Marks
    <3>3. Ours(k)' \subseteq {created + 1} /\ rows'[k] # NoRow /\ todo' = todo
          /\ \/ pc' = "checkpoint" /\ found' = created + 1
             \/ pc' = "idle" /\ rows'[k].id = NoId
      BY <1>5, <2>1, <3>1, <3>2, CreateEffect
    <3> QED
      BY <2>1, <3>3 DEF Twins, Applying
  <2>2. CASE k # Head(todo)
    <3>1. rows'[k] = rows[k] /\ pc = "create" /\ pc' \in {"checkpoint", "idle"} /\ todo' = todo
          /\ UNCHANGED orphans
      BY <1>5, <2>2, CreateEffect DEF OtherRowsStay
    <3>2. Ours(k)' \subseteq Ours(k)
      BY <1>5, <2>2, <3>1, CreateEffect, OursShrink DEF Marks
    <3> QED
      BY <1>1, <2>2, <3>1, <3>2, OtherTwins DEF Applying, Removing
  <2> QED
    BY <2>1, <2>2
<1>6. CASE Checkpoint
  <2>1. CASE k = Head(todo)
    <3>1. Ours(k) \subseteq {found}
      BY <1>1, <1>6, <2>1, CheckpointEffect DEF Twins
    <3>2. Ours(k)' \subseteq Ours(k) \union {found}
      BY <1>6, <2>1, CheckpointEffect, OursButOne
    <3>3. Ours(k)' \subseteq {found} /\ rows'[k] # NoRow /\ pc' = "work" /\ rows'[k].id = found
      BY <1>6, <2>1, <3>1, <3>2, CheckpointEffect
    <3> QED
      BY <2>1, <3>3 DEF Twins, Applying
  <2>2. CASE k # Head(todo)
    <3>1. rows'[k] = rows[k] /\ pc' = "work" /\ UNCHANGED <<orphans, objects>>
      BY <1>6, <2>2, CheckpointEffect DEF OtherRowsStay
    <3>2. Ours(k)' \subseteq Ours(k)
      BY <3>1, OursShrink
    <3> QED
      BY <1>1, <2>2, <3>1, <3>2, OtherTwins DEF Applying, Removing
  <2> QED
    BY <2>1, <2>2
<1>7. CASE Delete
  <2>1. CASE k = victim
    <3>1. Ours(k) \subseteq {found} /\ found' = found /\ victim' = victim /\ pc = "delete"
      BY <1>1, <1>7, <2>1, DeleteEffect DEF Twins, Typed, PassInv
    <3>2. Ours(k)' \subseteq Ours(k) \union {found} /\ (UNCHANGED rows => Ours(k)' \subseteq Ours(k))
      <4>1. rows'[k].id \in {rows[k].id, found, NoId}
        BY <1>7, <2>1, DeleteEffect
      <4> QED
        BY <1>7, <2>1, <4>1, DeleteEffect, OursButOne, OursShrink
    <3>3. CASE pc' = "drop" /\ UNCHANGED rows
      BY <1>1, <3>1, <3>2, <3>3 DEF Twins, Applying
    <3>4. CASE pc' = "idle" /\ rows'[k].id = found /\ rows'[k] # NoRow
      BY <3>1, <3>2, <3>4 DEF Twins, Applying
    <3> QED
      BY <1>7, <2>1, <3>3, <3>4, DeleteEffect
  <2>2. CASE k # victim
    <3>1. rows'[k] = rows[k] /\ pc = "delete" /\ pc' \in {"drop", "idle"} /\ victim' = victim
          /\ UNCHANGED orphans
      BY <1>7, <2>2, DeleteEffect DEF OtherRowsStay
    <3>2. Ours(k)' \subseteq Ours(k)
      BY <1>7, <3>1, DeleteEffect, OursShrink
    <3> QED
      BY <1>1, <2>2, <3>1, <3>2, OtherTwins DEF Applying, Removing
  <2> QED
    BY <2>1, <2>2
<1>8. CASE DropRow
  <2>1. CASE k = victim
    <3>1. Ours(k)' = {}
      <4> SUFFICES ASSUME NEW i \in Ours(k)' PROVE FALSE
        OBVIOUS
      <4>1. i \in Ids /\ Live(i) /\ objects[i].comment = k /\ i \notin orphans'
        BY <1>8, <2>1, DropEffect, NoRowTypes, Numbers DEF Ours, Live
      <4>2. rows[k].id # NoId /\ i \in Ours(k)
        BY <1>8, <2>1, <4>1, DropEffect DEF Ours
      <4>3. i = rows[k].id
        BY <1>1, <1>8, <4>2, DropEffect DEF Twins
      <4>4. Works(k) /\ ~Live(found)
        BY <1>8, <2>1, DropEffect DEF Works, Removing
      <4> QED
        BY <4>1, <4>3, <4>4 DEF HeldInv
    <3>2. rows'[k] = NoRow /\ rows'[k].id = NoId /\ pc' = "work"
      BY <1>8, <2>1, DropEffect, NoRowTypes
    <3> QED
      BY <3>1, <3>2 DEF Twins, Applying
  <2>2. CASE k # victim
    <3>1. rows'[k] = rows[k] /\ pc = "drop" /\ pc' = "work" /\ orphans \subseteq orphans'
          /\ UNCHANGED objects
      BY <1>8, <2>2, DropEffect DEF OtherRowsStay
    <3>2. Ours(k)' \subseteq Ours(k)
      BY <3>1, OursShrink
    <3> QED
      BY <1>1, <2>2, <3>1, <3>2, OtherTwins DEF Applying, Removing
  <2> QED
    BY <2>1, <2>2
<1>9. CASE Meddle
  <2>1. UNCHANGED <<pc, todo, victim, found, rows, orphans>>
    BY <1>9, DeadStaysDead DEF pass
  <2>2. Ours(k)' \subseteq Ours(k)
    <3>1. k # Unmarked
      BY KeysAreKeys
    <3> QED
      BY <1>9, <2>1, <3>1, DeadStaysDead, OursShrink
  <2> QED
    BY <1>1, <2>1, <2>2 DEF Twins
<1>10. CASE pc = "work" /\ todo # <<>> /\ RetentionFails(Head(todo))
  <2>1. /\ rows'[k].id = rows[k].id /\ pc = "work" /\ pc' = "idle"
        /\ rows'[k] = NoRow => rows[k] = NoRow
    BY <1>10, RetentionEffect DEF OtherRowsStay
  <2>2. Ours(k)' \subseteq Ours(k)
    BY <1>10, <2>1, RetentionEffect, OursShrink
  <2> QED
    BY <1>1, <2>1, <2>2 DEF Twins, Applying
<1> QED
  BY <1>2, <1>3, <1>4, <1>5, <1>6, <1>7, <1>8, <1>9, <1>10, KindsOfSteps

LEMMA InitHasNoTwins == Init => HeldInv /\ TwinsInv
<1> SUFFICES ASSUME Init PROVE HeldInv /\ TwinsInv
  OBVIOUS
<1>1. /\ \A k \in Keys : rows[k] = NoRow /\ rows[k].id = NoId
      /\ \A i \in Ids : ~Live(i)
      /\ known = {} /\ pc = "idle"
  BY NoRowTypes DEF Init, Live
<1>2. \A k \in Keys : Ours(k) = {}
  BY <1>1 DEF Ours
<1>3. HeldInv
  BY <1>1 DEF HeldInv, Works, Applying, Removing
<1>4. \A k \in Keys : Twins(k)
  BY <1>1, <1>2 DEF Twins, Applying
<1> QED
  BY <1>3, <1>4 DEF TwinsInv

\* Crashes, lost answers, retries and somebody else's deletions never leave two
\* objects with the marker of one row, objects that no pass looks for apart: before
\* an object is created, applyResource knows that there is none.
THEOREM NoTwins == Spec => []NoSecondObject
<1> DEFINE I == Typed /\ NumberedInv /\ HeldInv /\ TwinsInv
<1>1. Init => I
  BY InitIsTyped, InitIsNumbered, InitHasNoTwins
<1>2. I /\ [Next]_vars => I'
  BY StepIsTyped, NumberedStep, HeldStep, TwinsStep
<1>3. I => NoSecondObject
  <2> SUFFICES ASSUME I, NEW k \in Keys PROVE Cardinality(Ours(k)) <= 1
    BY DEF NoSecondObject
  <2>1. \A i, j \in Ours(k) : i = j
    BY DEF TwinsInv, Twins
  <2>2. CASE Ours(k) = {}
    BY <2>2, FS_EmptySet
  <2>3. CASE Ours(k) # {}
    <3>1. PICK i : Ours(k) = {i}
      BY <2>1, <2>3
    <3>2. Cardinality({i}) = 1
      BY FS_Singleton
    <3> QED
      BY <3>1, <3>2
  <2> QED
    BY <2>2, <2>3
<1> QED
  BY <1>1, <1>2, <1>3, PTL DEF Spec

-----------------------------------------------------------------------------
(* One row for an object *)

\* No marker is found in the marker of another key: no sequence number begins with
\* another one, as with fewer than ten targets of a class.
UniqueMarkers == \A k, l \in Keys : Shows(k, l) => k = l

\* An object belongs to a row by its id, or because the pass has found it for it.
Holds(k, i) == rows[k].id = i \/ (Works(k) /\ found = i)

\* A live object has the marker of the key that holds it, unless somebody removed
\* it, and no other key holds it.
MarkersInv ==
    \A k \in Keys, i \in Ids :
        Holds(k, i) /\ Live(i) =>
            /\ objects[i].comment \in {k, Unmarked}
            /\ \A l \in Keys : Holds(l, i) => l = k

\* What is found by a marker has exactly this marker.
LEMMA FoundByMarker ==
  ASSUME UniqueMarkers, Typed, NEW k \in Keys, NEW i \in Matches(k)
  PROVE  i \in Ids /\ Live(i) /\ objects[i].comment = k
<1>1. i \in Ids /\ Live(i) /\ Shows(objects[i].comment, k)
  BY DEF Matches
<1>2. objects[i].comment \in Keys \union {Unmarked}
  BY <1>1 DEF Typed, TypeOK, Object, Gone
<1>3. objects[i].comment # Unmarked
  BY <1>1, OwnMarkerShows
<1> QED
  BY <1>1, <1>2, <1>3 DEF UniqueMarkers

\* A pass works on one key at a time.
LEMMA OneKeyAtATime ==
  \A k, l \in Keys : /\ Works(k) /\ Works(l) => k = l
                     /\ Works(k)' /\ Works(l)' => k = l
  BY DEF Works, Applying, Removing

\* i begins to belong to k because its marker was found.
Finds(k, i) == Works(k)' /\ found' = i /\ Live(i) /\ objects[i].comment = k

LEMMA QuietHolds ==
  ASSUME UniqueMarkers, Typed, Quiet, Moves, NEW k \in Keys, NEW i \in Ids, Holds(k, i)'
  PROVE  Holds(k, i) \/ Finds(k, i)
<1>1. CASE rows'[k].id = i
  BY <1>1 DEF Quiet, Holds
<1>2. CASE Works(k)' /\ found' = i
  <2>1. (pc' \in Applying /\ k = Head(todo)') \/ (pc' \in Removing /\ k = victim')
    BY <1>2 DEF Works
  <2>2. i # NoId
    BY Numbers
  <2>3. CASE UNCHANGED <<pc, todo, victim, found>>
    BY <1>2, <2>3 DEF Holds, Works
  <2>4. CASE /\ pc = "recover" /\ pc' = "own" /\ todo' = todo
             /\ Matches(Head(todo)) = {found'}
    BY <1>2, <2>1, <2>4, FoundByMarker DEF Finds, Removing
  <2>5. CASE /\ pc = "find" /\ pc' = "trash" /\ victim' = victim
             /\ Matches(victim) = {found'}
    BY <1>2, <2>1, <2>5, FoundByMarker DEF Finds, Applying
  <2> QED
    BY <1>2, <2>1, <2>2, <2>3, <2>4, <2>5 DEF Moves, Holds, Works, Applying, Removing
<1> QED
  BY <1>1, <1>2 DEF Holds

\* Where nothing is created, what is held was held or was found by its marker.
LEMMA MarkersFollow ==
  ASSUME MarkersInv,
         \A k \in Keys, i \in Ids : Holds(k, i)' /\ Live(i)' =>
            /\ Live(i) /\ (Holds(k, i) \/ Finds(k, i))
            /\ \/ objects'[i].comment \in {objects[i].comment, Unmarked}
               \/ objects'[i].comment \in Keys /\ Holds(objects'[i].comment, i)
  PROVE  MarkersInv'
<1> SUFFICES ASSUME NEW k \in Keys, NEW i \in Ids, Holds(k, i)', Live(i)'
             PROVE  /\ objects'[i].comment \in {k, Unmarked}
                    /\ \A l \in Keys : Holds(l, i)' => l = k
  BY DEF MarkersInv
<1>1. Live(i) /\ (Holds(k, i) \/ Finds(k, i))
  OBVIOUS
<1>2. objects[i].comment \in {k, Unmarked}
  BY <1>1 DEF MarkersInv, Finds
<1>3. ASSUME NEW l \in Keys, Holds(l, i) \/ Finds(l, i) PROVE l = k
  <2>1. CASE Finds(k, i) /\ Finds(l, i)
    BY <2>1, OneKeyAtATime DEF Finds
  <2>2. CASE Finds(k, i) /\ Holds(l, i)
    BY <1>1, <2>2, KeysAreKeys DEF Finds, MarkersInv
  <2>3. CASE Holds(k, i) /\ Finds(l, i)
    BY <1>1, <2>3, KeysAreKeys DEF Finds, MarkersInv
  <2>4. CASE Holds(k, i) /\ Holds(l, i)
    BY <1>1, <2>4 DEF MarkersInv
  <2> QED
    BY <1>1, <1>3, <2>1, <2>2, <2>3, <2>4
<1>4. \A l \in Keys : Holds(l, i)' => l = k
  BY <1>3
<1>5. objects'[i].comment \in {k, Unmarked}
  BY <1>2, <1>3
<1> QED
  BY <1>4, <1>5

LEMMA MarkersStep ==
  ASSUME UniqueMarkers, Typed, NumberedInv, MarkersInv, [Next]_vars
  PROVE  MarkersInv'
<1>1. created \in Nat /\ NoId \notin Ids /\ NoId = 0
  BY Numbers DEF Typed, TypeOK
<1>2. CASE QuietSteps
  <2>1. Quiet /\ Moves
    BY <1>2, QuietStepsMove
  <2>2. \A i : (Live(i)' <=> Live(i)) /\ objects'[i] = objects[i]
    BY <2>1 DEF Quiet, Live
  <2> QED
    BY <2>1, <2>2, QuietHolds, MarkersFollow
<1>3. CASE pc = "work" /\ todo # <<>> /\ Insert(Head(todo))
  <2>1. UNCHANGED objects /\ \A i : Live(i)' <=> Live(i)
    BY <1>3, InsertEffect DEF Live
  <2>2. ASSUME NEW k \in Keys, NEW i \in Ids, Holds(k, i)' PROVE Holds(k, i)
    BY <1>1, <1>3, <2>2, InsertEffect DEF Holds, OtherRowsStay
  <2> QED
    BY <2>1, <2>2, MarkersFollow
<1>4. CASE Modify
  <2>1. Works(Head(todo)) /\ Holds(Head(todo), found) /\ Head(todo) \in Keys
    BY <1>4, ModifyEffect DEF Holds, Works, Applying
  <2>2. ASSUME NEW k \in Keys, NEW i \in Ids, Holds(k, i)' PROVE Holds(k, i)
    <3>1. Works(k)' => Works(k) /\ found' = found
      BY <1>4, ModifyEffect DEF Works, Applying, Removing
    <3>2. rows'[k].id = i => Holds(k, i)
      BY <1>4, <2>1, ModifyEffect DEF Holds, OtherRowsStay
    <3> QED
      BY <2>2, <3>1, <3>2 DEF Holds
  <2>3. \A i \in Ids : /\ Live(i)' => Live(i)
                       /\ \/ objects'[i].comment = objects[i].comment
                          \/ objects'[i].comment = Head(todo) /\ i = found
    BY <1>4, ModifyEffect DEF Live, Marks
  <2> QED
    BY <2>1, <2>2, <2>3, MarkersFollow
<1>5. CASE Create
  <2>1. \A k \in Keys : rows'[k].id <= created
    BY <1>1, <1>5, CreateEffect DEF OtherRowsStay, NumberedInv
  <2>2. ASSUME NEW k \in Keys, NEW i \in Ids, Holds(k, i)', i # created + 1
        PROVE  Holds(k, i) /\ objects'[i] = objects[i]
    <3>1. Works(k)' => found' = created + 1
      BY <1>5, CreateEffect DEF Works, Applying, Removing
    <3>2. rows'[k].id = i => rows[k].id = i
      BY <1>1, <1>5, CreateEffect DEF OtherRowsStay
    <3>3. objects'[i] = objects[i]
      BY <1>5, <2>2, CreateEffect DEF Marks
    <3> QED
      BY <2>2, <3>1, <3>2, <3>3 DEF Holds
  <2>3. ASSUME NEW k \in Keys, NEW i \in Ids, i = created + 1, Holds(k, i)'
        PROVE  k = Head(todo) /\ objects'[i].comment = k
    <3>1. rows'[k].id # i
      <4>1. rows' \in [Keys -> Row \union {NoRow}]
        BY StepIsTyped DEF Typed, TypeOK
      <4>2. rows'[k].id \in Nat
        BY <4>1, Numbers DEF Row, NoRow
      <4> QED
        BY <1>1, <2>1, <2>3, <4>2
    <3>2. Works(k)'
      BY <2>3, <3>1 DEF Holds
    <3>3. pc' = "checkpoint"
      BY <1>5, <3>2, CreateEffect DEF Works, Applying, Removing
    <3>4. k = Head(todo)
      BY <1>5, <3>2, <3>3, CreateEffect DEF Works, Applying, Removing
    <3>5. created' # created
      BY <1>1, <1>5, <3>3, CreateEffect
    <3> QED
      BY <1>5, <2>3, <3>4, <3>5, CreateEffect DEF Marks
  <2> SUFFICES ASSUME NEW k \in Keys, NEW i \in Ids, Holds(k, i)', Live(i)'
               PROVE  /\ objects'[i].comment \in {k, Unmarked}
                      /\ \A l \in Keys : Holds(l, i)' => l = k
    BY DEF MarkersInv
  <2>4. CASE i = created + 1
    BY <2>3, <2>4
  <2>5. CASE i # created + 1
    <3>1. \A l \in Keys : Holds(l, i)' => Holds(l, i)
      BY <2>2, <2>5
    <3>2. Holds(k, i) /\ objects'[i] = objects[i] /\ Live(i)
      BY <2>2, <2>5 DEF Live
    <3> QED
      BY <3>1, <3>2 DEF MarkersInv
  <2> QED
    BY <2>4, <2>5
<1>6. CASE Checkpoint
  <2>1. Holds(Head(todo), found)
    BY <1>6, CheckpointEffect DEF Holds, Works, Applying
  <2>2. ASSUME NEW k \in Keys, NEW i \in Ids, Holds(k, i)' PROVE Holds(k, i)
    <3>1. ~Works(k)'
      BY <1>6, CheckpointEffect DEF Works, Applying, Removing
    <3> QED
      BY <1>6, <2>1, <2>2, <3>1, CheckpointEffect DEF Holds, OtherRowsStay
  <2>3. UNCHANGED objects /\ \A i : Live(i)' <=> Live(i)
    BY <1>6, CheckpointEffect DEF Live
  <2> QED
    BY <2>2, <2>3, MarkersFollow
<1>7. CASE Delete
  <2>1. Holds(victim, found)
    BY <1>7, DeleteEffect DEF Holds, Works, Removing
  <2>2. ASSUME NEW k \in Keys, NEW i \in Ids, Holds(k, i)' PROVE Holds(k, i)
    <3>1. Works(k)' => Works(k) /\ found' = found
      BY <1>7, DeleteEffect DEF Works, Applying, Removing
    <3>2. rows'[k].id = i => Holds(k, i)
      BY <1>7, <2>1, DeleteEffect DEF Holds, OtherRowsStay
    <3> QED
      BY <2>2, <3>1, <3>2 DEF Holds
  <2>3. \A i \in Ids : Live(i)' => Live(i) /\ objects'[i] = objects[i]
    BY <1>7, DeleteEffect DEF Live
  <2> QED
    BY <2>2, <2>3, MarkersFollow
<1>8. CASE DropRow
  <2>1. UNCHANGED objects /\ \A i : Live(i)' <=> Live(i)
    BY <1>8, DropEffect DEF Live
  <2>2. ASSUME NEW k \in Keys, NEW i \in Ids, Holds(k, i)' PROVE Holds(k, i)
    <3>1. ~Works(k)'
      BY <1>8, DropEffect DEF Works, Applying, Removing
    <3> QED
      BY <1>1, <1>8, <2>2, <3>1, DropEffect, NoRowTypes DEF Holds, OtherRowsStay
  <2> QED
    BY <2>1, <2>2, MarkersFollow
<1>9. CASE Meddle
  <2>1. UNCHANGED <<pc, todo, victim, found, rows>>
    BY <1>9, DeadStaysDead DEF pass
  <2>2. \A k, i : Holds(k, i)' => Holds(k, i)
    BY <2>1 DEF Holds, Works
  <2>3. \A i \in Ids : /\ Live(i)' => Live(i)
                       /\ Live(i)' => objects'[i].comment \in {objects[i].comment, Unmarked}
    BY <1>9, DeadStaysDead DEF Live
  <2> QED
    BY <2>2, <2>3, MarkersFollow
<1>10. CASE pc = "work" /\ todo # <<>> /\ RetentionFails(Head(todo))
  <2>1. UNCHANGED objects /\ \A i : Live(i)' <=> Live(i)
    BY <1>10, RetentionEffect DEF Live
  <2>2. ASSUME NEW k \in Keys, NEW i \in Ids, Holds(k, i)' PROVE Holds(k, i)
    <3>1. ~Works(k)'
      BY <1>10, RetentionEffect DEF Works, Applying, Removing
    <3> QED
      BY <1>10, <2>2, <3>1, RetentionEffect DEF Holds, OtherRowsStay
  <2> QED
    BY <2>1, <2>2, MarkersFollow
<1> QED
  BY <1>2, <1>3, <1>4, <1>5, <1>6, <1>7, <1>8, <1>9, <1>10, KindsOfSteps

LEMMA InitHasMarkers == Init => MarkersInv
  BY DEF Init, MarkersInv, Live

\* Where markers can be told apart two rows never hold the same live object, so
\* that applying or deleting one resource never hits another (FindResource).
THEOREM OwnObjects == ASSUME UniqueMarkers PROVE Spec => []RowsHoldTheirOwnObject
<1> DEFINE I == Typed /\ NumberedInv /\ MarkersInv
<1>1. Init => I
  BY InitIsTyped, InitIsNumbered, InitHasMarkers
<1>2. I /\ [Next]_vars => I'
  BY UniqueMarkers, StepIsTyped, NumberedStep, MarkersStep
<1>3. I => RowsHoldTheirOwnObject
  <2>1. Typed => \A k \in Keys : rows[k].id # NoId => rows[k].id \in Ids
    BY RowTypes DEF Typed, TypeOK
  <2> QED
    BY <2>1 DEF RowsHoldTheirOwnObject, MarkersInv, Holds
<1> QED
  BY <1>1, <1>2, <1>3, PTL DEF Spec

\* Where markers can be told apart no object that a row has ever known is left when
\* a deletion or a smaller plan is shown as done: rows are only dropped behind their
\* object (cleanupSurplus, cleanupCustomer).
THEOREM RemovedAreTrashed == ASSUME UniqueMarkers PROVE Spec => []RemovedMeansTrashed
<1> DEFINE I == Typed /\ NumberedInv /\ HeldInv /\ MarkersInv
<1>1. Init => I
  BY InitIsTyped, InitIsNumbered, InitHasNoTwins, InitHasMarkers
<1>2. I /\ [Next]_vars => I'
  BY UniqueMarkers, StepIsTyped, NumberedStep, HeldStep, MarkersStep
<1>3. I => RemovedMeansTrashed
  <2> SUFFICES ASSUME I, status \in {"applied", "deleted"},
                      NEW i \in known, Live(i), objects[i].comment # Unmarked
               PROVE  objects[i].comment \in KeysOf(shown)
    BY DEF RemovedMeansTrashed
  <2>1. PICK k \in Keys : rows[k].id = i
    BY DEF HeldInv
  <2>2. i \in Ids
    BY DEF Typed, TypeOK
  <2>3. objects[i].comment = k
    BY <2>1, <2>2 DEF MarkersInv, Holds
  <2>4. rows[k] # NoRow
    BY <2>1, <2>2, NoRowTypes, Numbers
  <2> QED
    BY <2>3, <2>4 DEF Typed, PassInv
<1> QED
  BY <1>1, <1>2, <1>3, PTL DEF Spec

-----------------------------------------------------------------------------
(* The order of a plan                                                      *)
(*                                                                          *)
(* The schedule comes first, and right behind a target its task.            *)

Listed(q) == {q[i] : i \in DOMAIN q}

Orderly(q) ==
    \A i \in DOMAIN q :
        /\ q[i] = ScheduleKey => i = 1
        /\ q[i][1] = "target" => i + 1 \in DOMAIN q /\ q[i + 1] = TaskKey(q[i][2])
        /\ q[i][1] = "task" /\ i > 1 => q[i - 1] = TargetKey(q[i][2])
        /\ \A j \in DOMAIN q : q[i] = q[j] => i = j

LEMMA KeyParts ==
  /\ \A s : /\ TargetKey(s)[1] = "target" /\ TargetKey(s)[2] = s
            /\ TaskKey(s)[1] = "task" /\ TaskKey(s)[2] = s
  /\ ScheduleKey[1] = "schedule"
  /\ \A s, t : /\ TargetKey(s) # TaskKey(t) /\ TargetKey(s) # ScheduleKey /\ TaskKey(s) # ScheduleKey
               /\ TargetKey(s) = TargetKey(t) => s = t
               /\ TaskKey(s) = TaskKey(t) => s = t
  BY DEF TargetKey, TaskKey, ScheduleKey

LEMMA KeysByKind ==
  ASSUME NEW k \in Keys
  PROVE  /\ k[1] \in {"schedule", "target", "task"}
         /\ k[1] = "schedule" <=> k = ScheduleKey
         /\ k[1] = "target" => k = TargetKey(k[2]) /\ k[2] \in Seqs
         /\ k[1] = "task" => k = TaskKey(k[2]) /\ k[2] \in Seqs
<1>1. k = <<k[1], k[2]>> /\ k[1] \in Kinds /\ (k[1] # "schedule" => k[2] \in Seqs)
      /\ (k[1] = "schedule" => k = ScheduleKey)
  BY KeysAreKeys
<1> QED
  BY <1>1 DEF Kinds, TargetKey, TaskKey, ScheduleKey

\* What follows of a list behind its head.
LEMMA TailIsOrderly ==
  ASSUME NEW q \in Seq(Keys), q # <<>>, Orderly(q)
  PROVE  /\ Orderly(Tail(q))
         /\ Listed(q) = {Head(q)} \union Listed(Tail(q))
         /\ ScheduleKey \notin Listed(Tail(q)) /\ Head(q) \notin Listed(Tail(q))
         /\ Head(q)[1] = "target" => TaskKey(Head(q)[2]) \in Listed(Tail(q))
         /\ Head(q)[1] = "task" => /\ TargetKey(Head(q)[2]) \notin Listed(q)
                                   /\ ScheduleKey \notin Listed(q)
<1> DEFINE n == Len(q)
           r == Tail(q)
<1>1. /\ n \in Nat /\ n >= 1 /\ DOMAIN q = 1 .. n
      /\ DOMAIN r = 1 .. n - 1
      /\ \A i \in 1 .. n - 1 : r[i] = q[i + 1]
      /\ Head(q) = q[1]
  BY HeadTailProperties
<1>2. \A i \in 1 .. n : q[i] \in Keys
  BY <1>1
<1> HIDE DEF n, r
<1>3. \A i \in 1 .. n - 1 : i + 1 \in 1 .. n /\ i + 1 > 1
  BY <1>1
<1>4. \A i \in DOMAIN r : /\ i + 1 \in DOMAIN q /\ r[i] = q[i + 1] /\ i + 1 # 1
                          /\ i \in Nat /\ i # 0
  BY <1>1, <1>3
<1>5. \A i \in DOMAIN q : i # 1 => i - 1 \in DOMAIN r /\ r[i - 1] = q[i]
  BY <1>1
<1>6. Listed(q) = {q[1]} \union Listed(r)
  <2>1. ASSUME NEW x \in Listed(q) PROVE x = q[1] \/ x \in Listed(r)
    BY <1>5 DEF Listed
  <2>2. 1 \in DOMAIN q
    BY <1>1
  <2>3. \A x \in Listed(r) : x \in Listed(q)
    BY <1>4 DEF Listed
  <2> QED
    BY <2>1, <2>2, <2>3 DEF Listed
<1>7. ScheduleKey \notin Listed(r) /\ q[1] \notin Listed(r)
  BY <1>1, <1>4 DEF Orderly, Listed
<1>8. q[1][1] = "target" => TaskKey(q[1][2]) \in Listed(r)
  <2>1. 1 \in DOMAIN q
    BY <1>1
  <2>2. q[1][1] = "target" => 2 \in DOMAIN q /\ q[2] = TaskKey(q[1][2])
    BY <2>1 DEF Orderly
  <2>3. 2 \in DOMAIN q => 1 \in DOMAIN r /\ r[1] = q[2]
    BY <1>5
  <2> QED
    BY <2>2, <2>3 DEF Listed
<1>9. ASSUME q[1][1] = "task" PROVE TargetKey(q[1][2]) \notin Listed(q) /\ ScheduleKey \notin Listed(q)
  <2>1. q[1] \in Keys /\ 1 \in DOMAIN q
    BY <1>1, <1>2
  <2>2. q[1] = TaskKey(q[1][2])
    BY <1>9, <2>1, KeysByKind
  <2>3. ScheduleKey \notin Listed(q)
    BY <1>6, <1>7, <2>2, KeyParts
  <2>4. ASSUME NEW j \in DOMAIN q, q[j] = TargetKey(q[1][2]) PROVE FALSE
    <3>1. j + 1 \in DOMAIN q /\ q[j + 1] = q[1]
      BY <2>2, <2>4, KeyParts DEF Orderly
    <3>2. j + 1 = 1
      BY <2>1, <3>1 DEF Orderly
    <3> QED
      BY <1>1, <3>2
  <2> QED
    BY <2>3, <2>4 DEF Listed
<1>10. Orderly(r)
  <2> SUFFICES ASSUME NEW i \in DOMAIN r
               PROVE  /\ r[i] = ScheduleKey => i = 1
                      /\ r[i][1] = "target" => i + 1 \in DOMAIN r /\ r[i + 1] = TaskKey(r[i][2])
                      /\ r[i][1] = "task" /\ i > 1 => r[i - 1] = TargetKey(r[i][2])
                      /\ \A j \in DOMAIN r : r[i] = r[j] => i = j
    BY DEF Orderly
  <2>1. i \in Nat /\ i + 1 \in DOMAIN q /\ r[i] = q[i + 1]
    BY <1>4
  <2>2. r[i] # ScheduleKey
    BY <1>7 DEF Listed
  <2>3. r[i][1] = "target" => i + 1 \in DOMAIN r /\ r[i + 1] = TaskKey(r[i][2])
    <3>1. r[i][1] = "target" => i + 2 \in DOMAIN q /\ q[i + 2] = TaskKey(r[i][2])
      BY <2>1 DEF Orderly
    <3>2. i + 2 \in DOMAIN q => i + 1 \in DOMAIN r /\ r[i + 1] = q[i + 2]
      BY <1>1, <2>1
    <3> QED
      BY <3>1, <3>2
  <2>4. r[i][1] = "task" /\ i > 1 => r[i - 1] = TargetKey(r[i][2])
    <3>1. i > 1 => i - 1 \in DOMAIN r /\ r[i - 1] = q[i]
      BY <1>1, <2>1
    <3>2. r[i][1] = "task" /\ i > 1 => q[i] = TargetKey(r[i][2])
      BY <2>1 DEF Orderly
    <3> QED
      BY <3>1, <3>2
  <2>5. ASSUME NEW j \in DOMAIN r, r[i] = r[j] PROVE i = j
    <3>1. i + 1 = j + 1 /\ j \in Nat
      BY <1>4, <2>1, <2>5 DEF Orderly
    <3> QED
      BY <2>1, <3>1
  <2> QED
    BY <2>2, <2>3, <2>4, <2>5
<1> QED
  BY <1>1, <1>6, <1>7, <1>8, <1>9, <1>10 DEF r

\* A plan has the schedule and, of every planned target, the target and its task.
PlanUpTo(q, S, n) ==
    /\ q \in Seq(Keys) /\ q # <<>> /\ q[1] = ScheduleKey
    /\ Orderly(q)
    /\ Listed(q) = {ScheduleKey} \union {TargetKey(s) : s \in S \cap 1 .. n}
                                 \union {TaskKey(s) : s \in S \cap 1 .. n}

LEMMA PlanGrows ==
  ASSUME NEW S \in SUBSET Seqs, NEW n \in Nat, n >= 1, n \in S, NEW p, PlanUpTo(p, S, n - 1)
  PROVE  PlanUpTo(p \o <<TargetKey(n), TaskKey(n)>>, S, n)
<1> DEFINE m == Len(p)
           q == p \o <<TargetKey(n), TaskKey(n)>>
<1>1. /\ p \in Seq(Keys) /\ m \in Nat /\ m >= 1 /\ DOMAIN p = 1 .. m
      /\ TargetKey(n) \in Keys /\ TaskKey(n) \in Keys
  BY KeysAreKeys DEF PlanUpTo
<1>2. /\ q \in Seq(Keys) /\ DOMAIN q = 1 .. m + 2
      /\ \A i \in 1 .. m : q[i] = p[i]
      /\ q[m + 1] = TargetKey(n) /\ q[m + 2] = TaskKey(n)
  <2>1. <<TargetKey(n), TaskKey(n)>> \in Seq(Keys)
    BY <1>1
  <2> QED
    BY <1>1, <2>1, ConcatProperties
<1> HIDE DEF q, m
<1>3. TargetKey(n) \notin Listed(p) /\ TaskKey(n) \notin Listed(p)
  BY KeyParts DEF PlanUpTo
<1>4. \A i \in 1 .. m : p[i] \in Listed(p) /\ i \in DOMAIN p
  BY <1>1 DEF Listed
<1>5. \A i \in DOMAIN q : i \in 1 .. m \/ i = m + 1 \/ i = m + 2
  BY <1>1, <1>2
<1>6. q[m + 1] # q[m + 2] /\ \A i \in 1 .. m : q[i] # q[m + 1] /\ q[i] # q[m + 2]
  BY <1>2, <1>3, <1>4, KeyParts
<1>7. ASSUME NEW i \in DOMAIN q
      PROVE  /\ q[i] = ScheduleKey => i = 1
             /\ q[i][1] = "target" => i + 1 \in DOMAIN q /\ q[i + 1] = TaskKey(q[i][2])
             /\ q[i][1] = "task" /\ i > 1 => q[i - 1] = TargetKey(q[i][2])
             /\ \A j \in DOMAIN q : q[i] = q[j] => i = j
  <2>1. CASE i \in 1 .. m
    <3>1. q[i] = p[i] /\ p[i] \in Listed(p) /\ i \in DOMAIN p
      BY <1>2, <1>4, <2>1
    <3>2. /\ p[i] = ScheduleKey => i = 1
          /\ p[i][1] = "target" => i + 1 \in DOMAIN p /\ p[i + 1] = TaskKey(p[i][2])
          /\ p[i][1] = "task" /\ i > 1 => p[i - 1] = TargetKey(p[i][2])
          /\ \A j \in DOMAIN p : p[i] = p[j] => i = j
      BY <3>1 DEF PlanUpTo, Orderly
    <3>3. i + 1 \in DOMAIN p => i + 1 \in DOMAIN q /\ q[i + 1] = p[i + 1]
      BY <1>1, <1>2
    <3>4. i > 1 => q[i - 1] = p[i - 1]
      BY <1>1, <1>2, <2>1
    <3>5. \A j \in DOMAIN q : q[i] = q[j] => i = j
      BY <1>1, <1>2, <1>3, <1>5, <3>1, <3>2
    <3> QED
      BY <3>1, <3>2, <3>3, <3>4, <3>5
  <2>2. CASE i = m + 1
    <3>1. q[i] = TargetKey(n) /\ i + 1 = m + 2
      BY <1>1, <1>2, <2>2
    <3>2. \A j \in DOMAIN q : q[i] = q[j] => i = j
      BY <1>5, <1>6, <2>2
    <3> QED
      BY <1>1, <1>2, <3>1, <3>2, KeyParts
  <2>3. CASE i = m + 2
    <3>1. q[i] = TaskKey(n) /\ i - 1 = m + 1
      BY <1>1, <1>2, <2>3
    <3>2. \A j \in DOMAIN q : q[i] = q[j] => i = j
      BY <1>5, <1>6, <2>3
    <3> QED
      BY <1>1, <1>2, <3>1, <3>2, KeyParts
  <2> QED
    BY <1>5, <2>1, <2>2, <2>3
<1>8. Listed(q) = Listed(p) \union {TargetKey(n), TaskKey(n)}
  <2>1. m + 1 \in DOMAIN q /\ m + 2 \in DOMAIN q /\ \A i \in 1 .. m : i \in DOMAIN q
    BY <1>1, <1>2
  <2>2. \A x \in Listed(q) : x \in Listed(p) \/ x \in {TargetKey(n), TaskKey(n)}
    BY <1>2, <1>4, <1>5 DEF Listed
  <2>3. \A x \in Listed(p) : x \in Listed(q)
    BY <1>1, <1>2, <2>1 DEF Listed
  <2>4. TargetKey(n) \in Listed(q) /\ TaskKey(n) \in Listed(q)
    BY <1>2, <2>1 DEF Listed
  <2> QED
    BY <2>2, <2>3, <2>4
<1>9. S \cap 1 .. n = (S \cap 1 .. n - 1) \union {n}
  <2>1. \A s \in Nat : s \in 1 .. n <=> s \in 1 .. n - 1 \/ s = n
    OBVIOUS
  <2> QED
    BY <2>1, SeqsAreSmall
<1>10. Listed(q) = {ScheduleKey} \union {TargetKey(s) : s \in S \cap 1 .. n}
                                \union {TaskKey(s) : s \in S \cap 1 .. n}
  BY <1>8, <1>9 DEF PlanUpTo
<1>11. q # <<>> /\ q[1] = ScheduleKey
  BY <1>1, <1>2 DEF PlanUpTo
<1>12. PlanUpTo(q, S, n)
  BY <1>2, <1>7, <1>10, <1>11 DEF PlanUpTo, Orderly
<1> QED
  BY <1>12 DEF q

LEMMA PlanIsOrderly ==
  ASSUME NEW S \in SUBSET Seqs
  PROVE  /\ Orderly(Plan(S))
         /\ Listed(Plan(S)) = {ScheduleKey} \union {TargetKey(s) : s \in S}
                                            \union {TaskKey(s) : s \in S}
<1>1. PICK f \in [0 .. LastSeq -> Seq(Keys)] : PlanRuns(S, f)
  BY PlanByTargets
<1> DEFINE good == {n \in 0 .. LastSeq : PlanUpTo(f[n], S, n)}
<1>2. LastSeq \in Nat /\ \A s \in S : s \in 1 .. LastSeq
  BY LastSeqIsLast, SeqsAreSmall
<1>3. 0 \in good
  <2>1. f[0] = <<ScheduleKey>> /\ ScheduleKey \in Keys
    BY <1>1, KeysAreKeys DEF PlanRuns
  <2>2. Orderly(<<ScheduleKey>>) /\ Listed(<<ScheduleKey>>) = {ScheduleKey}
    BY KeyParts DEF Orderly, Listed
  <2>3. S \cap 1 .. 0 = {}
    BY SeqsAreSmall
  <2>4. PlanUpTo(f[0], S, 0)
    BY <2>1, <2>2, <2>3 DEF PlanUpTo
  <2> QED
    BY <1>2, <2>4
<1>4. ASSUME NEW n \in 1 .. LastSeq, n - 1 \in good PROVE n \in good
  <2>1. n \in Nat /\ n >= 1 /\ n \in 0 .. LastSeq /\ PlanUpTo(f[n - 1], S, n - 1)
    BY <1>2, <1>4
  <2>2. CASE n \in S
    <3>1. f[n] = f[n - 1] \o <<TargetKey(n), TaskKey(n)>>
      BY <1>1, <2>2 DEF PlanRuns
    <3>2. PlanUpTo(f[n], S, n)
      BY <2>1, <2>2, <3>1, PlanGrows
    <3> QED
      BY <2>1, <3>2
  <2>3. CASE n \notin S
    <3>1. f[n] = f[n - 1]
      BY <1>1, <2>3 DEF PlanRuns
    <3>2. \A s \in Nat : s \in 1 .. n <=> s \in 1 .. n - 1 \/ s = n
      BY <2>1
    <3>3. S \cap 1 .. n = S \cap 1 .. n - 1
      BY <2>3, <3>2, SeqsAreSmall
    <3>4. PlanUpTo(f[n], S, n)
      BY <2>1, <3>1, <3>3 DEF PlanUpTo
    <3> QED
      BY <2>1, <3>4
  <2> QED
    BY <2>2, <2>3
<1> HIDE DEF good
<1>5. 0 .. LastSeq \subseteq good
  BY <1>2, <1>3, <1>4, UpTo
<1>6. LastSeq \in good
  BY <1>2, <1>5
<1>7. PlanUpTo(Plan(S), S, LastSeq)
  BY <1>1, <1>6 DEF good, PlanRuns
<1>8. S \cap 1 .. LastSeq = S
  BY <1>2
<1> QED
  BY <1>7, <1>8 DEF PlanUpTo

-----------------------------------------------------------------------------
(* Applied and in place                                                     *)
(*                                                                          *)
(* What a pass has processed is unchanged until the pass ends, and its      *)
(* tasks are alive. Live tasks hold their target and the schedule, which    *)
(* cannot be deleted. An object that is modified behind an applied row is   *)
(* about to be recorded, or its checkpoint is lost.                         *)

\* What a step may do to the row of a key.
RowMoves(k) ==
    \/ rows'[k] = rows[k]
    \/ /\ pc = "work" /\ pc' = "create" /\ todo # <<>> /\ k = Head(todo) /\ rows[k] = NoRow
       /\ rows'[k].state = "creating" /\ rows'[k].id = NoId /\ rows'[k].content = Wanted(k)
    \/ /\ pc = "modify" /\ pc' = "idle" /\ k = Head(todo)
       /\ rows'[k].state = "error" /\ rows'[k].id = found /\ rows'[k].content = rows[k].content
    \/ /\ pc = "create" /\ pc' = "idle" /\ k = Head(todo) /\ found = NoId
       /\ rows'[k].state = "error" /\ rows'[k].id = NoId /\ rows'[k].content = Wanted(k)
    \/ /\ pc = "work" /\ pc' = "idle" /\ k = Head(todo)
       /\ rows'[k].state = "error" /\ rows'[k].id = rows[k].id /\ rows'[k].content = rows[k].content
    \/ pc = "checkpoint" /\ pc' = "work" /\ k = Head(todo) /\ rows'[k] = Checkpointed(k)
    \/ /\ pc = "delete" /\ pc' = "idle" /\ k = victim
       /\ rows'[k].state = "error" /\ rows'[k].id = found /\ rows'[k].content = rows[k].content
    \/ pc = "drop" /\ pc' = "work" /\ k = victim /\ ~Live(found) /\ rows'[k] = NoRow

LEMMA RowSteps ==
  ASSUME Typed, [Next]_vars, NEW k \in Keys
  PROVE  RowMoves(k)
<1>1. rows \in [Keys -> Row \union {NoRow}]
  BY DEF Typed, TypeOK
<1> DEFINE first == Head(todo)
<1>2. CASE QuietSteps
  BY <1>2, QuietStepsMove DEF Quiet, RowMoves
<1>3. CASE pc = "work" /\ todo # <<>> /\ Insert(first)
  <2> DEFINE row == [state |-> "creating", id |-> NoId, content |-> Wanted(first)]
  <2>1. first \in Keys /\ rows' = [rows EXCEPT ![first] = row] /\ pc' = "create" /\ rows[first] = NoRow
    BY <1>3, NextKey DEF Insert, GoTo
  <2>2. row.state = "creating" /\ row.id = NoId /\ row.content = Wanted(first)
    OBVIOUS
  <2> HIDE DEF row
  <2>3. rows'[k] = rows[k] \/ (k = first /\ rows'[k] = row)
    BY <1>1, <2>1
  <2> QED
    BY <1>3, <2>1, <2>2, <2>3 DEF RowMoves
<1>4. CASE Modify
  <2>1. pc = "modify" /\ first \in Keys
    BY <1>4, ModifyEffect
  <2>2. rows' = rows \/ (rows' = RowInError(first) /\ pc' = "idle")
    BY <1>4 DEF Modify, Fail
  <2>3. CASE rows' = RowInError(first)
    BY <1>4, <2>1, <2>2, <2>3, WrittenRows DEF RowMoves, Typed
  <2> QED
    BY <2>2, <2>3 DEF RowMoves
<1>5. CASE Create
  <2>1. pc = "create" /\ first \in Keys /\ found = NoId
    BY <1>5, CreateEffect
  <2>2. rows' = rows \/ (rows' = RowWithoutAnswer(first) /\ pc' = "idle")
    BY <1>5 DEF Create, Fail
  <2>3. CASE rows' = RowWithoutAnswer(first)
    BY <1>5, <2>1, <2>2, <2>3, WrittenRows DEF RowMoves, Typed
  <2> QED
    BY <2>2, <2>3 DEF RowMoves
<1>6. CASE Checkpoint
  <2> DEFINE row == Checkpointed(first)
  <2>1. /\ pc = "checkpoint" /\ first \in Keys /\ pc' = "work"
        /\ rows' = [rows EXCEPT ![first] = row]
    BY <1>6, CheckpointEffect DEF Checkpoint
  <2> HIDE DEF row
  <2>2. rows'[k] = rows[k] \/ (k = first /\ rows'[k] = row)
    BY <1>1, <2>1
  <2> QED
    BY <2>1, <2>2 DEF RowMoves, row
<1>7. CASE Delete
  <2>1. pc = "delete" /\ victim \in Keys
    BY <1>7, DeleteEffect
  <2>2. rows' = rows \/ (rows' = RowInError(victim) /\ pc' = "idle")
    BY <1>7 DEF Delete, Fail
  <2>3. CASE rows' = RowInError(victim)
    BY <1>7, <2>1, <2>2, <2>3, WrittenRows DEF RowMoves, Typed
  <2> QED
    BY <2>2, <2>3 DEF RowMoves
<1>8. CASE DropRow
  BY <1>8, DropEffect DEF RowMoves, OtherRowsStay
<1>9. CASE Meddle
  BY <1>9, DeadStaysDead DEF RowMoves
<1>10. CASE pc = "work" /\ todo # <<>> /\ RetentionFails(first)
  BY <1>10, RetentionEffect DEF RowMoves, OtherRowsStay
<1> QED
  BY <1>2, <1>3, <1>4, <1>5, <1>6, <1>7, <1>8, <1>9, <1>10, KindsOfSteps

Put(k) == [comment |-> k, content |-> Wanted(k)]

\* What a step of this program may do to an object, and which calls it makes.
ObjectMoves(i) ==
    \/ objects'[i] = objects[i]
    \/ /\ pc = "delete" /\ i = found /\ objects'[i] = Gone /\ ~InUse(i)
       /\ OtherRowsStay(victim)
    \/ /\ pc = "modify" /\ i = found /\ Live(i) /\ objects'[i] = Put(Head(todo))
       /\ OtherRowsStay(Head(todo))
    \/ /\ pc = "create" /\ i = created + 1 /\ objects'[i] = Put(Head(todo))
       /\ ~RefusesCreate(Wanted(Head(todo)))
       /\ OtherRowsStay(Head(todo))

LEMMA NobodyMeddled ==
  ASSUME Typed, [Next]_vars, meddling' = 0
  PROVE  meddling = 0 /\ ~Meddle
<1>1. meddling \in Nat
  BY ConstantsAssumption DEF Typed, TypeOK
<1>2. ~Meddle
  BY <1>1 DEF Meddle
<1> QED
  BY <1>2 DEF Next, Step, Begin, LoadNetworks, MarkSyncing, Apply, Release, Skip, RetentionFails, Insert, Resume,
     RecoverByMarker, CheckOwner, Modify, Create, Checkpoint, Cleanup, FindVictim, CheckVictim,
     Delete, DropRow, Finish, CallFails, Crash, Edit, SoftDelete, Outside, vars

LEMMA ObjectSteps ==
  ASSUME Typed, [Next]_vars, meddling' = 0, NEW i \in Ids
  PROVE  ObjectMoves(i)
<1>1. objects \in [Ids -> Object \union {Gone}]
  BY DEF Typed, TypeOK
<1> DEFINE first == Head(todo)
<1>2. ~Meddle
  BY NobodyMeddled
<1>3. CASE QuietSteps
  BY <1>3, QuietStepsMove DEF Quiet, ObjectMoves
<1>4. CASE pc = "work" /\ todo # <<>> /\ Insert(first)
  BY <1>4, InsertEffect DEF ObjectMoves
<1>5. CASE Modify
  <2>1. /\ pc = "modify" /\ found \in Ids /\ (UNCHANGED rows \/ OtherRowsStay(first))
        /\ \/ objects' = objects
           \/ ~RefusesModify(first, found) /\ objects' = [objects EXCEPT ![found] = Put(first)]
    BY <1>5, ModifyEffect DEF Modify, Modified, Put
  <2>2. ~RefusesModify(first, found) => Live(found)
    BY DEF RefusesModify
  <2> DEFINE new == Put(first)
  <2>3. objects' = objects \/ (Live(found) /\ objects' = [objects EXCEPT ![found] = new])
    BY <2>1, <2>2
  <2> HIDE DEF new
  <2>4. objects'[i] = objects[i] \/ (i = found /\ Live(found) /\ objects'[i] = new)
    BY <1>1, <2>1, <2>3
  <2> QED
    BY <2>1, <2>4 DEF ObjectMoves, OtherRowsStay, new
<1>6. CASE Create
  <2>1. /\ pc = "create" /\ created + 1 \in Ids /\ (UNCHANGED rows \/ OtherRowsStay(first))
        /\ \/ objects' = objects
           \/ ~RefusesCreate(Wanted(first)) /\ objects' = [objects EXCEPT ![created + 1] = Put(first)]
    BY <1>6, CreateEffect DEF Create, Created, Put
  <2> DEFINE new == Put(first)
             n == created + 1
  <2>2. n \in Ids /\ (objects' = objects \/ (~RefusesCreate(Wanted(first)) /\ objects' = [objects EXCEPT ![n] = new]))
    BY <2>1
  <2> HIDE DEF new, n
  <2>3. objects'[i] = objects[i] \/ (i = n /\ ~RefusesCreate(Wanted(first)) /\ objects'[i] = new)
    BY <1>1, <2>2
  <2> QED
    BY <2>1, <2>3 DEF ObjectMoves, OtherRowsStay, new, n
<1>7. CASE Checkpoint
  BY <1>7, CheckpointEffect DEF ObjectMoves
<1>8. CASE Delete
  <2>1. /\ pc = "delete" /\ found \in Ids /\ (UNCHANGED rows \/ OtherRowsStay(victim))
        /\ \/ objects' = objects
           \/ ~InUse(found) /\ objects' = [objects EXCEPT ![found] = Gone]
    BY <1>8, DeleteEffect DEF Delete, RefusesDelete
  <2>2. objects'[i] = objects[i] \/ (i = found /\ ~InUse(found) /\ objects'[i] = Gone)
    BY <1>1, <2>1
  <2> QED
    BY <2>1, <2>2 DEF ObjectMoves, OtherRowsStay
<1>9. CASE DropRow
  BY <1>9, DropEffect DEF ObjectMoves
<1>10. CASE pc = "work" /\ todo # <<>> /\ RetentionFails(first)
  BY <1>10, RetentionEffect DEF ObjectMoves
<1> QED
  BY <1>2, <1>3, <1>4, <1>5, <1>6, <1>7, <1>8, <1>9, <1>10, KindsOfSteps

\* Nothing but the two queries changes what a pass wants.
LEMMA WantSteps ==
  ASSUME Typed, [Next]_vars
  PROVE  \/ Begin
         \/ LoadNetworks
         \/ /\ want' = want
            /\ \/ pc' \in {pc, "idle"}
               \/ pc \notin {"idle", "networks"} /\ pc' \notin {"idle", "networks"}
<1>1. CASE MarkSyncing \/ Finish \/ CallFails \/ Crash \/ Edit \/ SoftDelete \/ UNCHANGED vars \/ Meddle
  BY <1>1 DEF MarkSyncing, Finish, CallFails, Fail, Crash, Edit, SoftDelete, vars, pass, Meddle
<1>2. CASE Apply
  BY <1>2 DEF Apply, Release, Skip, RetentionFails, Insert, Resume, GoTo, Fail
<1>3. CASE RecoverByMarker
  BY <1>3 DEF RecoverByMarker, Recover, GoTo, Fail
<1>4. CASE CheckOwner \/ CheckVictim
  BY <1>4 DEF CheckOwner, CheckVictim, GoTo, Fail
<1>5. CASE Modify \/ Create \/ Delete
  BY <1>5 DEF Modify, Create, Delete, GoTo, Fail
<1>6. CASE Checkpoint \/ DropRow
  BY <1>6 DEF Checkpoint, DropRow, GoTo
<1>7. CASE Cleanup \/ FindVictim
  BY <1>7 DEF Cleanup, FindVictim, GoTo, Fail
<1> QED
  BY <1>1, <1>2, <1>3, <1>4, <1>5, <1>6, <1>7 DEF Next, Step

\* What a pass has been through: it is not on the list any more.
Underway == pc \notin {"idle", "networks", "begin"}

Processed(k) == Unchanged(k) /\ (meddling = 0 /\ k[1] = "task" => Live(rows[k].id))

\* What is being removed is surplus, or the task of what comes next.
RemovesAhead ==
    pc \in Removing =>
        IF todo = <<>> THEN victim \notin KeysOf(want)
        ELSE Head(todo)[1] # "schedule" /\ victim = TaskKey(Head(todo)[2])

ProcessedInv ==
    Underway =>
        /\ Orderly(todo)
        /\ Listed(todo) \subseteq KeysOf(want)
        /\ ScheduleKey \in Listed(todo) => KeysOf(want) \subseteq Listed(todo)
        /\ RemovesAhead
        /\ pc = "finish" => todo = <<>>
        /\ \A k \in KeysOf(want) \ Listed(todo) : Processed(k)

LEMMA WantedKeys ==
  ASSUME Typed
  PROVE  /\ KeysOf(want) \subseteq Keys
         /\ \A k \in KeysOf(want) :
               k[1] = "task" => ScheduleKey \in KeysOf(want) /\ TargetKey(k[2]) \in KeysOf(want)
<1>1. want.seqs \subseteq Seqs
  BY DEF Typed, TypeOK, Loaded
<1> QED
  BY <1>1, KeysAreKeys, KeyParts DEF KeysOf

\* How a pass goes on.
LEMMA UnderwaySteps ==
  ASSUME Typed, [Next]_vars, Underway'
  PROVE  \/ MarkSyncing
         \/ /\ Underway /\ want' = want
            /\ \/ /\ rows' = rows /\ todo' = todo
                  /\ pc' \in Removing =>
                       \/ pc \in Removing /\ victim' = victim
                       \/ /\ todo # <<>> /\ Head(todo)[1] # "schedule"
                          /\ victim' = TaskKey(Head(todo)[2])
                       \/ todo = <<>> /\ victim' \notin KeysOf(want)
                  /\ pc' = "finish" => pc = "finish" \/ todo = <<>>
               \/ /\ pc = "work" /\ todo # <<>> /\ Skip(Head(todo))
                  /\ todo' = Tail(todo) /\ pc' = pc
               \/ pc = "work" /\ todo # <<>> /\ Insert(Head(todo))
               \/ Checkpoint
               \/ DropRow
<1> USE DEF Underway, Removing
<1>1. CASE MarkSyncing \/ Finish \/ CallFails \/ Crash \/ Begin \/ LoadNetworks
  BY <1>1 DEF Finish, CallFails, Fail, Crash, Begin, LoadNetworks
<1>2. CASE Edit \/ SoftDelete \/ UNCHANGED vars \/ Meddle
  BY <1>2 DEF Edit, SoftDelete, vars, pass, Meddle
<1>3. CASE Apply
  <2> DEFINE k == Head(todo)
  <2>1. pc = "work" /\ todo # <<>>
    BY <1>3 DEF Apply
  <2>2. CASE Release(k)
    BY <2>1, <2>2 DEF Release, ReleasesTask
  <2>3. CASE Skip(k)
    BY <2>1, <2>3 DEF Skip, Fail
  <2>4. CASE Insert(k)
    BY <2>1, <2>4 DEF Insert, GoTo
  <2>5. CASE Resume(k)
    BY <2>1, <2>5 DEF Resume, GoTo
  <2>6. CASE RetentionFails(k)
    BY <2>6 DEF RetentionFails, Fail
  <2> QED
    BY <1>3, <2>2, <2>3, <2>4, <2>5, <2>6 DEF Apply
<1>4. CASE RecoverByMarker \/ CheckOwner
  BY <1>4 DEF RecoverByMarker, Recover, CheckOwner, GoTo, Fail
<1>5. CASE Modify \/ Create \/ Delete
  BY <1>5 DEF Modify, Create, Delete, GoTo, Fail
<1>6. CASE Checkpoint \/ DropRow
  BY <1>6 DEF Checkpoint, DropRow, GoTo
<1>7. CASE Cleanup
  <2>1. pc = "work" /\ todo = <<>> /\ rows' = rows /\ todo' = todo /\ want' = want
    BY <1>7 DEF Cleanup, GoTo
  <2>2. CASE Surplus = {}
    BY <1>7, <2>1, <2>2 DEF Cleanup, GoTo
  <2>3. CASE Surplus # {}
    <3>1. \E k \in Surplus : \A l \in Surplus : Before(k, l)
      BY <2>3, SomeKeyGoesFirst DEF Surplus
    <3>2. victim' \in Surplus
      BY <1>7, <2>3, <3>1 DEF Cleanup
    <3> QED
      BY <2>1, <3>2 DEF Surplus
  <2> QED
    BY <2>2, <2>3
<1>8. CASE FindVictim \/ CheckVictim
  BY <1>8 DEF FindVictim, CheckVictim, GoTo, Fail
<1> QED
  BY <1>1, <1>2, <1>3, <1>4, <1>5, <1>6, <1>7, <1>8 DEF Next, Step

\* A change to the row of a key on the list, or of none of the definition, leaves
\* what is processed unchanged.
LEMMA ProcessedStay ==
  ASSUME Typed, ProcessedInv, Underway, want' = want, NEW x,
         OtherRowsStay(x), x \in Listed(todo) \/ x \notin KeysOf(want),
         NEW k \in KeysOf(want) \ Listed(todo)
  PROVE  Unchanged(k)' /\ rows'[k] = rows[k]
<1>1. k \in Keys /\ k # x
  BY WantedKeys
<1>2. Unchanged(k) /\ rows'[k] = rows[k]
  BY <1>1 DEF ProcessedInv, Processed, OtherRowsStay
<1>3. ASSUME k[1] = "task"
      PROVE  rows'[TargetKey(k[2])] = rows[TargetKey(k[2])] /\ rows'[ScheduleKey] = rows[ScheduleKey]
  <2>1. /\ ScheduleKey \in KeysOf(want) /\ TargetKey(k[2]) \in KeysOf(want)
        /\ ScheduleKey \in Keys /\ TargetKey(k[2]) \in Keys
    BY <1>3, WantedKeys
  <2>2. x # ScheduleKey
    BY <2>1 DEF ProcessedInv
  <2>3. x # TargetKey(k[2])
    <3>1. ASSUME TargetKey(k[2]) \in Listed(todo) PROVE FALSE
      <4>1. PICK i \in DOMAIN todo : todo[i] = TargetKey(k[2])
        BY <3>1 DEF Listed
      <4>2. i + 1 \in DOMAIN todo /\ todo[i + 1] = TaskKey(k[2])
        BY <4>1, KeyParts DEF ProcessedInv, Orderly
      <4>3. k = TaskKey(k[2])
        BY <1>1, <1>3, KeysByKind
      <4> QED
        BY <4>2, <4>3 DEF Listed
    <3> QED
      BY <2>1, <3>1
  <2> QED
    BY <2>1, <2>2, <2>3 DEF OtherRowsStay
<1>4. Wanted(k)' = Wanted(k)
  <2>1. k[1] \in {"schedule", "target", "task"}
    BY <1>1, KeysByKind
  <2> QED
    BY <1>3, <2>1 DEF Wanted, ContentOf
<1> QED
  BY <1>2, <1>4 DEF Unchanged

\* The object of an applied row was modified, and that is about to be recorded.
Behind(k) == pc = "checkpoint" /\ k = Head(todo) /\ found = rows[k].id

\* As long as nobody else changes objects: everything alive is marked, an applied
\* row says what its object is unless it is behind it, and what a pass is about to
\* record is there.
AliveInv ==
    meddling = 0 =>
        /\ \A i \in Ids : Live(i) => objects[i].comment # Unmarked
        /\ \A k \in Keys :
              rows[k].state = "applied" /\ Live(rows[k].id) =>
                  \/ objects[rows[k].id].content = rows[k].content
                  \/ rows[k].id \in unrecorded
                  \/ Behind(k)
        /\ pc \in {"modify", "checkpoint"} => Live(found) /\ objects[found].comment = Head(todo)
        /\ pc = "checkpoint" => objects[found].content = Wanted(Head(todo))

\* Only what is not processed is deleted.
LEMMA ProcessedStayAlive ==
  ASSUME Typed, MarkersInv, ProcessedInv, Underway, [Next]_vars, meddling' = 0,
         NEW k \in KeysOf(want) \ Listed(todo), Live(rows[k].id)
  PROVE  Live(rows[k].id)'  \/ rows'[k] # rows[k]
<1> SUFFICES ASSUME rows'[k] = rows[k] PROVE Live(rows[k].id)'
  OBVIOUS
<1> DEFINE i == rows[k].id
<1>1. k \in Keys /\ i \in Ids /\ i # NoId /\ objects[i] # Gone
  BY WantedKeys, RowTypes DEF Typed, TypeOK, Live
<1>2. ObjectMoves(i)
  BY <1>1, ObjectSteps
<1>3. CASE objects'[i] = objects[i]
  BY <1>1, <1>3 DEF Live
<1>4. ASSUME objects'[i] = Put(Head(todo)), pc \in {"modify", "create"} PROVE objects'[i] # Gone
  <2>1. Head(todo) \in Keys
    BY <1>4, NextKey DEF Typed, PassInv, Applying
  <2> QED
    BY <1>4, <2>1, KeysAreKeys DEF Put, Gone
<1>5. ~(pc = "delete" /\ i = found)
  <2> SUFFICES ASSUME pc = "delete", i = found PROVE FALSE
    OBVIOUS
  <2>1. Holds(victim, i) /\ Holds(k, i) /\ victim \in Keys
    BY DEF Holds, Works, Removing, Typed, TypeOK
  <2>2. victim = k
    BY <1>1, <2>1 DEF MarkersInv
  <2>3. todo # <<>> /\ Head(todo)[1] # "schedule" /\ k = TaskKey(Head(todo)[2])
    BY <2>2 DEF ProcessedInv, RemovesAhead, Removing
  <2>4. Head(todo) \in Listed(todo)
    BY <2>3, TailIsOrderly DEF ProcessedInv, Typed, TypeOK
  <2>5. Head(todo) \in Keys
    BY <2>3, NextKey
  <2>6. Head(todo)[1] = "task" => Head(todo) = k
    BY <2>3, <2>5, KeysByKind
  <2>7. Head(todo)[1] = "target" => k \in Listed(todo)
    BY <2>3, TailIsOrderly DEF ProcessedInv, Typed, TypeOK
  <2> QED
    BY <2>3, <2>4, <2>5, <2>6, <2>7, KeysByKind
<1> QED
  BY <1>1, <1>2, <1>3, <1>4, <1>5 DEF ObjectMoves, Live

LEMMA ProcessedStep ==
  ASSUME Typed, MarkersInv, AliveInv, ProcessedInv, [Next]_vars
  PROVE  ProcessedInv'
<1> SUFFICES ASSUME Underway'
             PROVE  /\ Orderly(todo')
                    /\ Listed(todo') \subseteq KeysOf(want')
                    /\ ScheduleKey \in Listed(todo') => KeysOf(want') \subseteq Listed(todo')
                    /\ RemovesAhead' /\ (pc' = "finish" => todo' = <<>>)
                    /\ \A k \in KeysOf(want') \ Listed(todo') : Processed(k)'
  BY DEF ProcessedInv
<1>1. CASE MarkSyncing
  <2>1. /\ want' = want /\ pc' = "work" /\ want.seqs \in SUBSET Seqs
        /\ todo' = IF want.deleted THEN <<>> ELSE Plan(want.seqs)
    BY <1>1 DEF MarkSyncing, Typed, TypeOK, Loaded
  <2>2. Orderly(<<>>) /\ Listed(<<>>) = {}
    BY DEF Orderly, Listed
  <2>3. Orderly(todo') /\ Listed(todo') = KeysOf(want)
    <3>1. CASE want.deleted
      BY <2>1, <2>2, <3>1 DEF KeysOf
    <3>2. CASE ~want.deleted
      BY <2>1, <3>2, PlanIsOrderly DEF KeysOf
    <3> QED
      BY <3>1, <3>2
  <2> QED
    BY <2>1, <2>3 DEF RemovesAhead, Removing
<1> SUFFICES ASSUME Underway, want' = want
             PROVE  /\ Orderly(todo')
                    /\ Listed(todo') \subseteq KeysOf(want)
                    /\ ScheduleKey \in Listed(todo') => KeysOf(want) \subseteq Listed(todo')
                    /\ RemovesAhead' /\ (pc' = "finish" => todo' = <<>>)
                    /\ \A k \in KeysOf(want) \ Listed(todo') : Processed(k)'
  BY <1>1, UnderwaySteps
<1> DEFINE first == Head(todo)
<1>2. /\ Orderly(todo) /\ Listed(todo) \subseteq KeysOf(want) /\ RemovesAhead
      /\ pc = "finish" => todo = <<>>
      /\ ScheduleKey \in Listed(todo) => KeysOf(want) \subseteq Listed(todo)
      /\ \A k \in KeysOf(want) \ Listed(todo) : Processed(k)
      /\ KeysOf(want) \subseteq Keys
      /\ todo \in Seq(Keys)
  BY WantedKeys DEF ProcessedInv, Typed, TypeOK
<1>3. todo # <<>> =>
         /\ Orderly(Tail(todo))
         /\ Listed(todo) = {first} \union Listed(Tail(todo))
         /\ ScheduleKey \notin Listed(Tail(todo)) /\ first \notin Listed(Tail(todo))
         /\ first[1] = "target" => TaskKey(first[2]) \in Listed(Tail(todo))
  BY <1>2, TailIsOrderly
\* A change to one row.
<1>4. ASSUME NEW x, OtherRowsStay(x), x \in Listed(todo) \/ x \notin KeysOf(want),
             NEW k \in KeysOf(want) \ Listed(todo)
      PROVE  Processed(k)'
  <2>1. Unchanged(k)' /\ rows'[k] = rows[k]
    BY <1>4, ProcessedStay
  <2>2. ASSUME meddling' = 0, k[1] = "task" PROVE Live(rows[k].id)'
    <3>1. Live(rows[k].id)
      BY <1>2, <2>2, NobodyMeddled DEF Processed
    <3> QED
      BY <2>1, <2>2, <3>1, ProcessedStayAlive
  <2> QED
    BY <2>1, <2>2 DEF Processed
<1>5. ASSUME rows' = rows, NEW k \in KeysOf(want) \ Listed(todo) PROVE Processed(k)'
  <2>1. OtherRowsStay(Unmarked) /\ Unmarked \notin KeysOf(want)
    BY <1>2, <1>5, KeysAreKeys DEF OtherRowsStay
  <2> QED
    BY <1>4, <2>1
<1>6. CASE /\ rows' = rows /\ todo' = todo
           /\ pc' \in Removing =>
                \/ pc \in Removing /\ victim' = victim
                \/ /\ todo # <<>> /\ first[1] # "schedule"
                   /\ victim' = TaskKey(first[2])
                \/ todo = <<>> /\ victim' \notin KeysOf(want)
           /\ pc' = "finish" => pc = "finish" \/ todo = <<>>
  BY <1>2, <1>5, <1>6 DEF RemovesAhead
\* The head of the list is done.
<1>7. ASSUME NEW x, x = first, todo # <<>>, todo' = Tail(todo), pc' = "work", Processed(x)',
             \A k \in KeysOf(want) \ Listed(todo) : Processed(k)'
      PROVE  /\ Orderly(todo')
             /\ Listed(todo') \subseteq KeysOf(want)
             /\ ScheduleKey \in Listed(todo') => KeysOf(want) \subseteq Listed(todo')
             /\ RemovesAhead' /\ (pc' = "finish" => todo' = <<>>)
             /\ \A k \in KeysOf(want) \ Listed(todo') : Processed(k)'
  <2>1. \A k \in KeysOf(want) \ Listed(Tail(todo)) : k = x \/ k \notin Listed(todo)
    BY <1>3, <1>7
  <2>2. \A k \in KeysOf(want) \ Listed(Tail(todo)) : Processed(k)'
    BY <1>7, <2>1
  <2> QED
    BY <1>2, <1>3, <1>7, <2>2 DEF RemovesAhead, Removing
<1>8. CASE pc = "work" /\ todo # <<>> /\ Skip(first) /\ todo' = Tail(todo) /\ pc' = pc
  <2>1. PICK x : x = first
    OBVIOUS
  <2>2. /\ Unchanged(x) /\ UNCHANGED <<rows, objects>>
        /\ x[1] = "task" => Live(rows[x].id)
    BY <1>8, <2>1, HeadTailProperties, <1>2 DEF Skip, Fail
  <2>3. Processed(x)'
    <3>1. Wanted(x)' = Wanted(x)
      BY <2>2 DEF Wanted, ContentOf
    <3>2. Unchanged(x)'
      BY <2>2, <3>1 DEF Unchanged
    <3> QED
      BY <2>2, <3>2 DEF Processed, Live
  <2> QED
    BY <1>5, <1>7, <1>8, <2>1, <2>2, <2>3
<1>9. CASE pc = "work" /\ todo # <<>> /\ Insert(first)
  <2>1. OtherRowsStay(first) /\ todo' = todo /\ pc' = "create" /\ first \in Listed(todo)
    BY <1>3, <1>9, InsertEffect
  <2> QED
    BY <1>2, <1>4, <2>1 DEF RemovesAhead, Removing
<1>10. CASE Checkpoint
  <2>1. PICK x \in Keys : x = first
    BY <1>10, CheckpointEffect
  <2>2. /\ pc = "checkpoint" /\ pc' = "work" /\ todo # <<>>
        /\ OtherRowsStay(x) /\ UNCHANGED objects /\ todo' = Tail(todo)
        /\ found \in Ids /\ found # NoId
        /\ rows' = [rows EXCEPT ![x] = Checkpointed(x)]
    BY <1>10, <2>1, CheckpointEffect, Numbers DEF Checkpoint, Typed, PassInv, Applying
  <2>3. /\ rows'[x].state = "applied" /\ rows'[x].id = found
        /\ rows'[x].content = Wanted(x)
    BY <2>2 DEF Typed, TypeOK, Checkpointed
  <2>4. Wanted(x)' = Wanted(x)
    <3>1. x[1] \in {"schedule", "target", "task"}
      BY KeysByKind
    <3>2. x[1] = "task" =>
             /\ rows'[TargetKey(x[2])] = rows[TargetKey(x[2])]
             /\ rows'[ScheduleKey] = rows[ScheduleKey]
      BY <2>2, KeysByKind, KeysAreKeys, KeyParts DEF OtherRowsStay
    <3> QED
      BY <3>1, <3>2 DEF Wanted, ContentOf
  <2>5. Processed(x)'
    <3>1. Unchanged(x)'
      BY <2>2, <2>3, <2>4 DEF Unchanged
    <3>2. meddling' = 0 => Live(found)
      BY <2>2, NobodyMeddled DEF AliveInv
    <3>3. meddling' = 0 => Live(rows[x].id)'
      BY <2>2, <2>3, <3>2 DEF Live
    <3> QED
      BY <3>1, <3>3 DEF Processed
  <2>6. \A k \in KeysOf(want) \ Listed(todo) : Processed(k)'
    BY <1>3, <1>4, <2>1, <2>2
  <2> QED
    BY <1>7, <2>1, <2>2, <2>5, <2>6
<1>11. CASE DropRow
  <2>1. pc = "drop" /\ pc' = "work" /\ OtherRowsStay(victim) /\ todo' = todo /\ victim \in Keys
    BY <1>11, DropEffect
  <2>2. victim \in Listed(todo) \/ victim \notin KeysOf(want)
    <3>1. CASE todo = <<>>
      BY <1>2, <2>1, <3>1 DEF RemovesAhead, Removing
    <3>2. CASE todo # <<>>
      <4>1. first[1] # "schedule" /\ victim = TaskKey(first[2]) /\ first \in Keys
        BY <1>2, <2>1, <3>2, NextKey DEF RemovesAhead, Removing
      <4>2. first[1] = "task" => victim = first
        BY <4>1, KeysByKind
      <4>3. first[1] \in {"target", "task"}
        BY <4>1, KeysByKind
      <4> QED
        BY <1>3, <3>2, <4>1, <4>2, <4>3
    <3> QED
      BY <3>1, <3>2
  <2> QED
    BY <1>2, <1>4, <2>1, <2>2 DEF RemovesAhead, Removing
<1> QED
  BY <1>1, <1>6, <1>8, <1>9, <1>10, <1>11, UnderwaySteps

\* While nobody meddles, every live task names the target and the schedule of its
\* rows, and both are alive.
Uses(s, i) ==
    /\ objects[i].content.target = rows[TargetKey(s)].id
    /\ objects[i].content.schedule = rows[ScheduleKey].id
    /\ Live(rows[TargetKey(s)].id) /\ Live(rows[ScheduleKey].id)

UsesInv ==
    meddling = 0 =>
        \A s \in Seqs, i \in Ids : Live(i) /\ objects[i].comment = TaskKey(s) => Uses(s, i)

\* What is written is alive.
LEMMA PutIsAlive ==
  ASSUME Typed, pc \in Applying
  PROVE  Put(Head(todo)) # Gone /\ Head(todo) \in Keys /\ Put(Head(todo)).comment # Unmarked
<1>1. Head(todo) \in Keys
  BY NextKey DEF Typed, PassInv
<1> QED
  BY <1>1, KeysAreKeys DEF Put, Gone

\* Only what no task uses is deleted.
LEMMA UsedStays ==
  ASSUME Typed, [Next]_vars, meddling' = 0, NEW i, i \in Ids \union {NoId}, Live(i), pc # "delete" \/ InUse(i)
  PROVE  Live(i)'
<1>1. i \in Ids /\ i # NoId
  BY Numbers DEF Live
<1>2. ObjectMoves(i)
  BY <1>1, ObjectSteps
<1> QED
  BY <1>1, <1>2, PutIsAlive DEF ObjectMoves, Live, Applying

\* A row keeps the id of an object as long as it lives.
LEMMA LiveIdsStay ==
  ASSUME Typed, HeldInv, [Next]_vars, NEW k \in Keys, Live(rows[k].id)
  PROVE  rows'[k].id = rows[k].id
<1>1. RowMoves(k)
  BY RowSteps
<1>2. Works(k) => rows[k].id = found
  BY DEF HeldInv
<1>3. rows[k].id # NoId /\ rows[k] # NoRow
  BY NoRowTypes DEF Live
<1> QED
  BY <1>1, <1>2, <1>3 DEF RowMoves, Works, Applying, Removing, Checkpointed

\* What the next task needs is there when the scanner does not refuse it.
LEMMA TaskFindsItsOwn ==
  ASSUME Typed, ProcessedInv, pc = "create", NEW s \in Seqs, Head(todo) = TaskKey(s),
         ~RefusesCreate(Wanted(Head(todo)))
  PROVE  Live(rows[TargetKey(s)].id) /\ Live(rows[ScheduleKey].id)
<1>1. todo # <<>> /\ todo \in Seq(Keys) /\ Underway
  BY DEF Typed, TypeOK, PassInv, Applying, Underway
<1>2. /\ TaskKey(s) \in Listed(todo)
      /\ TargetKey(s) \notin Listed(todo) /\ ScheduleKey \notin Listed(todo)
  BY <1>1, TailIsOrderly, KeyParts DEF ProcessedInv
<1>3. TargetKey(s) \in KeysOf(want) /\ ScheduleKey \in KeysOf(want)
  BY <1>1, <1>2, WantedKeys, KeyParts DEF ProcessedInv
<1>4. rows[TargetKey(s)].id # NoId /\ rows[ScheduleKey].id # NoId
  BY <1>1, <1>2, <1>3 DEF ProcessedInv, Processed, Unchanged
<1>5. /\ Wanted(TaskKey(s)).target = rows[TargetKey(s)].id
      /\ Wanted(TaskKey(s)).schedule = rows[ScheduleKey].id
  BY KeyParts DEF Wanted, ContentOf
<1> QED
  BY <1>4, <1>5 DEF RefusesCreate

LEMMA UsesStep ==
  ASSUME Typed, HeldInv, ProcessedInv, AliveInv, UsesInv, [Next]_vars
  PROVE  UsesInv'
<1> SUFFICES ASSUME meddling' = 0, NEW s \in Seqs, NEW i \in Ids,
                    Live(i)', objects'[i].comment = TaskKey(s)
             PROVE  Uses(s, i)'
  BY DEF UsesInv
<1> DEFINE target == rows[TargetKey(s)].id
           sched == rows[ScheduleKey].id
<1>1. /\ TargetKey(s) \in Keys /\ ScheduleKey \in Keys /\ meddling = 0
      /\ target \in Ids \union {NoId} /\ sched \in Ids \union {NoId}
  BY KeysAreKeys, RowTypes, NobodyMeddled DEF Typed, TypeOK
<1>2. ASSUME Live(target), Live(sched), pc # "delete" \/ (InUse(target) /\ InUse(sched)),
             objects'[i].content.target = target, objects'[i].content.schedule = sched
      PROVE  Uses(s, i)'
  <2>1. rows'[TargetKey(s)].id = target /\ rows'[ScheduleKey].id = sched
    BY <1>1, <1>2, LiveIdsStay
  <2>2. Live(target)' /\ Live(sched)'
    <3> DEFINE alive(x) == x # NoId /\ objects'[x] # Gone
    <3>1. \A x : x \in Ids \union {NoId} /\ Live(x) /\ (pc # "delete" \/ InUse(x)) => alive(x)
      BY UsedStays DEF Live
    <3>2. alive(target) /\ alive(sched)
      BY <1>1, <1>2, <3>1
    <3> QED
      BY <2>1, <3>2 DEF Live
  <2> QED
    BY <1>2, <2>1, <2>2 DEF Uses
<1>3. ASSUME Live(i), objects[i].comment = TaskKey(s)
      PROVE  /\ Live(target) /\ Live(sched) /\ InUse(target) /\ InUse(sched)
             /\ objects[i].content.target = target /\ objects[i].content.schedule = sched
  <2>1. Uses(s, i)
    BY <1>1, <1>3 DEF UsesInv
  <2> QED
    BY <1>3, <2>1 DEF Uses, InUse
<1>4. pc \in {"modify", "create"} /\ objects'[i] = Put(Head(todo)) =>
         /\ Head(todo) = TaskKey(s)
         /\ objects'[i].content.target = target /\ objects'[i].content.schedule = sched
  BY KeyParts DEF Put, Wanted, ContentOf
<1>5. CASE objects'[i] = objects[i]
  BY <1>2, <1>3, <1>5 DEF Live
<1>6. CASE pc = "modify" /\ i = found /\ objects'[i] = Put(Head(todo))
  <2>1. Live(i) /\ objects[i].comment = TaskKey(s)
    BY <1>1, <1>4, <1>6 DEF AliveInv
  <2> QED
    BY <1>2, <1>3, <1>4, <1>6, <2>1
<1>7. CASE /\ pc = "create" /\ objects'[i] = Put(Head(todo))
           /\ ~RefusesCreate(Wanted(Head(todo)))
  <2>1. Live(target) /\ Live(sched)
    BY <1>4, <1>7, TaskFindsItsOwn
  <2> QED
    BY <1>2, <1>4, <1>7, <2>1
<1>8. objects'[i] # Gone
  BY DEF Live
<1> QED
  BY <1>5, <1>6, <1>7, <1>8, ObjectSteps DEF ObjectMoves

\* How a pass comes to write what it found, and to record what it wrote.
LEMMA RecordingSteps ==
  ASSUME Typed, [Next]_vars, meddling' = 0, pc' \in {"modify", "checkpoint"}
  PROVE  /\ todo' = todo /\ want' = want /\ todo # <<>> /\ rows' = rows
         /\ \/ pc' = pc /\ found' = found /\ objects' = objects
            \/ /\ pc = "own" /\ pc' = "modify" /\ found' = found /\ objects' = objects
               /\ Live(found) /\ Owned(Head(todo), found)
            \/ /\ pc' = "checkpoint" /\ pc \in {"modify", "create"}
               /\ objects'[found'] = Put(Head(todo)) /\ found' \in Ids
<1>1. ~Meddle
  BY NobodyMeddled
<1>2. pc \in Applying => todo # <<>>
  BY DEF Typed, PassInv
<1>3. CASE MarkSyncing \/ Finish \/ CallFails \/ Crash \/ Begin \/ LoadNetworks
  BY <1>3 DEF MarkSyncing, Finish, CallFails, Fail, Crash, Begin, LoadNetworks
<1>4. CASE Edit \/ SoftDelete \/ UNCHANGED vars
  BY <1>2, <1>4 DEF Edit, SoftDelete, vars, pass, Applying
<1>5. CASE Apply
  BY <1>5 DEF Apply, Release, Skip, RetentionFails, Insert, Resume, GoTo, Fail
<1>6. CASE RecoverByMarker \/ CheckVictim \/ FindVictim \/ Cleanup
  BY <1>6 DEF RecoverByMarker, Recover, CheckVictim, FindVictim, Cleanup, GoTo, Fail
<1>7. CASE CheckOwner
  BY <1>2, <1>7 DEF CheckOwner, GoTo, Fail, Applying
<1>8. CASE Checkpoint \/ DropRow \/ Delete
  BY <1>8 DEF Checkpoint, DropRow, Delete, GoTo, Fail
<1> DEFINE new == Put(Head(todo))
<1>9. objects \in [Ids -> Object \union {Gone}]
  BY DEF Typed, TypeOK
<1>10. CASE Modify
  <2>1. /\ pc = "modify" /\ pc' = "checkpoint" /\ found \in Ids
        /\ todo' = todo /\ want' = want /\ rows' = rows /\ found' = found
        /\ objects' = [objects EXCEPT ![found] = new]
    BY <1>10, ModifyEffect DEF Modify, Modified, Put, GoTo, Fail
  <2> HIDE DEF new
  <2>2. objects'[found] = new
    BY <1>9, <2>1
  <2> QED
    BY <1>2, <2>1, <2>2 DEF Applying, new
<1>11. CASE Create
  <2>1. /\ pc = "create" /\ pc' = "checkpoint" /\ created + 1 \in Ids
        /\ todo' = todo /\ want' = want /\ rows' = rows /\ found' = created + 1
        /\ objects' = [objects EXCEPT ![created + 1] = new]
    BY <1>11, CreateEffect DEF Create, Created, Put, GoTo, Fail
  <2> HIDE DEF new
  <2>2. objects'[found'] = new
    BY <1>9, <2>1
  <2> QED
    BY <1>2, <2>1, <2>2 DEF Applying, new
<1> QED
  BY <1>1, <1>3, <1>4, <1>5, <1>6, <1>7, <1>8, <1>10, <1>11 DEF Next, Step

\* Only a checkpoint makes good for a lost one, and a checkpoint is either made,
\* lost or still to be made.
LEMMA UnrecordedSteps ==
  ASSUME [Next]_vars
  PROVE  \/ Checkpoint
         \/ /\ unrecorded \subseteq unrecorded'
            /\ pc = "checkpoint" => UNCHANGED <<pc, todo, found>> \/ LosesCheckpoint
<1>1. CASE MarkSyncing \/ Begin \/ LoadNetworks \/ Finish \/ RecoverByMarker \/ CheckOwner \/ Cleanup
  BY <1>1 DEF MarkSyncing, Begin, LoadNetworks, Finish, RecoverByMarker, CheckOwner, Cleanup, Outside
<1>2. CASE Edit \/ SoftDelete \/ UNCHANGED vars \/ Meddle
  BY <1>2 DEF Edit, SoftDelete, vars, pass, ghosts, Meddle
<1>3. CASE Apply
  BY <1>3 DEF Apply, Release, Skip, RetentionFails, Insert, Resume, Outside
<1>4. CASE Modify \/ Create \/ Delete \/ DropRow \/ FindVictim \/ CheckVictim
  BY <1>4 DEF Modify, Create, Delete, DropRow, FindVictim, CheckVictim, Outside
<1>5. CASE CallFails \/ Crash
  BY <1>5 DEF CallFails, Crash, LosesCheckpoint
<1> QED
  BY <1>1, <1>2, <1>3, <1>4, <1>5 DEF Next, Step

LEMMA ModifiesObjects ==
  ASSUME Typed, [Next]_vars, meddling' = 0, pc = "modify", objects' # objects
  PROVE  Modify
<1>1. ~Meddle
  BY NobodyMeddled
<1>2. ~QuietSteps
  BY QuietStepsMove DEF Quiet
<1> QED
  BY <1>1, <1>2, KindsOfSteps DEF Create, Checkpoint, Delete, DropRow

LEMMA AliveStep ==
  ASSUME UniqueMarkers, Typed, NumberedInv, MarkersInv, AliveInv, [Next]_vars
  PROVE  AliveInv'
<1> SUFFICES ASSUME meddling' = 0
             PROVE  /\ \A i \in Ids : Live(i)' => objects'[i].comment # Unmarked
                    /\ \A k \in Keys :
                          rows'[k].state = "applied" /\ Live(rows[k].id)' =>
                              \/ objects'[rows'[k].id].content = rows'[k].content
                              \/ rows'[k].id \in unrecorded'
                              \/ Behind(k)'
                    /\ pc' \in {"modify", "checkpoint"} =>
                          Live(found)' /\ objects'[found'].comment = Head(todo')
                    /\ pc' = "checkpoint" => objects'[found'].content = Wanted(Head(todo))'
  BY DEF AliveInv
<1>1. /\ \A i \in Ids : Live(i) => objects[i].comment # Unmarked
      /\ \A k \in Keys :
            rows[k].state = "applied" /\ Live(rows[k].id) =>
                \/ objects[rows[k].id].content = rows[k].content
                \/ rows[k].id \in unrecorded
                \/ Behind(k)
      /\ pc \in {"modify", "checkpoint"} => Live(found) /\ objects[found].comment = Head(todo)
      /\ pc = "checkpoint" => objects[found].content = Wanted(Head(todo))
  BY NobodyMeddled DEF AliveInv
<1>2. ASSUME NEW i \in Ids, Live(i)' PROVE objects'[i].comment # Unmarked
  <2>1. ObjectMoves(i) /\ objects'[i] # Gone
    BY <1>2, ObjectSteps DEF Live
  <2> QED
    BY <1>1, <1>2, <2>1, PutIsAlive DEF ObjectMoves, Live, Applying
<1>3. ASSUME NEW k \in Keys, rows'[k].state = "applied", Live(rows[k].id)'
      PROVE  \/ objects'[rows'[k].id].content = rows'[k].content
             \/ rows'[k].id \in unrecorded'
             \/ Behind(k)'
  <2> DEFINE i == rows'[k].id
  <2>1. i # NoId /\ objects'[i] # Gone
    BY <1>3 DEF Live
  <2>2. i \in Ids
    <3>1. rows' \in [Keys -> Row \union {NoRow}]
      BY StepIsTyped DEF Typed, TypeOK
    <3>2. i \in Ids \union {NoId}
      BY <3>1, NoRowTypes DEF Row
    <3> QED
      BY <2>1, <3>2
  <2>3. ObjectMoves(i)
    BY <2>2, ObjectSteps
  <2>4. CASE rows'[k] = rows[k]
    <3>1. rows[k].state = "applied" /\ rows[k].id = i /\ i <= created
      BY <1>3, <2>4 DEF NumberedInv
    <3>2. CASE objects'[i] = objects[i]
      <4>1. Live(i)
        BY <2>1, <3>2 DEF Live
      <4>2. CASE objects[i].content = rows[k].content
        BY <2>4, <3>2, <4>2
      <4>3. CASE Checkpoint /\ found = i
        <5>1. pc = "checkpoint" /\ Holds(Head(todo), i) /\ Holds(k, i) /\ Head(todo) \in Keys
          BY <3>1, <4>3, CheckpointEffect DEF Holds, Works, Applying
        <5>2. k = Head(todo)
          BY <2>2, <4>1, <5>1 DEF MarkersInv
        <5>3. rows'[k] = Checkpointed(k)
          BY <4>3, <5>2 DEF Checkpoint, Typed, TypeOK
        <5>4. rows'[k].content = Wanted(k)
          BY <5>3 DEF Checkpointed
        <5> QED
          BY <1>1, <3>2, <4>3, <5>1, <5>2, <5>4
      <4>4. CASE i \in unrecorded /\ ~(Checkpoint /\ found = i)
        <5>1. i \in unrecorded'
          BY <4>4, UnrecordedSteps DEF Checkpoint
        <5> QED
          BY <5>1
      <4>5. CASE Behind(k) /\ ~(Checkpoint /\ found = i)
        <5>1. /\ pc = "checkpoint" /\ k = Head(todo) /\ found = i
              /\ UNCHANGED <<pc, todo, found>> \/ LosesCheckpoint
          BY <3>1, <4>5, UnrecordedSteps DEF Behind
        <5>2. LosesCheckpoint => i \in unrecorded'
          BY <3>1, <5>1 DEF LosesCheckpoint
        <5> QED
          BY <5>1, <5>2 DEF Behind
      <4> QED
        BY <1>1, <3>1, <4>1, <4>2, <4>3, <4>4, <4>5
    <3>3. CASE pc = "modify" /\ i = found /\ Live(i) /\ objects'[i] # objects[i]
      <4>1. Head(todo) \in Keys /\ Holds(Head(todo), i) /\ Holds(k, i)
        BY <3>1, <3>3, PutIsAlive DEF Holds, Works, Applying
      <4>2. k = Head(todo)
        BY <2>2, <3>3, <4>1 DEF MarkersInv
      <4>3. Modify
        BY <3>3, ModifiesObjects
      <4>4. pc' = "checkpoint"
        <5>1. pc' = "checkpoint" \/ rows' = RowInError(k)
          BY <4>2, <4>3 DEF Modify, GoTo
        <5>2. rows' = RowInError(k) => rows'[k].state = "error"
          BY WrittenRows DEF Typed
        <5> QED
          BY <1>3, <5>1, <5>2
      <4>5. UNCHANGED <<todo, found>>
        BY <4>3, ModifyEffect
      <4> QED
        BY <3>3, <4>2, <4>4, <4>5 DEF Behind
    <3>4. i # created + 1
      BY <2>2, <3>1, Numbers DEF Typed, TypeOK
    <3> QED
      BY <2>1, <2>3, <3>2, <3>3, <3>4 DEF ObjectMoves
  <2>5. CASE pc = "checkpoint" /\ k = Head(todo) /\ rows'[k] = Checkpointed(k)
    <3>1. i = found /\ rows'[k].content = Wanted(k)
      BY <2>5 DEF Checkpointed
    <3>2. objects'[i] = objects[i]
      BY <2>3, <2>5 DEF ObjectMoves
    <3> QED
      BY <1>1, <2>5, <3>1, <3>2
  <2> QED
    BY <1>3, <2>4, <2>5, RowSteps, NoRowTypes DEF RowMoves
<1>4. ASSUME pc' \in {"modify", "checkpoint"}
      PROVE  /\ Live(found)' /\ objects'[found'].comment = Head(todo')
             /\ pc' = "checkpoint" => objects'[found'].content = Wanted(Head(todo))'
  <2>1. todo' = todo /\ want' = want /\ todo # <<>> /\ rows' = rows
    BY <1>4, RecordingSteps
  <2>2. Wanted(Head(todo))' = Wanted(Head(todo))
    BY <2>1 DEF Wanted, ContentOf
  <2>3. CASE pc' = pc /\ found' = found /\ objects' = objects
    BY <1>1, <1>4, <2>1, <2>2, <2>3 DEF Live
  <2>4. CASE /\ pc = "own" /\ pc' = "modify" /\ found' = found /\ objects' = objects
             /\ Live(found) /\ Owned(Head(todo), found)
    <3>1. Head(todo) \in Keys /\ found \in Ids
      BY <2>1, <2>4, NextKey, Numbers DEF Live, Typed, TypeOK
    <3>2. objects[found].comment = Head(todo)
      BY <2>4, <3>1, FoundByMarker DEF Owned, Matches
    <3> QED
      BY <2>1, <2>4, <3>2 DEF Live
  <2>5. CASE /\ pc' = "checkpoint" /\ pc \in {"modify", "create"}
             /\ objects'[found'] = Put(Head(todo)) /\ found' \in Ids
    <3>1. Put(Head(todo)) # Gone /\ found' # NoId
      BY <2>5, PutIsAlive, Numbers DEF Applying
    <3>2. Put(Head(todo)).comment = Head(todo) /\ Put(Head(todo)).content = Wanted(Head(todo))
      BY DEF Put
    <3> QED
      BY <2>1, <2>2, <2>5, <3>1, <3>2 DEF Live
  <2> QED
    BY <1>4, <2>3, <2>4, <2>5, RecordingSteps
<1> QED
  BY <1>2, <1>3, <1>4

\* What the status "applied" says of the rows until the next pass begins.
AppliedInv ==
    status = "applied" =>
        \A k \in KeysOf(shown) :
            /\ rows[k].state = "applied" /\ rows[k].content = ContentOf(shown, k)
            /\ meddling = 0 /\ k[1] = "task" => Live(rows[k].id)

LEMMA StatusSteps ==
  ASSUME [Next]_vars, status' = "applied"
  PROVE  Finish \/ (status = "applied" /\ shown' = shown)
<1>1. CASE MarkSyncing \/ CallFails \/ Crash \/ Begin \/ LoadNetworks
  BY <1>1 DEF MarkSyncing, CallFails, Fail, Crash, Begin, LoadNetworks, Outside
<1>2. CASE Edit \/ SoftDelete \/ UNCHANGED vars \/ Meddle
  BY <1>2 DEF Edit, SoftDelete, vars, Meddle
<1>3. CASE Apply \/ RecoverByMarker \/ CheckOwner
  BY <1>3 DEF Apply, Release, Skip, RetentionFails, Insert, Resume, RecoverByMarker, Recover, CheckOwner, GoTo, Fail,
     Outside
<1>4. CASE Modify \/ Create \/ Delete \/ Checkpoint \/ DropRow
  BY <1>4 DEF Modify, Create, Delete, Checkpoint, DropRow, GoTo, Fail, Outside
<1>5. CASE Cleanup \/ FindVictim \/ CheckVictim
  BY <1>5 DEF Cleanup, FindVictim, CheckVictim, GoTo, Fail, Outside
<1> QED
  BY <1>1, <1>2, <1>3, <1>4, <1>5 DEF Next, Step

\* A definition has targets, and so has what an applied pass has loaded.
LoadedInv ==
    /\ pc \notin {"idle", "networks"} => want.seqs # {}
    /\ status = "applied" => ~shown.deleted /\ shown.seqs # {}

LEMMA LoadedStep ==
  ASSUME Typed, LoadedInv, [Next]_vars
  PROVE  LoadedInv'
<1>1. pc' \notin {"idle", "networks"} => want'.seqs # {}
  <2>1. CASE Begin
    BY <2>1 DEF Begin
  <2>2. CASE LoadNetworks
    <3>1. desired.def.seqs # {}
      BY ConstantsAssumption DEF Typed, TypeOK, Desired, Definition
    <3>2. want'.seqs = desired.def.seqs
      BY <2>2 DEF LoadNetworks, Typed, TypeOK, Loaded
    <3> QED
      BY <3>1, <3>2
  <2>3. CASE /\ want' = want
             /\ \/ pc' \in {pc, "idle"}
                \/ pc \notin {"idle", "networks"} /\ pc' \notin {"idle", "networks"}
    BY <2>3 DEF LoadedInv
  <2> QED
    BY <2>1, <2>2, <2>3, WantSteps
<1>2. status' = "applied" => ~shown'.deleted /\ shown'.seqs # {}
  <2>1. CASE Finish
    BY <2>1 DEF Finish, LoadedInv
  <2> QED
    BY <2>1, StatusSteps DEF LoadedInv
<1> QED
  BY <1>1, <1>2 DEF LoadedInv

LEMMA AppliedStep ==
  ASSUME Typed, ProcessedInv, AppliedInv, [Next]_vars
  PROVE  AppliedInv'
<1> SUFFICES ASSUME status' = "applied", NEW k \in KeysOf(shown')
             PROVE  /\ rows'[k].state = "applied" /\ rows'[k].content = ContentOf(shown, k)'
                    /\ meddling' = 0 /\ k[1] = "task" => Live(rows[k].id)'
  BY DEF AppliedInv, KeysOf
<1>1. CASE Finish
  <2>1. /\ pc = "finish" /\ shown' = want /\ rows' = rows /\ objects' = objects
        /\ meddling' = meddling
    BY <1>1 DEF Finish
  <2>2. todo = <<>> /\ \A l \in KeysOf(want) \ Listed(todo) : Processed(l)
    BY <2>1 DEF ProcessedInv, Underway
  <2>3. Listed(todo) = {}
    BY <2>2 DEF Listed
  <2>4. Processed(k)
    BY <2>1, <2>2, <2>3
  <2>5. ContentOf(shown, k)' = Wanted(k)
    BY <2>1 DEF Wanted, ContentOf
  <2> QED
    BY <2>1, <2>4, <2>5 DEF Processed, Unchanged, Live
<1>2. CASE status = "applied" /\ shown' = shown
  <2>1. pc \in {"idle", "networks", "begin"}
    BY <1>2 DEF Typed, PassInv
  <2>2. rows' = rows
    <3>1. \A l \in Keys : rows'[l] = rows[l]
      BY <2>1, RowSteps DEF RowMoves
    <3>2. rows \in [Keys -> Row \union {NoRow}] /\ rows' \in [Keys -> Row \union {NoRow}]
      BY StepIsTyped DEF Typed, TypeOK
    <3> QED
      BY <3>1, <3>2
  <2>3. /\ rows[k].state = "applied" /\ rows[k].content = ContentOf(shown, k)
        /\ meddling = 0 /\ k[1] = "task" => Live(rows[k].id)
    BY <1>2 DEF AppliedInv
  <2>4. ContentOf(shown, k)' = ContentOf(shown, k)
    BY <1>2, <2>2 DEF ContentOf
  <2>5. k \in Keys
    BY <1>2, KeysAreKeys DEF KeysOf, Typed, TypeOK, Loaded
  <2>6. meddling' = 0 /\ k[1] = "task" => Live(rows[k].id)'
    <3> SUFFICES ASSUME meddling' = 0, k[1] = "task" PROVE Live(rows[k].id)'
      OBVIOUS
    <3>1. rows[k].id \in Ids \union {NoId} /\ Live(rows[k].id)
      BY <2>3, <2>5, RowTypes, NobodyMeddled DEF Typed, TypeOK
    <3>2. \A i \in Ids \union {NoId} : Live(i) => i # NoId /\ objects'[i] # Gone
      BY <2>1, UsedStays DEF Live
    <3> QED
      BY <2>2, <3>1, <3>2 DEF Live
  <2> QED
    BY <2>2, <2>3, <2>4, <2>6
<1> QED
  BY <1>1, <1>2, StatusSteps

LEMMA InitIsInPlace == Init => ProcessedInv /\ UsesInv /\ AliveInv /\ LoadedInv /\ AppliedInv
<1> SUFFICES ASSUME Init PROVE ProcessedInv /\ UsesInv /\ AliveInv /\ LoadedInv /\ AppliedInv
  OBVIOUS
<1>1. \A i \in Ids \union {NoId} : ~Live(i)
  BY DEF Init, Live
<1>2. \A k \in Keys : rows[k].state # "applied"
  BY NoRowTypes DEF Init
<1> QED
  BY <1>1, <1>2 DEF Init, ProcessedInv, Underway, UsesInv, AliveInv, LoadedInv, AppliedInv

\* Everything together, before and after every step.
InPlaceInv ==
    /\ Typed /\ NumberedInv /\ HeldInv /\ TwinsInv /\ MarkersInv
    /\ ProcessedInv /\ UsesInv /\ AliveInv /\ LoadedInv /\ AppliedInv

LEMMA ShownStands ==
  ASSUME InPlaceInv, status = "applied", meddling = 0, NEW k \in KeysOf(shown)
  PROVE  /\ rows[k] = [state |-> "applied", id |-> rows[k].id, content |-> ContentOf(shown, k)]
         /\ Ours(k) = {rows[k].id}
         /\ rows[k].id \notin unrecorded => objects[rows[k].id].content = ContentOf(shown, k)
<1> USE DEF InPlaceInv
<1>1. /\ KeysOf(shown) \subseteq Keys /\ k \in Keys
      /\ ~shown.deleted /\ shown.seqs # {} /\ shown.seqs \subseteq Seqs
  <2>1. shown \in Loaded
    BY DEF Typed, TypeOK
  <2>2. ~shown.deleted /\ shown.seqs # {}
    BY DEF LoadedInv
  <2> QED
    BY <2>1, <2>2, KeysAreKeys DEF KeysOf, Loaded
<1>2. /\ rows[k].state = "applied" /\ rows[k].content = ContentOf(shown, k)
      /\ k[1] = "task" => Live(rows[k].id)
  BY DEF AppliedInv
<1>3. rows[k] = [state |-> "applied", id |-> rows[k].id, content |-> ContentOf(shown, k)]
  <2>1. rows[k] \in Row
    BY <1>1, <1>2, NoRowTypes DEF Typed, TypeOK
  <2> QED
    BY <1>2, <2>1 DEF Row
\* Every planned task is alive and has its target and the schedule.
<1>4. ASSUME NEW s \in shown.seqs
      PROVE  Live(rows[TargetKey(s)].id) /\ Live(rows[ScheduleKey].id)
  <2>1. TaskKey(s) \in KeysOf(shown) /\ TaskKey(s) \in Keys /\ s \in Seqs
    BY <1>1, <1>4 DEF KeysOf
  <2>2. PICK i : i = rows[TaskKey(s)].id
    OBVIOUS
  <2>3. Live(i)
    BY <2>1, <2>2, KeyParts DEF AppliedInv
  <2>4. i \in Ids
    BY <2>1, <2>2, <2>3, RowTypes, Numbers DEF Live, Typed, TypeOK
  <2>5. objects[i].comment = TaskKey(s)
    BY <2>1, <2>2, <2>3, <2>4 DEF MarkersInv, Holds, AliveInv
  <2> QED
    BY <2>1, <2>3, <2>4, <2>5 DEF UsesInv, Uses
<1>5. Live(rows[k].id)
  <2>1. k[1] = "schedule" => k = ScheduleKey
    BY <1>1, KeysByKind
  <2>2. k[1] = "target" => k = TargetKey(k[2]) /\ k[2] \in shown.seqs
    BY KeyParts DEF KeysOf
  <2>3. k[1] \in {"schedule", "target", "task"}
    BY <1>1, KeysByKind
  <2> QED
    BY <1>1, <1>2, <1>4, <2>1, <2>2, <2>3
<1>6. rows[k].id \in Ids
  BY <1>1, <1>5, RowTypes, Numbers DEF Live, Typed, TypeOK
<1>7. objects[rows[k].id].comment = k
  BY <1>1, <1>5, <1>6 DEF MarkersInv, Holds, AliveInv
<1>8. Ours(k) = {rows[k].id}
  <2>1. rows[k].id \in Ours(k)
    BY <1>5, <1>6, <1>7 DEF Ours
  <2>2. \A i, j \in Ours(k) : i = j
    BY <1>1 DEF TwinsInv, Twins
  <2> QED
    BY <2>1, <2>2
<1>9. rows[k].id \notin unrecorded => objects[rows[k].id].content = rows[k].content
  <2>1. pc # "checkpoint"
    BY DEF Typed, PassInv
  <2> QED
    BY <1>1, <1>2, <1>5, <2>1 DEF AliveInv, Behind
<1> QED
  BY <1>2, <1>3, <1>8, <1>9

\* Where markers can be told apart, the status "applied" stands until the next pass
\* for objects that are there, once, as the pass has loaded them, each task with its
\* own live target and schedule, after whatever failures, crashes and edits: only an
\* object that was modified behind an applied row, and whose checkpoint was lost, may
\* have other values (applyResource, desiredHash, SetReconciliationStatus).
THEOREM AppliedStands == ASSUME UniqueMarkers PROVE Spec => []ShownIsInPlace
<1>1. Init => InPlaceInv
  BY InitIsTyped, InitIsNumbered, InitHasNoTwins, InitHasMarkers, InitIsInPlace DEF InPlaceInv
<1>2. InPlaceInv /\ [Next]_vars => InPlaceInv'
  BY UniqueMarkers, StepIsTyped, NumberedStep, HeldStep, TwinsStep, MarkersStep,
     ProcessedStep, UsesStep, AliveStep, LoadedStep, AppliedStep DEF InPlaceInv
<1>3. InPlaceInv => ShownIsInPlace
  BY ShownStands DEF ShownIsInPlace
<1> QED
  BY <1>1, <1>2, <1>3, PTL DEF Spec

=============================================================================
