-------------------------- MODULE ReportSyncProofs --------------------------
(***************************************************************************)
(* Proofs about the report history, for every number of tasks, findings,   *)
(* scans and attempts, with any number of faults and requests.             *)
(***************************************************************************)
EXTENDS ReportSyncProperties, FiniteSetTheorems, WellFoundedInduction, TLAPS

-----------------------------------------------------------------------------
(* Numbers *)

LEMMA ScansAreFinite ==
  /\ Scans \subseteq Nat \ {0} /\ Times \subseteq Nat /\ Scans \subseteq Times /\ 0 \in Times
  /\ \A X \in SUBSET Times : IsFiniteSet(X)
<1>1. MaxScans \in Nat
  BY HistoryAssumption
<1>2. IsFiniteSet(Times)
  BY <1>1, FS_Interval DEF Times
<1>3. \A X \in SUBSET Times : IsFiniteSet(X)
  BY <1>2, FS_Subset
<1>4. Scans \subseteq Nat \ {0} /\ Times \subseteq Nat /\ Scans \subseteq Times /\ 0 \in Times
  BY <1>1 DEF Scans, Times
<1> QED
  BY <1>3, <1>4

\* Of sets of times, some set has no other one inside.
LEMMA SmallestSet ==
  ASSUME NEW T, T \subseteq SUBSET Times, T # {}
  PROVE  \E X \in T : \A Y \in T : Y \subseteq X => Y = X
<1>1. IsWellFoundedOn(StrictSubsetOrdering(Times), FiniteSubsetsOf(Times))
  BY FS_StrictSubsetOrderingWellFounded
<1>2. T \subseteq FiniteSubsetsOf(Times)
  BY ScansAreFinite DEF FiniteSubsetsOf
<1>3. PICK X \in T : \A Y \in T : ~(<<Y, X>> \in StrictSubsetOrdering(Times))
  BY <1>1, <1>2, WFMin
<1>4. ASSUME NEW Y \in T, Y \subseteq X
      PROVE  Y = X
  BY <1>3, <1>4 DEF StrictSubsetOrdering
<1> QED
  BY <1>3, <1>4

\* A relation on times that is transitive and irreflexive has a last element in
\* every set: After of a report, or the order of the times themselves.
LEMMA LastElement ==
  ASSUME NEW S, S \subseteq Times, S # {},
         NEW Above, Above \in [S -> SUBSET S],
         \A m \in S : ~(m \in Above[m]),
         \A m \in S : \A k \in Above[m] : Above[k] \subseteq Above[m]
  PROVE  \E m \in S : Above[m] = {}
<1> DEFINE T == {Above[m] : m \in S}
<1>1. T \subseteq SUBSET Times /\ T # {}
  OBVIOUS
<1> HIDE DEF T
<1>2. PICK X \in T : \A Y \in T : Y \subseteq X => Y = X
  BY <1>1, SmallestSet
<1>3. PICK m \in S : X = Above[m]
  BY <1>2 DEF T
<1>4. ASSUME NEW k \in Above[m]
      PROVE  FALSE
  <2>1. k \in S /\ Above[k] \in T /\ Above[k] \subseteq X
    BY <1>3, <1>4 DEF T
  <2>2. Above[k] = X
    BY <1>2, <2>1
  <2> QED
    BY <1>3, <1>4, <2>1, <2>2
<1> QED
  BY <1>3, <1>4

\* A set of times has a least one,
LEMMA LeastTime ==
  ASSUME NEW S, S \subseteq Times, S # {}
  PROVE  \E m \in S : \A k \in S : m <= k
<1> DEFINE Below == [m \in S |-> {k \in S : k < m}]
<1>1. S \subseteq Nat
  BY ScansAreFinite
<1>2. Below \in [S -> SUBSET S] /\ \A m \in S : ~(m \in Below[m])
  BY <1>1
<1>3. ASSUME NEW m \in S, NEW k \in Below[m], NEW j \in Below[k]
      PROVE  j \in Below[m]
  <2>1. m \in Nat /\ k \in S /\ k \in Nat /\ j \in S /\ j \in Nat
    BY <1>1, <1>2, <1>3
  <2> QED
    BY <1>3, <2>1
<1> HIDE DEF Below
<1>4. PICK m \in S : Below[m] = {}
  BY <1>2, <1>3, LastElement
<1>5. \A k \in S : ~(k < m)
  BY <1>4 DEF Below
<1> QED
  BY <1>1, <1>5

\* and a last one.
LEMMA LastTime ==
  ASSUME NEW S, S \subseteq Times, S # {}
  PROVE  \E m \in S : \A k \in S : k <= m
<1> DEFINE Above == [m \in S |-> {k \in S : m < k}]
<1>1. S \subseteq Nat
  BY ScansAreFinite
<1>2. Above \in [S -> SUBSET S] /\ \A m \in S : ~(m \in Above[m])
  BY <1>1
<1>3. ASSUME NEW m \in S, NEW k \in Above[m], NEW j \in Above[k]
      PROVE  j \in Above[m]
  <2>1. m \in Nat /\ k \in S /\ k \in Nat /\ j \in S /\ j \in Nat
    BY <1>1, <1>2, <1>3
  <2> QED
    BY <1>3, <2>1
<1> HIDE DEF Above
<1>4. PICK m \in S : Above[m] = {}
  BY <1>2, <1>3, LastElement
<1>5. \A k \in S : ~(m < k)
  BY <1>4 DEF Above
<1> QED
  BY <1>1, <1>5

-----------------------------------------------------------------------------
(* Order of the history *)

Rows == [Scans -> Row]
States == [Fingerprints -> State]

\* No two rows of a task have the same id.
Distinct(R) ==
    \A m, n \in Scans : R[m].state # "none" /\ R[n].state # "none" /\ m # n => R[m].id # R[n].id

LEMMA RowType ==
  ASSUME NEW R \in Rows, NEW n \in Scans
  PROVE  /\ R[n].state \in {"none", "failed", "imported"}
         /\ R[n].attempts \in Nat /\ R[n].id \in Nat
         /\ R[n].content \in Content
         /\ R[n].content.end \in Times /\ R[n].content.end \in Nat
         /\ R[n].content.found \subseteq Fingerprints
BY ScansAreFinite DEF Rows, Row, Content

\* A new row gets an id above all others.
LEMMA FreshIdIsHighest ==
  ASSUME NEW R \in Rows, Scans # {}
  PROVE  FreshId(R) \in Nat /\ \A n \in Scans : R[n].id < FreshId(R)
<1> DEFINE Above == [m \in Scans |-> {k \in Scans : R[m].id < R[k].id}]
<1>1. \A n \in Scans : R[n].id \in Nat
  BY RowType
<1>2. Above \in [Scans -> SUBSET Scans] /\ \A m \in Scans : ~(m \in Above[m])
  BY <1>1
<1>3. \A m \in Scans : \A k \in Above[m] : Above[k] \subseteq Above[m]
  BY <1>1
<1> HIDE DEF Above
<1>4. PICK m \in Scans : Above[m] = {}
  BY <1>2, <1>3, LastElement, ScansAreFinite
<1>5. \A n \in Scans : ~(R[m].id < R[n].id)
  BY <1>4 DEF Above
<1>6. \A n \in Scans : R[n].id < R[m].id + 1
  BY <1>1, <1>5
<1>7. /\ FreshId(R) \in {R[n].id + 1 : n \in Scans}
      /\ \A n \in Scans : R[n].id < FreshId(R)
  BY <1>6 DEF FreshId
<1> QED
  BY <1>1, <1>7

\* Imported reports are totally ordered, by ends and ids.
LEMMA OrderIsStrict ==
  ASSUME NEW R \in Rows, NEW a \in Scans, NEW b \in Scans, NEW c \in Scans
  PROVE  /\ ~After(R, a, a)
         /\ After(R, a, b) => ~After(R, b, a)
         /\ After(R, a, b) /\ After(R, b, c) => After(R, a, c)
         /\ After(R, a, b) => R[b].content.end <= R[a].content.end
<1>1. \A n \in {a, b, c} : R[n].id \in Nat /\ R[n].content.end \in Nat
  BY RowType
<1> QED
  BY <1>1 DEF After

LEMMA OrderIsTotal ==
  ASSUME NEW R \in Rows, Distinct(R), NEW a \in Imported(R), NEW b \in Imported(R), a # b
  PROVE  After(R, a, b) \/ After(R, b, a)
<1>1. a \in Scans /\ b \in Scans /\ R[a].id # R[b].id
  BY DEF Imported, Distinct
<1>2. \A n \in {a, b} : R[n].id \in Nat /\ R[n].content.end \in Nat
  BY <1>1, RowType
<1> QED
  BY <1>1, <1>2 DEF After

\* Among imported reports there is a newest one.
LEMMA NewestExists ==
  ASSUME NEW R \in Rows, Imported(R) # {}
  PROVE  \E n \in Imported(R) : IsNewest(R, n)
<1> DEFINE Newer == [n \in Imported(R) |-> NewerImports(R, n)]
<1>1. Imported(R) \subseteq Scans
  BY DEF Imported
<1>2. Newer \in [Imported(R) -> SUBSET Imported(R)]
  BY DEF NewerImports
<1>3. \A m \in Imported(R) : ~(m \in Newer[m])
  BY <1>1, OrderIsStrict DEF NewerImports
<1>4. \A m \in Imported(R) : \A k \in Newer[m] : Newer[k] \subseteq Newer[m]
  BY <1>1, OrderIsStrict DEF NewerImports
<1> HIDE DEF Newer
<1>5. PICK n \in Imported(R) : Newer[n] = {}
  BY <1>1, <1>2, <1>3, <1>4, LastElement, ScansAreFinite
<1> QED
  BY <1>5 DEF IsNewest, Newer

LEMMA NewestIsUnique ==
  ASSUME NEW R \in Rows, Distinct(R), NEW m \in Scans, NEW n \in Scans,
         IsNewest(R, m), IsNewest(R, n)
  PROVE  m = n
BY OrderIsTotal DEF IsNewest, NewerImports

-----------------------------------------------------------------------------
(* The invariant of one task's history *)

Ends == [Fingerprints -> SUBSET Times]

\* Imported reports have ids of their own, and their findings count as seen.
RowsInv(R, E) ==
    /\ Distinct(R)
    /\ \A n \in Imported(R) :
           /\ R[n].content.end \in {0, n}
           /\ \A f \in R[n].content.found : R[n].content.end \in E[f]
    /\ Imported(R) = {} => \A f \in Fingerprints : E[f] = {}

\* A finding is known exactly if it was seen, since the earliest time.
StatesInv(S, E) ==
    \A f \in Fingerprints :
        /\ S[f].known <=> E[f] # {}
        /\ S[f].known => S[f].first \in E[f] /\ \A e \in E[f] : S[f].first <= e
        /\ ~S[f].known => S[f].present = FALSE /\ S[f].handled = FALSE

\* The newest report n decides what is present, and nothing was seen later.
Decides(R, S, E, n) ==
    \A f \in Fingerprints :
        /\ S[f].present <=> f \in R[n].content.found
        /\ S[f].present => S[f].snapshot = n /\ S[f].last = R[n].content.end
        /\ \A e \in E[f] : e <= R[n].content.end

HistoryInv(R, S, E) ==
    /\ RowsInv(R, E)
    /\ StatesInv(S, E)
    /\ \A n \in Scans : IsNewest(R, n) => Decides(R, S, E, n)

-----------------------------------------------------------------------------
(* The invariant of the cycle *)

Existing(t) == {n \in Scans : scans[t][n].status # "none"}

\* A scan ends at its own time. Whatever the history, a listing or a job names exists
\* at the scanner or did, and a job finds the row it was made for.
CycleInv ==
    \A t \in Tasks, n \in Scans :
        /\ scans[t][n].end \in {0, n}
        /\ rows[t][n].state # "none" => n \in Existing(t)
        /\ listing[t].last = n => n \in Existing(t)
        /\ pc # "importing" => jobs[t][n] = "none"
        /\ jobs[t][n] # "none" => n \in Existing(t)
        /\ jobs[t][n] = "new" => rows[t][n].state = "none"
        /\ jobs[t][n] = "retry" => rows[t][n].state = "failed" /\ rows[t][n].attempts < MaxAttempts
        /\ jobs[t][n] = "fetched" =>
               fetched[t][n].status \notin {"none", "gone"} /\ fetched[t][n].end \in {0, n}

IInv ==
    /\ TypeOK
    /\ CycleInv
    /\ \A t \in Tasks : HistoryInv(rows[t], states[t], seen[t])

-----------------------------------------------------------------------------
(* What the statements do to the invariant of a history *)

LEMMA StateType ==
  ASSUME NEW S \in States, NEW f \in Fingerprints
  PROVE  /\ S[f] \in State
         /\ S[f].known \in BOOLEAN /\ S[f].present \in BOOLEAN /\ S[f].handled \in BOOLEAN
         /\ S[f].first \in Times /\ S[f].last \in Times /\ S[f].snapshot \in Times
         /\ S[f].first \in Nat /\ S[f].last \in Nat
BY ScansAreFinite DEF States, State

LEMMA ContentType ==
  ASSUME NEW c \in Content
  PROVE  c.end \in Times /\ c.end \in Nat /\ c.found \subseteq Fingerprints
BY ScansAreFinite DEF Content

LEMMA ConstantsHaveType ==
  /\ NoContent \in Content /\ NoRow \in Row /\ NoState \in State
  /\ 0 \in Times
BY ScansAreFinite DEF NoContent, NoRow, NoState, Content, Row, State

\* Rows that change among themselves only: the imported ones stay as they are.
LEMMA SameImports ==
  ASSUME NEW R \in Rows, NEW S \in States, NEW E \in Ends, HistoryInv(R, S, E),
         NEW Q \in Rows, Distinct(Q), Imported(Q) = Imported(R),
         \A n \in Imported(R) : Q[n].content = R[n].content /\ Q[n].id = R[n].id
  PROVE  /\ HistoryInv(Q, S, E)
         /\ \A n \in Scans : IsNewest(Q, n) <=> IsNewest(R, n)
<1>1. \A a, b \in Imported(R) : After(Q, a, b) <=> After(R, a, b)
  BY DEF After
<1>2. \A n \in Imported(R) : NewerImports(Q, n) = NewerImports(R, n)
  BY <1>1 DEF NewerImports
<1>3. \A n \in Scans : IsNewest(Q, n) <=> IsNewest(R, n)
  BY <1>2 DEF IsNewest
<1>4. RowsInv(Q, E)
  BY DEF HistoryInv, RowsInv
<1>5. ASSUME NEW n \in Scans, IsNewest(Q, n)
      PROVE  Decides(Q, S, E, n)
  <2>1. IsNewest(R, n) /\ n \in Imported(R)
    BY <1>3, <1>5 DEF IsNewest
  <2>2. Decides(R, S, E, n) /\ Q[n].content = R[n].content
    BY <2>1 DEF HistoryInv
  <2> QED
    BY <2>2 DEF Decides
<1> QED
  BY <1>3, <1>4, <1>5 DEF HistoryInv

LEMMA FailureKeepsHistory ==
  ASSUME NEW R \in Rows, NEW S \in States, NEW E \in Ends, HistoryInv(R, S, E), NEW n \in Scans
  PROVE  /\ RecordFailure(R, n) \in Rows
         /\ HistoryInv(RecordFailure(R, n), S, E)
         /\ \A m \in Scans : IsNewest(RecordFailure(R, n), m) <=> IsNewest(R, m)
<1> DEFINE Q == RecordFailure(R, n)
<1>1. FreshId(R) \in Nat /\ \A m \in Scans : R[m].id < FreshId(R)
  BY FreshIdIsHighest
<1>2. R[n] \in Row /\ NoContent \in Content
  BY ConstantsHaveType DEF Rows
<1>3. Distinct(R) /\ \A m \in Scans : R[m].id \in Nat
  BY RowType DEF HistoryInv, RowsInv
<1>4. CASE R[n].state = "imported"
  BY <1>4 DEF RecordFailure
<1>5. CASE R[n].state = "failed"
  <2>1. Q = [R EXCEPT ![n].attempts = @ + 1]
    BY <1>5 DEF RecordFailure
  <2>2. Q \in Rows /\ \A m \in Scans : Q[m].state = R[m].state /\ Q[m].id = R[m].id
                                        /\ Q[m].content = R[m].content
    BY <1>2, <2>1 DEF Rows, Row
  <2> HIDE DEF Q
  <2>3. Distinct(Q) /\ Imported(Q) = Imported(R)
    BY <1>3, <2>2 DEF Distinct, Imported
  <2>4. \A m \in Imported(R) : Q[m].content = R[m].content /\ Q[m].id = R[m].id
    BY <2>2 DEF Imported
  <2>5. HistoryInv(Q, S, E) /\ \A m \in Scans : IsNewest(Q, m) <=> IsNewest(R, m)
    BY <2>2, <2>3, <2>4, SameImports
  <2> QED
    BY <2>2, <2>5 DEF Q
<1>6. CASE R[n].state = "none"
  <2>1. Q = [R EXCEPT ![n] = [state |-> "failed", attempts |-> 1,
                              id |-> FreshId(R), content |-> NoContent]]
    BY <1>6 DEF RecordFailure
  <2>2. /\ Q \in Rows
        /\ Q[n].state = "failed" /\ Q[n].id = FreshId(R)
        /\ \A m \in Scans : m # n => Q[m] = R[m]
    BY <1>1, <1>2, <2>1 DEF Rows, Row
  <2> HIDE DEF Q
  <2>3. Distinct(Q)
    BY <1>1, <1>3, <2>2 DEF Distinct
  <2>4. Imported(Q) = Imported(R) /\ \A m \in Imported(R) : m # n /\ m \in Scans
    BY <1>6, <2>2 DEF Imported
  <2>5. HistoryInv(Q, S, E) /\ \A m \in Scans : IsNewest(Q, m) <=> IsNewest(R, m)
    BY <2>2, <2>3, <2>4, SameImports
  <2> QED
    BY <2>2, <2>5 DEF Q
<1> QED
  BY <1>2, <1>4, <1>5, <1>6 DEF Row

LEMMA ResetKeepsHistory ==
  ASSUME NEW R \in Rows, NEW S \in States, NEW E \in Ends, HistoryInv(R, S, E)
  PROVE  /\ ResetFailures(R) \in Rows
         /\ HistoryInv(ResetFailures(R), S, E)
         /\ \A m \in Scans : IsNewest(ResetFailures(R), m) <=> IsNewest(R, m)
<1> DEFINE Q == ResetFailures(R)
<1>1. Q \in Rows /\ \A m \in Scans : Q[m].state = R[m].state /\ Q[m].id = R[m].id
                                     /\ Q[m].content = R[m].content
  BY DEF ResetFailures, Rows, Row
<1> HIDE DEF Q
<1>2. Distinct(Q) /\ Imported(Q) = Imported(R)
  BY <1>1 DEF Distinct, Imported, HistoryInv, RowsInv
<1>3. \A m \in Imported(R) : Q[m].content = R[m].content /\ Q[m].id = R[m].id
  BY <1>1 DEF Imported
<1>4. HistoryInv(Q, S, E) /\ \A m \in Scans : IsNewest(Q, m) <=> IsNewest(R, m)
  BY <1>1, <1>2, <1>3, SameImports
<1> QED
  BY <1>1, <1>4 DEF Q

LEMMA DiscardKeepsHistory ==
  ASSUME NEW R \in Rows, NEW S \in States, NEW E \in Ends, HistoryInv(R, S, E), NEW n \in Scans
  PROVE  /\ DeleteFailure(R, n) \in Rows
         /\ HistoryInv(DeleteFailure(R, n), S, E)
         /\ \A m \in Scans : IsNewest(DeleteFailure(R, n), m) <=> IsNewest(R, m)
<1> DEFINE Q == DeleteFailure(R, n)
<1>1. /\ Q \in Rows
      /\ \A m \in Scans : Q[m] = R[m] \/ (Q[m].state = "none" /\ R[m].state = "failed")
  BY ConstantsHaveType DEF DeleteFailure, Rows, NoRow
<1> HIDE DEF Q
<1>2. Distinct(Q)
  BY <1>1 DEF Distinct, HistoryInv, RowsInv
<1>3. Imported(Q) = Imported(R)
  BY <1>1 DEF Imported
<1>4. \A m \in Imported(R) : Q[m].content = R[m].content /\ Q[m].id = R[m].id
  BY <1>1 DEF Imported
<1>5. HistoryInv(Q, S, E) /\ \A m \in Scans : IsNewest(Q, m) <=> IsNewest(R, m)
  BY <1>1, <1>2, <1>3, <1>4, SameImports
<1> QED
  BY <1>1, <1>5 DEF Q

-----------------------------------------------------------------------------
(* Saving a report *)

\* The row of a saved report, and the order it gets.
LEMMA SavedRow ==
  ASSUME NEW R \in Rows, Distinct(R), NEW n \in Scans, R[n].state # "imported",
         NEW c \in Content, NEW Q, Q = SavedRows(R, n, c)
  PROVE  /\ Q \in Rows /\ Distinct(Q)
         /\ Q[n].state = "imported" /\ Q[n].content = c
         /\ Q[n].attempts = R[n].attempts
         /\ \A m \in Scans : m # n => Q[m] = R[m]
         /\ Imported(Q) = Imported(R) \union {n}
         /\ n \notin Imported(R)
         /\ \A a, b \in Imported(R) : After(Q, a, b) <=> After(R, a, b)
<1> DEFINE i == IF R[n].state = "failed" THEN R[n].id ELSE FreshId(R)
           row == [state |-> "imported", attempts |-> R[n].attempts, id |-> i, content |-> c]
<1>1. /\ FreshId(R) \in Nat /\ \A m \in Scans : R[m].id < FreshId(R) /\ R[m].id \in Nat
      /\ R[n].attempts \in Nat
  BY FreshIdIsHighest, RowType
<1>2. i \in Nat /\ \A m \in Scans : m # n /\ R[m].state # "none" => R[m].id # i
  <2>1. CASE R[n].state = "failed"
    BY <1>1, <2>1 DEF Distinct
  <2>2. CASE R[n].state # "failed"
    BY <1>1, <2>2
  <2> QED
    BY <2>1, <2>2
<1>3. row \in Row /\ row.state = "imported" /\ row.content = c /\ row.id = i
      /\ row.attempts = R[n].attempts
  BY <1>1, <1>2 DEF Row
<1>4. Q = [R EXCEPT ![n] = row]
  BY DEF SavedRows
<1> HIDE DEF row, i
<1>5. Q \in Rows /\ Q[n] = row /\ \A m \in Scans : m # n => Q[m] = R[m]
  BY <1>3, <1>4 DEF Rows
<1>6. Distinct(Q)
  BY <1>2, <1>3, <1>5 DEF Distinct
<1>7. Imported(Q) = Imported(R) \union {n} /\ n \notin Imported(R)
  BY <1>3, <1>5 DEF Imported
<1>8. \A m \in Imported(R) : m \in Scans /\ m # n
  BY <1>7 DEF Imported
<1>9. \A a, b \in Imported(R) : After(Q, a, b) <=> After(R, a, b)
  BY <1>5, <1>8 DEF After
<1> QED
  BY <1>3, <1>5, <1>6, <1>7, <1>9

LEMMA NotedEnds ==
  ASSUME NEW R \in Rows, NEW E \in Ends, NEW n \in Scans, R[n].state # "imported",
         NEW c \in Content, NEW D, D = Noted(E, R, n, c)
  PROVE  /\ D \in Ends
         /\ \A f \in Fingerprints :
                D[f] = E[f] \union IF f \in c.found THEN {c.end} ELSE {}
BY ContentType DEF Noted, Ends

\* The states T that the newest report, n with contents c, makes of S,
FromNewest(S, n, c, T) ==
    /\ \A f \in c.found :
           /\ T[f].known = TRUE /\ T[f].present = TRUE
           /\ T[f].first = IF S[f].known THEN S[f].first ELSE c.end
           /\ T[f].last = c.end /\ T[f].snapshot = n /\ T[f].handled = S[f].handled
    /\ \A f \in Fingerprints \ c.found :
           /\ T[f].present = FALSE /\ T[f].known = S[f].known
           /\ T[f].first = S[f].first /\ T[f].handled = S[f].handled

\* and those that an older one makes of them.
FromOlder(S, n, c, T) ==
    \A f \in Fingerprints :
        \/ f \notin c.found /\ T[f] = S[f]
        \/ /\ f \in c.found /\ ~S[f].known
           /\ T[f].known = TRUE /\ T[f].present = FALSE /\ T[f].first = c.end
           /\ T[f].handled = FALSE
        \/ /\ f \in c.found /\ S[f].known
           /\ T[f].known = S[f].known /\ T[f].present = S[f].present
           /\ T[f].first = IF c.end < S[f].first THEN c.end ELSE S[f].first
           /\ T[f].last = S[f].last /\ T[f].snapshot = S[f].snapshot
           /\ T[f].handled = S[f].handled

LEMMA CurrentStatesAre ==
  ASSUME NEW S \in States, NEW n \in Scans, NEW c \in Content
  PROVE  /\ CurrentStates(S, n, c) \in States
         /\ FromNewest(S, n, c, CurrentStates(S, n, c))
<1> DEFINE T == CurrentStates(S, n, c)
<1>1. n \in Times /\ c.end \in Times /\ c.found \subseteq Fingerprints
  BY ContentType, ScansAreFinite
<1>2. ASSUME NEW f \in c.found
      PROVE  /\ T[f] \in State
             /\ T[f].known = TRUE /\ T[f].present = TRUE
             /\ T[f].first = IF S[f].known THEN S[f].first ELSE c.end
             /\ T[f].last = c.end /\ T[f].snapshot = n /\ T[f].handled = S[f].handled
  <2> DEFINE first == IF S[f].known THEN S[f].first ELSE c.end
  <2>1. first \in Times /\ S[f].handled \in BOOLEAN
    BY <1>1, StateType
  <2>2. T[f] = [known |-> TRUE, present |-> TRUE, first |-> first, last |-> c.end,
                snapshot |-> n, handled |-> S[f].handled]
    BY <1>1 DEF CurrentStates
  <2> HIDE DEF first
  <2>3. /\ T[f] \in State /\ T[f].known = TRUE /\ T[f].present = TRUE /\ T[f].first = first
        /\ T[f].last = c.end /\ T[f].snapshot = n /\ T[f].handled = S[f].handled
    BY <1>1, <2>1, <2>2 DEF State
  <2> QED
    BY <2>3 DEF first
<1>3. ASSUME NEW f \in Fingerprints \ c.found
      PROVE  /\ T[f] \in State
             /\ T[f].present = FALSE /\ T[f].known = S[f].known
             /\ T[f].first = S[f].first /\ T[f].handled = S[f].handled
  <2>1. T[f] = [S[f] EXCEPT !.present = FALSE] /\ S[f] \in State
    BY StateType DEF CurrentStates
  <2> QED
    BY <2>1 DEF State
<1>4. T = [f \in Fingerprints |-> T[f]]
  BY DEF CurrentStates
<1>5. \A f \in Fingerprints : T[f] \in State
  BY <1>2, <1>3
<1>6. T \in States
  BY <1>4, <1>5 DEF States
<1>7. FromNewest(S, n, c, T)
  BY <1>2, <1>3 DEF FromNewest
<1> QED
  BY <1>6, <1>7

\* A report without a newer one decides what is present.
LEMMA NewestImport ==
  ASSUME NEW R \in Rows, NEW S \in States, NEW E \in Ends, HistoryInv(R, S, E),
         NEW n \in Scans, R[n].state # "imported", NEW c \in Content, c.end \in {0, n},
         NewerImports(SavedRows(R, n, c), n) = {}
  PROVE  /\ SavedStates(R, S, n, c) \in States
         /\ HistoryInv(SavedRows(R, n, c), SavedStates(R, S, n, c), Noted(E, R, n, c))
         /\ IsNewest(SavedRows(R, n, c), n)
         /\ \A m \in Scans : IsNewest(R, m) => R[m].content.end <= c.end
<1> DEFINE Q == SavedRows(R, n, c)
           T == SavedStates(R, S, n, c)
           D == Noted(E, R, n, c)
<1>1. /\ Distinct(R) /\ RowsInv(R, E) /\ StatesInv(S, E)
      /\ c.end \in Times /\ c.end \in Nat /\ c.found \subseteq Fingerprints
  BY ContentType DEF HistoryInv, RowsInv
<1>2. /\ Q \in Rows /\ Distinct(Q)
      /\ Q[n].state = "imported" /\ Q[n].content = c
      /\ \A m \in Scans : m # n => Q[m] = R[m]
      /\ Imported(Q) = Imported(R) \union {n}
      /\ n \notin Imported(R)
  BY <1>1, SavedRow
<1>3. T = CurrentStates(S, n, c)
  BY DEF SavedStates
<1>4. D \in Ends /\ \A f \in Fingerprints :
          D[f] = E[f] \union IF f \in c.found THEN {c.end} ELSE {}
  BY NotedEnds
<1>5. IsNewest(Q, n)
  BY <1>2 DEF IsNewest
<1> HIDE DEF Q, T, D
<1>6. FromNewest(S, n, c, T)
  BY <1>3, CurrentStatesAre
<1>7. T \in States
  BY <1>3, CurrentStatesAre
<1>8. ASSUME NEW m \in Scans, IsNewest(R, m)
      PROVE  R[m].content.end <= c.end
  <2>1. m \in Imported(R) /\ m # n /\ m \in Imported(Q) /\ n \in Imported(Q) /\ Q[m] = R[m]
    BY <1>2, <1>8 DEF IsNewest
  <2>2. ~After(Q, m, n)
    BY <1>5, <2>1 DEF IsNewest, NewerImports
  <2>3. After(Q, n, m)
    BY <1>2, <2>1, <2>2, OrderIsTotal
  <2> QED
    BY <1>2, <2>1, <2>3, OrderIsStrict
<1>9. ASSUME NEW f \in Fingerprints, NEW e \in E[f]
      PROVE  e <= c.end
  <2>1. Imported(R) # {}
    BY <1>1, <1>9 DEF RowsInv
  <2>2. PICK m \in Imported(R) : IsNewest(R, m)
    BY <2>1, NewestExists
  <2>3. m \in Scans /\ e \in Nat /\ R[m].content.end \in Nat
    BY <2>2, RowType, ScansAreFinite DEF Imported, Ends
  <2>4. e <= R[m].content.end
    BY <2>2, <2>3 DEF HistoryInv, Decides
  <2> QED
    BY <1>1, <1>8, <2>2, <2>3, <2>4
<1>10. RowsInv(Q, D)
  <2>1. ASSUME NEW m \in Imported(Q)
        PROVE  /\ Q[m].content.end \in {0, m}
               /\ \A f \in Q[m].content.found : Q[m].content.end \in D[f]
    <3>1. CASE m = n
      BY <1>1, <1>2, <1>4, <3>1
    <3>2. CASE m # n
      <4>1. m \in Scans /\ m \in Imported(R) /\ Q[m] = R[m] /\ R[m].content.found \subseteq Fingerprints
        BY <1>2, <3>2, RowType DEF Imported
      <4> QED
        BY <1>1, <1>4, <4>1 DEF RowsInv
    <3> QED
      BY <3>1, <3>2
  <2> QED
    BY <1>2, <2>1 DEF RowsInv
<1>11. StatesInv(T, D)
  <2>1. ASSUME NEW f \in Fingerprints
        PROVE  /\ T[f].known <=> D[f] # {}
               /\ T[f].known => T[f].first \in D[f] /\ \A e \in D[f] : T[f].first <= e
               /\ ~T[f].known => T[f].present = FALSE /\ T[f].handled = FALSE
    <3>1. /\ S[f].known <=> E[f] # {}
          /\ S[f].known => S[f].first \in E[f] /\ \A e \in E[f] : S[f].first <= e
          /\ ~S[f].known => S[f].present = FALSE /\ S[f].handled = FALSE
      BY <1>1 DEF StatesInv
    <3>2. CASE f \in c.found
      <4>1. T[f].known = TRUE /\ T[f].first = IF S[f].known THEN S[f].first ELSE c.end
        BY <1>6, <3>2 DEF FromNewest
      <4>2. D[f] = E[f] \union {c.end} /\ \A e \in E[f] : e <= c.end
        BY <1>4, <1>9, <3>2
      <4>3. c.end <= c.end
        BY <1>1
      <4> QED
        BY <3>1, <4>1, <4>2, <4>3
    <3>3. CASE f \notin c.found
      <4>1. /\ T[f].known = S[f].known /\ T[f].first = S[f].first
            /\ T[f].handled = S[f].handled /\ T[f].present = FALSE
        BY <1>6, <3>3 DEF FromNewest
      <4>2. D[f] = E[f]
        BY <1>4, <3>3
      <4> QED
        BY <3>1, <4>1, <4>2
    <3> QED
      BY <3>2, <3>3
  <2> QED
    BY <2>1 DEF StatesInv
<1>12. Decides(Q, T, D, n)
  <2>1. ASSUME NEW f \in Fingerprints
        PROVE  /\ T[f].present <=> f \in c.found
               /\ T[f].present => T[f].snapshot = n /\ T[f].last = c.end
               /\ \A e \in D[f] : e <= c.end
    <3>1. \A e \in D[f] : e <= c.end
      BY <1>1, <1>4, <1>9
    <3>2. CASE f \in c.found
      BY <1>6, <3>1, <3>2 DEF FromNewest
    <3>3. CASE f \notin c.found
      BY <1>6, <3>1, <3>3 DEF FromNewest
    <3> QED
      BY <3>2, <3>3
  <2> QED
    BY <1>2, <2>1 DEF Decides
<1>13. \A m \in Scans : IsNewest(Q, m) => m = n
  BY <1>2, <1>5, NewestIsUnique
<1>14. HistoryInv(Q, T, D)
  BY <1>10, <1>11, <1>12, <1>13 DEF HistoryInv
<1> QED
  BY <1>5, <1>7, <1>8, <1>14 DEF Q, T, D

LEMMA HistoricalStatesAre ==
  ASSUME NEW S \in States, NEW n \in Scans, NEW c \in Content
  PROVE  /\ HistoricalStates(S, n, c) \in States
         /\ FromOlder(S, n, c, HistoricalStates(S, n, c))
<1> DEFINE T == HistoricalStates(S, n, c)
<1>1. n \in Times /\ c.end \in Times
  BY ContentType, ScansAreFinite
<1>2. ASSUME NEW f \in Fingerprints, f \notin c.found
      PROVE  T[f] \in State /\ T[f] = S[f]
  BY <1>2, StateType DEF HistoricalStates
<1>3. ASSUME NEW f \in Fingerprints, f \in c.found, ~S[f].known
      PROVE  /\ T[f] \in State
             /\ T[f].known = TRUE /\ T[f].present = FALSE /\ T[f].first = c.end
             /\ T[f].handled = FALSE
  <2>1. T[f] = [known |-> TRUE, present |-> FALSE, first |-> c.end,
                last |-> c.end, snapshot |-> n, handled |-> FALSE]
    BY <1>3 DEF HistoricalStates
  <2> QED
    BY <1>1, <2>1 DEF State
<1>4. ASSUME NEW f \in Fingerprints, f \in c.found, S[f].known
      PROVE  /\ T[f] \in State
             /\ T[f].known = S[f].known /\ T[f].present = S[f].present
             /\ T[f].first = IF c.end < S[f].first THEN c.end ELSE S[f].first
             /\ T[f].last = S[f].last /\ T[f].snapshot = S[f].snapshot
             /\ T[f].handled = S[f].handled
  <2> DEFINE first == IF c.end < S[f].first THEN c.end ELSE S[f].first
  <2>1. T[f] = [S[f] EXCEPT !.first = first]
    BY <1>4 DEF HistoricalStates
  <2>2. first \in Times /\ S[f] \in State
    BY <1>1, StateType
  <2> HIDE DEF first
  <2>3. /\ T[f] \in State /\ T[f].first = first
        /\ T[f].known = S[f].known /\ T[f].present = S[f].present
        /\ T[f].last = S[f].last /\ T[f].snapshot = S[f].snapshot
        /\ T[f].handled = S[f].handled
    BY <2>1, <2>2 DEF State
  <2> QED
    BY <2>3 DEF first
<1>5. T = [f \in Fingerprints |-> T[f]]
  BY DEF HistoricalStates
<1>6. \A f \in Fingerprints : T[f] \in State
  BY <1>2, <1>3, <1>4
<1>7. T \in States
  BY <1>5, <1>6 DEF States
<1>8. FromOlder(S, n, c, T)
  BY <1>2, <1>3, <1>4 DEF FromOlder
<1> QED
  BY <1>7, <1>8

\* A report that comes late leaves the newest one in place.
LEMMA LateImport ==
  ASSUME NEW R \in Rows, NEW S \in States, NEW E \in Ends, HistoryInv(R, S, E),
         NEW n \in Scans, R[n].state # "imported", NEW c \in Content, c.end \in {0, n},
         NewerImports(SavedRows(R, n, c), n) # {}
  PROVE  /\ SavedStates(R, S, n, c) \in States
         /\ HistoryInv(SavedRows(R, n, c), SavedStates(R, S, n, c), Noted(E, R, n, c))
         /\ \A m \in Scans : IsNewest(SavedRows(R, n, c), m) <=> IsNewest(R, m)
<1> DEFINE Q == SavedRows(R, n, c)
           T == SavedStates(R, S, n, c)
           D == Noted(E, R, n, c)
<1>1. /\ Distinct(R) /\ RowsInv(R, E) /\ StatesInv(S, E)
      /\ c.end \in Times /\ c.end \in Nat /\ c.found \subseteq Fingerprints
  BY ContentType DEF HistoryInv, RowsInv
<1>2. /\ Q \in Rows /\ Distinct(Q)
      /\ Q[n].state = "imported" /\ Q[n].content = c
      /\ \A m \in Scans : m # n => Q[m] = R[m]
      /\ Imported(Q) = Imported(R) \union {n}
      /\ n \notin Imported(R)
      /\ \A a, b \in Imported(R) : After(Q, a, b) <=> After(R, a, b)
  BY <1>1, SavedRow
<1>3. T = HistoricalStates(S, n, c)
  BY DEF SavedStates
<1>4. D \in Ends /\ \A f \in Fingerprints :
          D[f] = E[f] \union IF f \in c.found THEN {c.end} ELSE {}
  BY NotedEnds
<1>5. NewerImports(Q, n) # {}
  OBVIOUS
<1> HIDE DEF Q, T, D
<1>6. T \in States /\ FromOlder(S, n, c, T)
  BY <1>3, HistoricalStatesAre
<1>7. PICK x \in Imported(Q) : IsNewest(Q, x)
  BY <1>2, NewestExists
<1>8. x # n /\ x \in Scans /\ x \in Imported(R) /\ Q[x] = R[x] /\ After(Q, x, n)
  <2>1. x # n
    BY <1>5, <1>7 DEF IsNewest
  <2>2. n \in Imported(Q) /\ ~After(Q, n, x)
    BY <1>2, <1>7 DEF IsNewest, NewerImports
  <2> QED
    BY <1>2, <1>7, <2>1, <2>2, OrderIsTotal DEF Imported
<1>9. IsNewest(R, x)
  <2>1. \A m \in Imported(R) : ~After(R, m, x)
    BY <1>2, <1>7, <1>8 DEF IsNewest, NewerImports
  <2> QED
    BY <1>8, <2>1 DEF IsNewest, NewerImports
<1>10. \A m \in Scans : (IsNewest(Q, m) <=> m = x) /\ (IsNewest(R, m) <=> m = x)
  BY <1>1, <1>2, <1>7, <1>8, <1>9, NewestIsUnique
<1>11. Decides(R, S, E, x)
  BY <1>8, <1>9 DEF HistoryInv
<1>12. c.end <= R[x].content.end
  BY <1>2, <1>8, OrderIsStrict
<1>13. RowsInv(Q, D)
  <2>1. ASSUME NEW m \in Imported(Q)
        PROVE  /\ Q[m].content.end \in {0, m}
               /\ \A f \in Q[m].content.found : Q[m].content.end \in D[f]
    <3>1. CASE m = n
      BY <1>1, <1>2, <1>4, <3>1
    <3>2. CASE m # n
      <4>1. /\ m \in Scans /\ m \in Imported(R) /\ Q[m] = R[m]
            /\ R[m].content.found \subseteq Fingerprints
        BY <1>2, <3>2, RowType DEF Imported
      <4> QED
        BY <1>1, <1>4, <4>1 DEF RowsInv
    <3> QED
      BY <3>1, <3>2
  <2> QED
    BY <1>2, <2>1 DEF RowsInv
<1>14. StatesInv(T, D)
  <2>1. ASSUME NEW f \in Fingerprints
        PROVE  /\ T[f].known <=> D[f] # {}
               /\ T[f].known => T[f].first \in D[f] /\ \A e \in D[f] : T[f].first <= e
               /\ ~T[f].known => T[f].present = FALSE /\ T[f].handled = FALSE
    <3>1. /\ S[f].known <=> E[f] # {}
          /\ S[f].known => S[f].first \in E[f] /\ \A e \in E[f] : S[f].first <= e
          /\ ~S[f].known => S[f].present = FALSE /\ S[f].handled = FALSE
      BY <1>1 DEF StatesInv
    <3>2. E[f] \subseteq Nat /\ S[f].first \in Nat
      BY StateType, ScansAreFinite DEF Ends
    <3>3. CASE f \notin c.found
      <4>1. T[f] = S[f] /\ D[f] = E[f]
        BY <1>4, <1>6, <3>3 DEF FromOlder
      <4> QED
        BY <3>1, <4>1
    <3>4. CASE f \in c.found /\ ~S[f].known
      <4>1. T[f].known = TRUE /\ T[f].first = c.end /\ D[f] = {c.end}
        BY <1>4, <1>6, <3>1, <3>4 DEF FromOlder
      <4> QED
        BY <1>1, <4>1
    <3>5. CASE f \in c.found /\ S[f].known
      <4>1. /\ T[f].known = S[f].known
            /\ T[f].first = IF c.end < S[f].first THEN c.end ELSE S[f].first
            /\ D[f] = E[f] \union {c.end}
        BY <1>4, <1>6, <3>5 DEF FromOlder
      <4>2. T[f].first \in D[f] /\ \A e \in D[f] : T[f].first <= e
        BY <1>1, <3>1, <3>2, <3>5, <4>1
      <4> QED
        BY <3>5, <4>1, <4>2
    <3> QED
      BY <3>3, <3>4, <3>5
  <2> QED
    BY <2>1 DEF StatesInv
<1>15. Decides(Q, T, D, x)
  <2>1. ASSUME NEW f \in Fingerprints
        PROVE  /\ T[f].present <=> f \in R[x].content.found
               /\ T[f].present => T[f].snapshot = x /\ T[f].last = R[x].content.end
               /\ \A e \in D[f] : e <= R[x].content.end
    <3>1. /\ S[f].present <=> f \in R[x].content.found
          /\ S[f].present => S[f].snapshot = x /\ S[f].last = R[x].content.end
          /\ \A e \in E[f] : e <= R[x].content.end
      BY <1>11 DEF Decides
    <3>2. \A e \in D[f] : e <= R[x].content.end
      BY <1>4, <1>12, <3>1
    <3>3. CASE f \notin c.found
      BY <1>6, <3>1, <3>2, <3>3 DEF FromOlder
    <3>4. CASE f \in c.found /\ ~S[f].known
      <4>1. S[f].present = FALSE
        BY <1>1, <3>4 DEF StatesInv
      <4>2. T[f].present = FALSE
        BY <1>6, <3>4 DEF FromOlder
      <4> QED
        BY <3>1, <3>2, <4>1, <4>2
    <3>5. CASE f \in c.found /\ S[f].known
      <4>1. /\ T[f].present = S[f].present
            /\ T[f].last = S[f].last /\ T[f].snapshot = S[f].snapshot
        BY <1>6, <3>5 DEF FromOlder
      <4> QED
        BY <3>1, <3>2, <4>1
    <3> QED
      BY <3>3, <3>4, <3>5
  <2> QED
    BY <1>8, <2>1 DEF Decides
<1>16. HistoryInv(Q, T, D)
  BY <1>10, <1>13, <1>14, <1>15 DEF HistoryInv
<1> QED
  BY <1>6, <1>10, <1>16 DEF Q, T, D

\* An import, whichever it is: either it is the newest afterwards and none was newer
\* before, or the newest report is the one it was.
LEMMA SaveKeepsHistory ==
  ASSUME NEW R \in Rows, NEW S \in States, NEW E \in Ends, HistoryInv(R, S, E),
         NEW n \in Scans, NEW c \in Content, c.end \in {0, n}
  PROVE  /\ SavedRows(R, n, c) \in Rows
         /\ SavedStates(R, S, n, c) \in States
         /\ Noted(E, R, n, c) \in Ends
         /\ HistoryInv(SavedRows(R, n, c), SavedStates(R, S, n, c), Noted(E, R, n, c))
         /\ \A m \in Scans : m # n => SavedRows(R, n, c)[m] = R[m]
         /\ SavedRows(R, n, c)[n].attempts = R[n].attempts
         /\ SavedRows(R, n, c)[n].state = "imported"
         /\ SavedRows(R, n, c)[n].content \in {R[n].content, c}
         /\ R[n].state # "imported" => SavedRows(R, n, c)[n].content = c
         /\ \/ /\ IsNewest(SavedRows(R, n, c), n) /\ SavedRows(R, n, c)[n].content = c
               /\ \A m \in Scans : IsNewest(R, m) => R[m].content.end <= c.end
            \/ \A m \in Scans :
                   /\ IsNewest(SavedRows(R, n, c), m) <=> IsNewest(R, m)
                   /\ IsNewest(R, m) => SavedRows(R, n, c)[m] = R[m]
<1>1. CASE R[n].state = "imported"
  <2>1. /\ SavedRows(R, n, c) = R /\ SavedStates(R, S, n, c) = S
        /\ Noted(E, R, n, c) = E
    BY <1>1 DEF SavedRows, SavedStates, Noted
  <2> QED
    BY <1>1, <2>1
<1>2. CASE R[n].state # "imported"
  <2> DEFINE Q == SavedRows(R, n, c)
  <2>1. Distinct(R) /\ Noted(E, R, n, c) \in Ends
    BY <1>2, NotedEnds DEF HistoryInv, RowsInv
  <2>2. /\ Q \in Rows /\ Q[n].state = "imported" /\ Q[n].content = c
        /\ Q[n].attempts = R[n].attempts
        /\ \A m \in Scans : m # n => Q[m] = R[m]
        /\ n \notin Imported(R)
    BY <1>2, <2>1, SavedRow
  <2>3. CASE NewerImports(Q, n) = {}
    <3>1. /\ SavedStates(R, S, n, c) \in States
          /\ HistoryInv(Q, SavedStates(R, S, n, c), Noted(E, R, n, c))
          /\ IsNewest(Q, n)
          /\ \A m \in Scans : IsNewest(R, m) => R[m].content.end <= c.end
      BY <1>2, <2>3, NewestImport
    <3> HIDE DEF Q
    <3>2. /\ IsNewest(Q, n) /\ Q[n].content = c
          /\ \A m \in Scans : IsNewest(R, m) => R[m].content.end <= c.end
      BY <2>2, <3>1
    <3> QED
      BY <2>1, <2>2, <3>1, <3>2 DEF Q
  <2>4. CASE NewerImports(Q, n) # {}
    <3>1. /\ SavedStates(R, S, n, c) \in States
          /\ HistoryInv(Q, SavedStates(R, S, n, c), Noted(E, R, n, c))
          /\ \A m \in Scans : IsNewest(Q, m) <=> IsNewest(R, m)
      BY <1>2, <2>4, LateImport
    <3> HIDE DEF Q
    <3>2. \A m \in Scans :
              /\ IsNewest(Q, m) <=> IsNewest(R, m)
              /\ IsNewest(R, m) => Q[m] = R[m]
      BY <2>2, <3>1 DEF IsNewest
    <3> QED
      BY <2>1, <2>2, <3>1, <3>2 DEF Q
  <2> QED
    BY <2>3, <2>4
<1> QED
  BY <1>1, <1>2

-----------------------------------------------------------------------------
(* Retention and notes *)

\* Retention leaves the newest report and what it decided.
LEMMA PruneKeepsHistory ==
  ASSUME NEW R \in Rows, NEW S \in States, NEW E \in Ends, HistoryInv(R, S, E),
         NEW Q, Q = WithoutRows(R, Expired(R, S)),
         NEW T, T = WithoutSnapshots(S, Expired(R, S))
  PROVE  /\ Q \in Rows /\ T \in States
         /\ HistoryInv(Q, T, E)
         /\ \A n \in Scans : Q[n] \in {R[n], NoRow}
         /\ \A f \in Fingerprints : T[f].known = S[f].known /\ T[f].handled = S[f].handled
         /\ \A n \in Scans : IsNewest(Q, n) <=> IsNewest(R, n)
         /\ \A n \in Scans : IsNewest(R, n) => Q[n] = R[n]
<1> DEFINE gone == Expired(R, S)
<1>1. RowsInv(R, E) /\ StatesInv(S, E) /\ Distinct(R)
  BY DEF HistoryInv, RowsInv
<1>2. /\ gone \subseteq Imported(R) /\ Imported(R) \subseteq Scans
      /\ \A n \in gone : Cardinality(NewerImports(R, n)) >= Keep
      /\ \A n \in gone, f \in Fingerprints : ~(S[f].present /\ S[f].snapshot = n)
  BY DEF Expired, Imported
<1> HIDE DEF gone
<1>3. Q = [n \in Scans |-> IF n \in gone THEN NoRow ELSE R[n]]
  BY DEF WithoutRows, gone
<1>4. T = [f \in Fingerprints |-> IF S[f].snapshot \in gone THEN [S[f] EXCEPT !.snapshot = 0]
                                  ELSE S[f]]
  BY DEF WithoutSnapshots, gone
<1>5. /\ Q \in Rows
      /\ \A n \in Scans : Q[n] \in {R[n], NoRow}
      /\ \A n \in Scans : n \notin gone => Q[n] = R[n]
      /\ \A n \in Scans : n \in gone => Q[n] = NoRow
  BY <1>3, ConstantsHaveType DEF Rows
<1>6. ASSUME NEW f \in Fingerprints
      PROVE  /\ T[f] \in State
             /\ T[f].known = S[f].known /\ T[f].present = S[f].present
             /\ T[f].first = S[f].first /\ T[f].last = S[f].last
             /\ T[f].handled = S[f].handled
             /\ S[f].snapshot \notin gone => T[f].snapshot = S[f].snapshot
  BY <1>4, StateType, ScansAreFinite DEF State
<1>7. T \in States
  <2>1. T = [f \in Fingerprints |-> T[f]]
    BY <1>4
  <2> QED
    BY <1>6, <2>1 DEF States
<1>8. NoRow.state = "none"
  BY DEF NoRow
<1>9. Imported(Q) = Imported(R) \ gone
  BY <1>5, <1>8 DEF Imported
<1>10. \A a, b \in Imported(Q) : After(Q, a, b) <=> After(R, a, b)
  BY <1>2, <1>5, <1>9 DEF After
<1>11. ASSUME NEW n \in Scans, IsNewest(R, n)
       PROVE  n \in Imported(Q) /\ IsNewest(Q, n) /\ Q[n] = R[n]
  <2>1. n \in Imported(R) /\ NewerImports(R, n) = {}
    BY <1>11 DEF IsNewest
  <2>2. ~(Cardinality(NewerImports(R, n)) >= Keep)
    BY <2>1, FS_EmptySet, HistoryAssumption
  <2>3. n \in Imported(Q) /\ Q[n] = R[n]
    BY <1>2, <1>5, <1>9, <2>1, <2>2
  <2>4. NewerImports(Q, n) = {}
    BY <1>9, <1>10, <2>1, <2>3 DEF NewerImports
  <2> QED
    BY <2>3, <2>4 DEF IsNewest
<1>12. Distinct(Q)
  BY <1>1, <1>5, <1>8 DEF Distinct
<1>13. ASSUME NEW n \in Scans, IsNewest(Q, n)
       PROVE  IsNewest(R, n)
  <2>1. Imported(R) # {}
    BY <1>9, <1>13 DEF IsNewest
  <2>2. PICK x \in Imported(R) : IsNewest(R, x)
    BY <2>1, NewestExists
  <2>3. x \in Scans /\ IsNewest(Q, x)
    BY <1>2, <1>11, <2>2
  <2>4. x = n
    BY <1>5, <1>12, <1>13, <2>3, NewestIsUnique
  <2> QED
    BY <2>2, <2>4
<1>14. RowsInv(Q, E)
  <2>1. \A n \in Imported(Q) : n \in Imported(R) /\ Q[n] = R[n]
    BY <1>2, <1>5, <1>9
  <2>2. Imported(Q) = {} => Imported(R) = {}
    BY <1>2, <1>11, NewestExists
  <2> QED
    BY <1>1, <1>12, <2>1, <2>2 DEF RowsInv
<1>15. StatesInv(T, E)
  BY <1>1, <1>6 DEF StatesInv
<1>16. ASSUME NEW n \in Scans, IsNewest(Q, n)
       PROVE  Decides(Q, T, E, n)
  <2>1. IsNewest(R, n) /\ Q[n] = R[n]
    BY <1>11, <1>13, <1>16
  <2>2. Decides(R, S, E, n)
    BY <2>1 DEF HistoryInv
  <2>3. \A f \in Fingerprints : S[f].present => S[f].snapshot \notin gone
    BY <1>2
  <2> QED
    BY <1>6, <2>1, <2>2, <2>3 DEF Decides
<1>17. HistoryInv(Q, T, E)
  BY <1>14, <1>15, <1>16 DEF HistoryInv
<1> QED
  BY <1>5, <1>6, <1>7, <1>11, <1>13, <1>17

LEMMA NoteKeepsHistory ==
  ASSUME NEW R \in Rows, NEW S \in States, NEW E \in Ends, HistoryInv(R, S, E),
         NEW f \in Fingerprints, S[f].known,
         NEW T, T = [S EXCEPT ![f].handled = ~@]
  PROVE  T \in States /\ HistoryInv(R, T, E)
<1>1. S[f] \in State /\ S[f].handled \in BOOLEAN
  BY StateType
<1>2. ASSUME NEW g \in Fingerprints
      PROVE  /\ T[g] \in State
             /\ T[g].known = S[g].known /\ T[g].present = S[g].present
             /\ T[g].first = S[g].first /\ T[g].last = S[g].last
             /\ T[g].snapshot = S[g].snapshot
             /\ g # f => T[g] = S[g]
  <2>1. CASE g = f
    <3> DEFINE handled == ~S[f].handled
    <3>1. T[g] = [S[f] EXCEPT !.handled = handled]
      BY <2>1 DEF States
    <3>2. handled \in BOOLEAN
      OBVIOUS
    <3> HIDE DEF handled
    <3> QED
      BY <1>1, <2>1, <3>1, <3>2 DEF State
  <2>2. CASE g # f
    BY <2>2, StateType DEF States
  <2> QED
    BY <2>1, <2>2
<1>3. T = [g \in Fingerprints |-> T[g]]
  BY DEF States
<1>4. T \in States
  BY <1>2, <1>3 DEF States
<1>5. StatesInv(T, E)
  BY <1>2 DEF HistoryInv, StatesInv
<1>6. \A n \in Scans : IsNewest(R, n) => Decides(R, T, E, n)
  BY <1>2 DEF HistoryInv, Decides
<1> QED
  BY <1>4, <1>5, <1>6 DEF HistoryInv

-----------------------------------------------------------------------------
(* The scanner and the operator *)

LEMMA CountersType ==
  ASSUME TypeOK, Fault \/ Request \/ UNCHANGED counters
  PROVE  faults' \in 0 .. MaxFaults /\ requests' \in 0 .. MaxRequests
<1>1. MaxFaults \in Nat /\ MaxRequests \in Nat
  BY SyncAssumption
<1>2. faults \in 0 .. MaxFaults /\ requests \in 0 .. MaxRequests
  BY DEF TypeOK
<1>3. CASE Fault
  BY <1>1, <1>2, <1>3 DEF Fault
<1>4. CASE Request
  BY <1>1, <1>2, <1>4 DEF Request
<1>5. CASE UNCHANGED counters
  BY <1>2, <1>5 DEF counters
<1> QED
  BY <1>3, <1>4, <1>5

\* Steps of the scanner: reports of scans that there are keep existing.
LEMMA ScannerKeepsInv ==
  ASSUME IInv, NEW t \in Tasks, NEW n \in Scans, NEW c \in Content,
         c.status # "none", c.end \in {0, n},
         scans' = [scans EXCEPT ![t][n] = c],
         Fault \/ Request \/ UNCHANGED counters,
         UNCHANGED <<managed, store, trigger, memory>>
  PROVE  IInv'
<1>1. scans \in [Tasks -> [Scans -> Content]]
  BY DEF IInv, TypeOK
<1>2. /\ scans' \in [Tasks -> [Scans -> Content]]
      /\ scans'[t][n] = c
      /\ \A u \in Tasks, m \in Scans : u # t \/ m # n => scans'[u][m] = scans[u][m]
  BY <1>1
<1>3. TypeOK'
  BY <1>2, CountersType DEF IInv, TypeOK, store, memory
<1>4. CycleInv'
  <2>1. \A u \in Tasks, m \in Scans : m \in Existing(u) => m \in Existing(u)'
    BY <1>2 DEF Existing
  <2>2. \A u \in Tasks, m \in Scans : scans'[u][m].end \in {0, m}
    BY <1>2 DEF IInv, CycleInv
  <2> QED
    BY <2>1, <2>2 DEF IInv, CycleInv, store, memory
<1> QED
  BY <1>3, <1>4 DEF IInv, store

LEMMA ScannerStep ==
  ASSUME IInv, NEW t \in Tasks, NEW n \in Scans,
         StartScan(t, n) \/ EndScan(t, n) \/ ResumeScan(t, n) \/ LoseReport(t, n)
  PROVE  IInv'
<1>1. /\ scans \in [Tasks -> [Scans -> Content]]
      /\ scans[t][n] \in Content /\ scans[t][n].end \in {0, n}
  BY DEF IInv, TypeOK, CycleInv
<1>2. CASE StartScan(t, n) \/ ResumeScan(t, n)
  <2> DEFINE c == [scans[t][n] EXCEPT !.status = "running"]
  <2>1. c \in Content /\ c.status # "none" /\ c.end \in {0, n}
    BY <1>1 DEF Content
  <2>2. scans' = [scans EXCEPT ![t][n] = c]
    BY <1>1, <1>2 DEF StartScan, ResumeScan
  <2> HIDE DEF c
  <2>3. /\ Fault \/ Request \/ UNCHANGED counters
        /\ UNCHANGED <<managed, store, trigger, memory>>
    BY <1>2 DEF StartScan, ResumeScan, counters
  <2> QED
    BY <2>1, <2>2, <2>3, ScannerKeepsInv
<1>3. CASE EndScan(t, n)
  <2>1. PICK found \in SUBSET Fingerprints, status \in {"done", "interrupted"}, end \in {0, n} :
            scans' = [scans EXCEPT ![t][n] = [status |-> status, end |-> end, found |-> found]]
    BY <1>3 DEF EndScan
  <2> DEFINE c == [status |-> status, end |-> end, found |-> found]
  <2>2. c \in Content /\ c.status # "none" /\ c.end \in {0, n}
    BY ScansAreFinite DEF Content
  <2>3. scans' = [scans EXCEPT ![t][n] = c]
    BY <2>1
  <2> HIDE DEF c
  <2>4. UNCHANGED counters /\ UNCHANGED <<managed, store, trigger, memory>>
    BY <1>3 DEF EndScan
  <2> QED
    BY <2>2, <2>3, <2>4, ScannerKeepsInv
<1>4. CASE LoseReport(t, n)
  <2> DEFINE c == [NoContent EXCEPT !.status = "gone"]
  <2>1. c \in Content /\ c.status # "none" /\ c.end \in {0, n}
    BY ScansAreFinite DEF Content, NoContent
  <2>2. /\ scans' = [scans EXCEPT ![t][n] = c]
        /\ Fault /\ UNCHANGED <<managed, store, trigger, memory>>
    BY <1>4 DEF LoseReport
  <2> HIDE DEF c
  <2> QED
    BY <2>1, <2>2, ScannerKeepsInv
<1> QED
  BY <1>2, <1>3, <1>4

LEMMA NoteStep ==
  ASSUME IInv, NEW t \in Tasks, NEW f \in Fingerprints,
         Annotate(t, f) \/ UpdateFindingState(t, f)
  PROVE  IInv'
<1>1. /\ states[t][f].known
      /\ states' = [states EXCEPT ![t][f].handled = ~@]
      /\ Request
      /\ UNCHANGED <<scans, managed, rows, alerts, seen, trigger, memory>>
  BY DEF Annotate, UpdateFindingState, Annotated
<1>2. /\ \A u \in Tasks : rows[u] \in Rows /\ states[u] \in States /\ seen[u] \in Ends
      /\ states \in [Tasks -> States]
  BY DEF IInv, TypeOK, Rows, States, Ends
<1> DEFINE T == [states[t] EXCEPT ![f].handled = ~@]
<1>3. states' = [states EXCEPT ![t] = T]
  BY <1>1, <1>2
<1>4. T \in States /\ HistoryInv(rows[t], T, seen[t])
  BY <1>1, <1>2, NoteKeepsHistory DEF IInv
<1> HIDE DEF T
<1>5. states' \in [Tasks -> States] /\ \A u \in Tasks : HistoryInv(rows[u], states'[u], seen[u])
  BY <1>2, <1>3, <1>4 DEF IInv
<1>6. TypeOK'
  BY <1>1, <1>5, CountersType DEF IInv, TypeOK, memory, States
<1>7. CycleInv'
  BY <1>1 DEF IInv, CycleInv, Existing, memory
<1> QED
  BY <1>1, <1>5, <1>6, <1>7 DEF IInv

LEMMA OperatorStep ==
  ASSUME IInv, Operator
  PROVE  IInv'
<1>1. CASE Refresh
  <2>1. TypeOK'
    BY <1>1, CountersType DEF IInv, TypeOK, Refresh, store, memory
  <2>2. CycleInv'
    BY <1>1 DEF IInv, CycleInv, Existing, Refresh, store, memory
  <2> QED
    BY <1>1, <2>1, <2>2 DEF IInv, Refresh, store
<1>2. ASSUME NEW t \in Tasks, Release(t)
      PROVE  IInv'
  <2>1. TypeOK'
    BY <1>2, CountersType DEF IInv, TypeOK, Release, store, memory
  <2>2. CycleInv'
    BY <1>2 DEF IInv, CycleInv, Existing, Release, store, memory
  <2> QED
    BY <1>2, <2>1, <2>2 DEF IInv, Release, store
<1>3. ASSUME NEW t \in Tasks, NEW n \in Scans, AcknowledgeScanAlert(t, n)
      PROVE  IInv'
  <2>1. alerts' \in [Tasks -> [Scans -> {"none", "open", "acknowledged"}]]
    BY <1>3 DEF IInv, TypeOK, AcknowledgeScanAlert
  <2>2. TypeOK'
    BY <1>3, <2>1, CountersType DEF IInv, TypeOK, AcknowledgeScanAlert, memory
  <2>3. CycleInv'
    BY <1>3 DEF IInv, CycleInv, Existing, AcknowledgeScanAlert, memory
  <2> QED
    BY <1>3, <2>2, <2>3 DEF IInv, AcknowledgeScanAlert
<1> QED
  BY <1>1, <1>2, <1>3, NoteStep DEF Operator

-----------------------------------------------------------------------------
(* The steps of a cycle *)

LEMMA Types ==
  ASSUME TypeOK
  PROVE  /\ rows \in [Tasks -> Rows] /\ states \in [Tasks -> States] /\ seen \in [Tasks -> Ends]
         /\ jobs \in [Tasks -> [Scans -> JobKinds]]
         /\ fetched \in [Tasks -> [Scans -> Content]]
         /\ \A t \in Tasks : rows[t] \in Rows /\ states[t] \in States /\ seen[t] \in Ends
BY DEF TypeOK, Rows, States, Ends

\* The part of the type invariant about rows that is not a type.
WithinAttempts(R) ==
    \A n \in Scans :
        /\ R[n].attempts <= MaxAttempts
        /\ R[n].state = "imported" <=> R[n].content # NoContent

LEMMA ListingIsExisting ==
  ASSUME IInv, NEW failing
  PROVE  /\ Listing(failing) \in [Tasks -> Listed]
         /\ \A t \in Tasks, n \in Scans : Listing(failing)[t].last = n => n \in Existing(t)
<1>1. ASSUME NEW t \in Tasks
      PROVE  /\ Latest(t) \in 0 .. MaxScans
             /\ LatestStatus(t) \in {"none", "running", "done", "interrupted"}
             /\ \A n \in Scans : Latest(t) = n => n \in Existing(t)
  <2>1. \A n \in Scans : scans[t][n].status \in {"none", "running", "done", "interrupted", "gone"}
    BY DEF IInv, TypeOK, Content
  <2>2. Visible(t) \subseteq Scans /\ Visible(t) \subseteq Existing(t) /\ Visible(t) \subseteq Times
    BY ScansAreFinite DEF Visible, Existing
  <2>3. CASE Visible(t) = {}
    <3>1. Latest(t) = 0 /\ LatestStatus(t) = "none"
      BY <2>3 DEF Latest, LatestStatus
    <3>2. 0 \in 0 .. MaxScans /\ 0 \notin Scans
      BY ScansAreFinite DEF Times
    <3> QED
      BY <3>1, <3>2
  <2>4. CASE Visible(t) # {}
    <3>1. \E n \in Visible(t) : \A m \in Visible(t) : m <= n
      BY <2>2, <2>4, LastTime
    <3>2. Latest(t) \in Visible(t)
      BY <2>4, <3>1 DEF Latest
    <3>3. Latest(t) \in Scans /\ Latest(t) # 0
      BY <2>2, <3>2, ScansAreFinite
    <3>4. LatestStatus(t) = scans[t][Latest(t)].status
      BY <3>3 DEF LatestStatus
    <3>5. LatestStatus(t) \in {"running", "done", "interrupted"}
      BY <2>1, <3>2, <3>4 DEF Visible
    <3> QED
      BY <2>2, <3>2, <3>3, <3>5, ScansAreFinite DEF Times
  <2> QED
    BY <2>3, <2>4
<1> QED
  BY <1>1 DEF Listing, Listed

LEMMA BeginStep ==
  ASSUME IInv, NEW requested \in BOOLEAN, Begin(requested)
  PROVE  IInv'
<1>1. TypeOK /\ CycleInv
  BY DEF IInv
<1>2. /\ pc = "idle"
      /\ UNCHANGED <<scans, managed, states, alerts, seen, jobs, fetched, aborted>>
      /\ trigger' \in BOOLEAN
      /\ rows' = IF requested THEN [t \in Tasks |-> ResetFailures(rows[t])] ELSE rows
      /\ waiting' = IF requested THEN {} ELSE waiting
  BY <1>1 DEF Begin, TypeOK
<1>3. ASSUME NEW t \in Tasks
      PROVE  /\ rows'[t] \in Rows
             /\ HistoryInv(rows'[t], states[t], seen[t])
             /\ WithinAttempts(rows'[t])
             /\ \A n \in Scans : rows'[t][n].state = rows[t][n].state
  <2>1. rows[t] \in Rows /\ states[t] \in States /\ seen[t] \in Ends
    BY <1>1, Types
  <2>2. HistoryInv(rows[t], states[t], seen[t]) /\ WithinAttempts(rows[t])
    BY <1>1 DEF IInv, TypeOK, WithinAttempts
  <2>3. CASE ~requested
    BY <1>2, <2>1, <2>2, <2>3
  <2>4. CASE requested
    <3>1. rows'[t] = ResetFailures(rows[t])
      BY <1>2, <2>4
    <3>2. /\ ResetFailures(rows[t]) \in Rows
          /\ HistoryInv(ResetFailures(rows[t]), states[t], seen[t])
      BY <2>1, <2>2, ResetKeepsHistory
    <3>3. ASSUME NEW n \in Scans
          PROVE  /\ ResetFailures(rows[t])[n].state = rows[t][n].state
                 /\ ResetFailures(rows[t])[n].content = rows[t][n].content
                 /\ ResetFailures(rows[t])[n].attempts \in {0, rows[t][n].attempts}
      BY <2>1 DEF ResetFailures, Rows, Row
    <3>4. MaxAttempts \in Nat
      BY SyncAssumption
    <3>5. WithinAttempts(ResetFailures(rows[t]))
      BY <2>2, <3>3, <3>4 DEF WithinAttempts
    <3> QED
      BY <3>1, <3>2, <3>3, <3>5
  <2> QED
    BY <2>3, <2>4
<1>4. rows' \in [Tasks -> Rows]
  <2>1. DOMAIN rows' = Tasks /\ rows' = [t \in Tasks |-> rows'[t]]
    BY <1>1, <1>2, Types
  <2> QED
    BY <1>3, <2>1
<1>5. /\ listing' \in [Tasks -> Listed]
      /\ \A t \in Tasks, n \in Scans : listing'[t].last = n => n \in Existing(t)
      /\ pc' \in {"idle", "listed"}
      /\ Fault \/ UNCHANGED counters
  <2>1. ASSUME NEW failing, pc' = "listed", listing' = Listing(failing), UNCHANGED counters
        PROVE  /\ listing' \in [Tasks -> Listed]
               /\ \A t \in Tasks, n \in Scans : listing'[t].last = n => n \in Existing(t)
               /\ pc' \in {"idle", "listed"}
    BY <2>1, ListingIsExisting
  <2>2. CASE Fault /\ UNCHANGED <<pc, listing>>
    BY <1>1, <1>2, <2>2 DEF TypeOK, CycleInv
  <2> QED
    BY <2>1, <2>2 DEF Begin
<1>6. TypeOK'
  BY <1>1, <1>2, <1>3, <1>4, <1>5, CountersType DEF TypeOK, WithinAttempts, Rows
<1>7. CycleInv'
  BY <1>1, <1>2, <1>3, <1>5 DEF CycleInv, Existing
<1> QED
  BY <1>2, <1>3, <1>6, <1>7 DEF IInv

LEMMA DiscoverStep ==
  ASSUME IInv, Discover
  PROVE  IInv'
<1>1. TypeOK /\ CycleInv
  BY DEF IInv
<1>2. /\ pc = "listed" /\ pc' \in {"idle", "importing"}
      /\ listing' = NothingListed
      /\ UNCHANGED <<scans, managed, rows, states, seen, trigger, fetched, aborted, waiting>>
      /\ (jobs' = Discovered /\ pc' = "importing") \/ jobs' = jobs
      /\ \E tasks \in SUBSET Tasks : alerts' = Alerted(tasks)
      /\ Fault \/ UNCHANGED counters
  BY DEF Discover
<1>3. alerts' \in [Tasks -> [Scans -> {"none", "open", "acknowledged"}]]
  BY <1>1, <1>2 DEF TypeOK, Alerted
<1>4. listing' \in [Tasks -> Listed] /\ \A t \in Tasks : listing'[t].last = 0
  BY <1>2, ScansAreFinite DEF NothingListed, Listed, Times
<1>5. Discovered \in [Tasks -> [Scans -> JobKinds]]
  BY DEF Discovered, JobKinds
<1>6. TypeOK'
  BY <1>1, <1>2, <1>3, <1>4, <1>5, CountersType DEF TypeOK
<1>7. ASSUME NEW t \in Tasks, NEW n \in Scans
      PROVE  /\ jobs'[t][n] # "none" => n \in Existing(t) /\ pc' = "importing"
             /\ jobs'[t][n] = "new" => rows[t][n].state = "none"
             /\ jobs'[t][n] = "retry" => rows[t][n].state = "failed" /\ rows[t][n].attempts < MaxAttempts
             /\ jobs'[t][n] # "fetched"
  <2>1. CASE jobs' = jobs
    BY <1>1, <1>2, <2>1 DEF CycleInv
  <2>2. CASE jobs' = Discovered /\ pc' = "importing"
    <3>1. jobs'[t][n] = IF IsNew(t, n) THEN "new" ELSE IF IsRetry(t, n) THEN "retry" ELSE "none"
      BY <2>2 DEF Discovered
    <3>2. IsNew(t, n) => n \in Existing(t) /\ rows[t][n].state = "none"
      BY <1>1 DEF IsNew, CycleInv
    <3>3. IsRetry(t, n) => /\ n \in Existing(t)
                           /\ rows[t][n].state = "failed" /\ rows[t][n].attempts < MaxAttempts
      BY <1>1 DEF IsRetry, Retryable, CycleInv
    <3> QED
      BY <2>2, <3>1, <3>2, <3>3
  <2> QED
    BY <1>2, <2>1, <2>2
<1>8. CycleInv'
  <2>1. \A n \in Scans : n # 0
    BY ScansAreFinite
  <2>2. \A t \in Tasks : Existing(t)' = Existing(t)
    BY <1>2 DEF Existing
  <2> QED
    BY <1>1, <1>2, <1>4, <1>7, <2>1, <2>2 DEF CycleInv
<1> QED
  BY <1>2, <1>6, <1>8 DEF IInv

\* A job that ends leaves the others as they are.
LEMMA JobEnds ==
  ASSUME TypeOK, NEW t \in Tasks, NEW n \in Scans, NEW kind \in JobKinds,
         jobs' = [jobs EXCEPT ![t][n] = kind]
  PROVE  /\ jobs' \in [Tasks -> [Scans -> JobKinds]]
         /\ jobs'[t][n] = kind
         /\ \A u \in Tasks, m \in Scans : u # t \/ m # n => jobs'[u][m] = jobs[u][m]
BY Types

LEMMA FetchStep ==
  ASSUME IInv, NEW t \in Tasks, NEW n \in Scans, Fetch(t, n)
  PROVE  IInv'
<1>1. TypeOK /\ CycleInv
  BY DEF IInv
<1>2. /\ pc = "importing" /\ jobs[t][n] \in {"new", "retry"}
      /\ scans[t][n].status # "gone"
      /\ jobs' = [jobs EXCEPT ![t][n] = "fetched"]
      /\ fetched' = [fetched EXCEPT ![t][n] = scans[t][n]]
      /\ UNCHANGED <<scans, managed, store, trigger, pc, listing, aborted, waiting, counters>>
  BY DEF Fetch, CanFetch
<1>3. /\ jobs' \in [Tasks -> [Scans -> JobKinds]]
      /\ jobs'[t][n] = "fetched"
      /\ \A u \in Tasks, m \in Scans : u # t \/ m # n => jobs'[u][m] = jobs[u][m]
  BY <1>1, <1>2, JobEnds DEF JobKinds
<1>4. /\ scans[t][n] \in Content /\ scans[t][n].end \in {0, n}
      /\ scans[t][n].status \notin {"none", "gone"}
  BY <1>1, <1>2 DEF TypeOK, CycleInv, Existing
<1>5. /\ fetched' \in [Tasks -> [Scans -> Content]]
      /\ fetched'[t][n] = scans[t][n]
      /\ \A u \in Tasks, m \in Scans : u # t \/ m # n => fetched'[u][m] = fetched[u][m]
  BY <1>1, <1>2, <1>4, Types
<1>6. TypeOK'
  BY <1>1, <1>2, <1>3, <1>5 DEF TypeOK, store, counters
<1>7. CycleInv'
  <2>1. \A u \in Tasks : Existing(u)' = Existing(u)
    BY <1>2 DEF Existing
  <2>2. ASSUME NEW u \in Tasks, NEW m \in Scans, u # t \/ m # n
        PROVE  jobs'[u][m] = jobs[u][m] /\ fetched'[u][m] = fetched[u][m]
    BY <1>3, <1>5, <2>2
  <2> QED
    BY <1>1, <1>2, <1>3, <1>4, <1>5, <2>1, <2>2 DEF CycleInv, store
<1> QED
  BY <1>2, <1>6, <1>7 DEF IInv, store

\* A job that ends with what one statement makes of its row.
LEMMA RowStep ==
  ASSUME IInv, NEW t \in Tasks, NEW n \in Scans, jobs[t][n] # "none",
         NEW Q \in Rows, HistoryInv(Q, states[t], seen[t]), WithinAttempts(Q),
         \A m \in Scans : m # n => Q[m] = rows[t][m],
         rows' = [rows EXCEPT ![t] = Q],
         jobs' = [jobs EXCEPT ![t][n] = "none"],
         waiting' \in SUBSET (Tasks \X Scans),
         Fault \/ UNCHANGED counters,
         UNCHANGED <<scans, managed, states, alerts, seen, trigger, pc, listing, fetched, aborted>>
  PROVE  IInv'
<1>1. TypeOK /\ CycleInv
  BY DEF IInv
<1>2. /\ jobs' \in [Tasks -> [Scans -> JobKinds]]
      /\ jobs'[t][n] = "none"
      /\ \A u \in Tasks, m \in Scans : u # t \/ m # n => jobs'[u][m] = jobs[u][m]
  BY <1>1, JobEnds DEF JobKinds
<1>3. /\ rows' \in [Tasks -> Rows] /\ rows'[t] = Q
      /\ \A u \in Tasks : u # t => rows'[u] = rows[u]
  BY <1>1, Types
<1>4. \A u \in Tasks : WithinAttempts(rows'[u])
  BY <1>1, <1>3 DEF TypeOK, WithinAttempts
<1>5. TypeOK'
  BY <1>1, <1>2, <1>3, <1>4, CountersType DEF TypeOK, WithinAttempts, Rows
<1>6. CycleInv'
  <2>1. \A u \in Tasks : Existing(u)' = Existing(u)
    BY DEF Existing
  <2>2. n \in Existing(t)
    BY <1>1 DEF CycleInv
  <2>3. ASSUME NEW u \in Tasks, NEW m \in Scans, u # t \/ m # n
        PROVE  jobs'[u][m] = jobs[u][m] /\ rows'[u][m] = rows[u][m]
    BY <1>2, <1>3, <2>3
  <2> QED
    BY <1>1, <1>2, <2>1, <2>2, <2>3 DEF CycleInv
<1>7. \A u \in Tasks : HistoryInv(rows'[u], states[u], seen[u])
  BY <1>3 DEF IInv
<1> QED
  BY <1>5, <1>6, <1>7 DEF IInv

LEMMA FetchFailsStep ==
  ASSUME IInv, NEW t \in Tasks, NEW n \in Scans,
         FetchFails(t, n) \/ FetchFindsNothing(t, n) \/ LoginRefused(t, n) \/ Drop(t, n)
  PROVE  IInv'
<1> DEFINE Failed == RecordFailure(rows[t], n)
           Deleted == DeleteFailure(rows[t], n)
<1>1. TypeOK /\ CycleInv
  BY DEF IInv
<1>2. /\ rows[t] \in Rows /\ states[t] \in States /\ seen[t] \in Ends
      /\ HistoryInv(rows[t], states[t], seen[t])
      /\ WithinAttempts(rows[t])
      /\ rows = [rows EXCEPT ![t] = rows[t]]
  BY <1>1, Types DEF IInv, TypeOK, WithinAttempts
<1>3. /\ jobs[t][n] \in {"new", "retry"}
      /\ jobs' = [jobs EXCEPT ![t][n] = "none"]
      /\ Fault \/ UNCHANGED counters
      /\ UNCHANGED <<scans, managed, states, alerts, seen, trigger, pc, listing, fetched>>
      /\ waiting' \in SUBSET (Tasks \X Scans)
      /\ aborted' \in BOOLEAN
  <2>1. waiting \in SUBSET (Tasks \X Scans) /\ aborted \in BOOLEAN /\ <<t, n>> \in Tasks \X Scans
    BY <1>1 DEF TypeOK
  <2>2. CASE FetchFails(t, n)
    BY <2>1, <2>2 DEF FetchFails, CanFetch
  <2>3. CASE FetchFindsNothing(t, n)
    BY <2>1, <2>3 DEF FetchFindsNothing, CanFetch
  <2>4. CASE LoginRefused(t, n)
    BY <2>1, <2>4 DEF LoginRefused, CanFetch, store
  <2>5. CASE Drop(t, n)
    BY <2>1, <2>5 DEF Drop, store
  <2> QED
    BY <2>2, <2>3, <2>4, <2>5
<1>4. \/ UNCHANGED aborted /\ rows' = [rows EXCEPT ![t] = Failed]
      \/ UNCHANGED aborted /\ rows' = [rows EXCEPT ![t] = Deleted]
      \/ UNCHANGED rows
  BY DEF FetchFails, FetchFindsNothing, LoginRefused, Drop, store
<1>5. CASE UNCHANGED aborted /\ rows' = [rows EXCEPT ![t] = Failed]
  <2>1. Failed \in Rows /\ HistoryInv(Failed, states[t], seen[t])
    BY <1>2, FailureKeepsHistory
  <2>2. /\ \A m \in Scans : m # n => Failed[m] = rows[t][m]
        /\ jobs[t][n] = "new" => rows[t][n].state = "none"
        /\ jobs[t][n] = "retry" =>
               rows[t][n].state = "failed" /\ rows[t][n].attempts < MaxAttempts
    <3>1. \A m \in Scans : m # n => Failed[m] = rows[t][m]
      BY <1>2, RowType DEF RecordFailure, Rows, Row
    <3> HIDE DEF Failed
    <3> QED
      BY <1>1, <3>1 DEF CycleInv
  <2>3. WithinAttempts(Failed)
    <3>1. MaxAttempts \in Nat \ {0} /\ rows[t][n].attempts \in Nat
      BY <1>2, RowType, SyncAssumption
    <3>2. CASE rows[t][n].state = "none"
      <4>1. Failed[n] = [state |-> "failed", attempts |-> 1, id |-> FreshId(rows[t]),
                         content |-> NoContent]
        BY <1>2, <3>2 DEF RecordFailure, Rows
      <4> HIDE DEF Failed
      <4> QED
        BY <1>2, <2>2, <3>1, <4>1 DEF WithinAttempts
    <3>3. CASE rows[t][n].state = "failed" /\ rows[t][n].attempts < MaxAttempts
      <4>1. /\ Failed[n].attempts = rows[t][n].attempts + 1
            /\ Failed[n].state = "failed" /\ Failed[n].content = rows[t][n].content
        BY <1>2, <3>3 DEF RecordFailure, Rows, Row
      <4> HIDE DEF Failed
      <4> QED
        BY <1>2, <2>2, <3>1, <3>3, <4>1 DEF WithinAttempts
    <3> QED
      BY <1>3, <2>2, <3>2, <3>3
  <2> HIDE DEF Failed
  <2> QED
    BY <1>3, <1>5, <2>1, <2>2, <2>3, RowStep
<1>6. CASE UNCHANGED aborted /\ rows' = [rows EXCEPT ![t] = Deleted]
  <2>1. Deleted \in Rows /\ HistoryInv(Deleted, states[t], seen[t])
    BY <1>2, DiscardKeepsHistory
  <2>2. \A m \in Scans : m # n => Deleted[m] = rows[t][m]
    BY <1>2 DEF DeleteFailure, Rows
  <2>3. Deleted[n] \in {rows[t][n], NoRow}
    BY <1>2 DEF DeleteFailure, Rows
  <2>4. /\ NoRow.attempts = 0 /\ NoRow.state = "none" /\ NoRow.content = NoContent
        /\ MaxAttempts \in Nat
    BY SyncAssumption DEF NoRow
  <2> HIDE DEF Deleted
  <2>5. WithinAttempts(Deleted)
    BY <1>2, <2>2, <2>3, <2>4 DEF WithinAttempts
  <2> QED
    BY <1>3, <1>6, <2>1, <2>2, <2>5, RowStep
<1>7. CASE UNCHANGED rows
  <2>1. /\ jobs' \in [Tasks -> [Scans -> JobKinds]]
        /\ jobs'[t][n] = "none"
        /\ \A u \in Tasks, m \in Scans : u # t \/ m # n => jobs'[u][m] = jobs[u][m]
    BY <1>1, <1>3, JobEnds DEF JobKinds
  <2>2. TypeOK'
    BY <1>1, <1>3, <1>7, <2>1, CountersType DEF TypeOK
  <2>3. CycleInv'
    <3>1. \A u \in Tasks : Existing(u)' = Existing(u)
      BY <1>3 DEF Existing
    <3>2. \A u \in Tasks, m \in Scans : jobs'[u][m] \in {jobs[u][m], "none"}
      BY <2>1
    <3> QED
      BY <1>1, <1>3, <1>7, <3>1, <3>2 DEF CycleInv
  <2> QED
    BY <1>3, <1>7, <2>2, <2>3 DEF IInv
<1> QED
  BY <1>4, <1>5, <1>6, <1>7

LEMMA SaveStep ==
  ASSUME IInv, NEW t \in Tasks, NEW n \in Scans, Save(t, n)
  PROVE  IInv'
<1> DEFINE c == fetched[t][n]
           Q == SavedRows(rows[t], n, c)
           T == SavedStates(rows[t], states[t], n, c)
           D == Noted(seen[t], rows[t], n, c)
<1>1. TypeOK /\ CycleInv
  BY DEF IInv
<1>2. /\ rows[t] \in Rows /\ states[t] \in States /\ seen[t] \in Ends
      /\ HistoryInv(rows[t], states[t], seen[t])
      /\ WithinAttempts(rows[t])
  BY <1>1, Types DEF IInv, TypeOK, WithinAttempts
<1>3. /\ jobs[t][n] = "fetched"
      /\ jobs' = [jobs EXCEPT ![t][n] = "none"]
      /\ fetched' = [fetched EXCEPT ![t][n] = NoContent]
      /\ Fault \/ UNCHANGED counters
      /\ UNCHANGED <<scans, managed, alerts, trigger, pc, listing, aborted>>
      /\ waiting' \in SUBSET (Tasks \X Scans)
  BY <1>1 DEF Save, TypeOK
<1>4. c \in Content /\ c.end \in {0, n} /\ c.status # "none" /\ n \in Existing(t)
  BY <1>1, <1>3, Types DEF CycleInv
<1>5. /\ jobs' \in [Tasks -> [Scans -> JobKinds]]
      /\ \A u \in Tasks, m \in Scans : jobs'[u][m] \in {jobs[u][m], "none"}
      /\ jobs'[t][n] = "none"
      /\ \A u \in Tasks, m \in Scans : u # t \/ m # n => jobs'[u][m] = jobs[u][m]
  <2>1. "none" \in JobKinds
    BY DEF JobKinds
  <2>2. jobs \in [Tasks -> [Scans -> JobKinds]]
    BY <1>1, Types
  <2>3. jobs' = [jobs EXCEPT ![t][n] = "none"]
    BY <1>3
  <2>4. /\ jobs' \in [Tasks -> [Scans -> JobKinds]]
        /\ jobs'[t][n] = "none"
        /\ \A u \in Tasks, m \in Scans : u # t \/ m # n => jobs'[u][m] = jobs[u][m]
    BY <2>1, <2>2, <2>3
  <2> QED
    BY <2>4
<1>6. /\ fetched' \in [Tasks -> [Scans -> Content]]
      /\ \A u \in Tasks, m \in Scans : u # t \/ m # n => fetched'[u][m] = fetched[u][m]
  BY <1>1, <1>3, Types, ConstantsHaveType
<1>7. \A u \in Tasks : Existing(u)' = Existing(u)
  BY <1>3 DEF Existing
<1>8. CASE UNCHANGED <<rows, states, seen>>
  <2>1. TypeOK'
    BY <1>1, <1>3, <1>5, <1>6, <1>8, CountersType DEF TypeOK
  <2>2. CycleInv'
    BY <1>1, <1>3, <1>5, <1>6, <1>7, <1>8 DEF CycleInv
  <2> QED
    BY <1>8, <2>1, <2>2 DEF IInv
<1>9. CASE /\ rows' = [rows EXCEPT ![t] = Q]
           /\ states' = [states EXCEPT ![t] = T]
           /\ seen' = [seen EXCEPT ![t] = D]
  <2>1. /\ Q \in Rows /\ T \in States /\ D \in Ends /\ HistoryInv(Q, T, D)
        /\ \A m \in Scans : m # n => Q[m] = rows[t][m]
        /\ Q[n].attempts = rows[t][n].attempts /\ Q[n].state = "imported"
        /\ Q[n].content \in {rows[t][n].content, c}
        /\ rows[t][n].state # "imported" => Q[n].content = c
    BY <1>2, <1>4, SaveKeepsHistory
  <2>2. c # NoContent
    BY <1>4 DEF NoContent
  <2> HIDE DEF Q, T, D, c
  <2>3. WithinAttempts(Q)
    BY <1>2, <2>1, <2>2 DEF WithinAttempts
  <2>4. /\ rows' \in [Tasks -> Rows] /\ rows'[t] = Q
        /\ \A u \in Tasks : u # t => rows'[u] = rows[u]
    BY <1>1, <1>9, <2>1, Types
  <2>5. /\ states' \in [Tasks -> States] /\ states'[t] = T
        /\ \A u \in Tasks : u # t => states'[u] = states[u]
    BY <1>1, <1>9, <2>1, Types
  <2>6. /\ seen' \in [Tasks -> Ends] /\ seen'[t] = D
        /\ \A u \in Tasks : u # t => seen'[u] = seen[u]
    BY <1>1, <1>9, <2>1, Types
  <2>7. \A u \in Tasks : WithinAttempts(rows'[u])
    <3>1. \A u \in Tasks : WithinAttempts(rows[u])
      BY <1>1 DEF TypeOK, WithinAttempts
    <3>2. ASSUME NEW u \in Tasks
          PROVE  rows'[u] = Q \/ rows'[u] = rows[u]
      BY <2>4
    <3> QED
      BY <2>3, <3>1, <3>2
  <2>8. TypeOK'
    BY <1>1, <1>3, <1>5, <1>6, <2>4, <2>5, <2>6, <2>7, CountersType
    DEF TypeOK, WithinAttempts, Rows, States, Ends
  <2>9. CycleInv'
    <3>1. ASSUME NEW u \in Tasks, NEW m \in Scans, u # t \/ m # n
          PROVE  /\ jobs'[u][m] = jobs[u][m] /\ rows'[u][m] = rows[u][m]
                 /\ fetched'[u][m] = fetched[u][m]
      BY <1>5, <1>6, <2>1, <2>4, <3>1
    <3> QED
      BY <1>1, <1>3, <1>4, <1>5, <1>7, <3>1 DEF CycleInv
  <2>10. \A u \in Tasks : HistoryInv(rows'[u], states'[u], seen'[u])
    BY <2>1, <2>4, <2>5, <2>6 DEF IInv
  <2> QED
    BY <2>8, <2>9, <2>10 DEF IInv
<1> QED
  BY <1>8, <1>9 DEF Save

LEMMA FinishStep ==
  ASSUME IInv, Finish
  PROVE  IInv'
<1>1. TypeOK /\ CycleInv
  BY DEF IInv
<1>2. /\ pc' = "idle" /\ aborted' = FALSE
      /\ jobs = NoJobs
      /\ Fault \/ UNCHANGED counters
      /\ UNCHANGED <<scans, managed, alerts, seen, trigger, listing, jobs, fetched, waiting>>
  BY DEF Finish
<1>3. \A t \in Tasks, n \in Scans : jobs[t][n] = "none"
  BY <1>2 DEF NoJobs
<1>4. \A t \in Tasks : Existing(t)' = Existing(t)
  BY <1>2 DEF Existing
<1>5. CASE UNCHANGED <<rows, states>>
  <2>1. TypeOK'
    BY <1>1, <1>2, <1>5, CountersType DEF TypeOK
  <2>2. CycleInv'
    BY <1>1, <1>2, <1>3, <1>4, <1>5 DEF CycleInv
  <2> QED
    BY <1>2, <1>5, <2>1, <2>2 DEF IInv
<1>6. CASE /\ rows' = [t \in Tasks |-> WithoutRows(rows[t], Expired(rows[t], states[t]))]
           /\ states' = [t \in Tasks |->
                            WithoutSnapshots(states[t], Expired(rows[t], states[t]))]
  <2>1. ASSUME NEW t \in Tasks
        PROVE  /\ rows'[t] \in Rows /\ states'[t] \in States
               /\ HistoryInv(rows'[t], states'[t], seen[t])
               /\ \A n \in Scans : rows'[t][n] \in {rows[t][n], NoRow}
    <3>1. /\ rows'[t] = WithoutRows(rows[t], Expired(rows[t], states[t]))
          /\ states'[t] = WithoutSnapshots(states[t], Expired(rows[t], states[t]))
      BY <1>6
    <3>2. /\ rows[t] \in Rows /\ states[t] \in States /\ seen[t] \in Ends
          /\ HistoryInv(rows[t], states[t], seen[t])
      BY <1>1, Types DEF IInv
    <3> QED
      BY <3>1, <3>2, PruneKeepsHistory
  <2>2. rows' \in [Tasks -> Rows] /\ states' \in [Tasks -> States]
    BY <1>6, <2>1
  <2>3. /\ NoRow.attempts = 0 /\ NoRow.state = "none" /\ NoRow.content = NoContent
        /\ MaxAttempts \in Nat
    BY SyncAssumption DEF NoRow
  <2>4. ASSUME NEW t \in Tasks
        PROVE  WithinAttempts(rows'[t])
    <3>1. WithinAttempts(rows[t])
      BY <1>1 DEF TypeOK, WithinAttempts
    <3>2. ASSUME NEW n \in Scans
          PROVE  /\ rows'[t][n].attempts <= MaxAttempts
                 /\ rows'[t][n].state = "imported" <=> rows'[t][n].content # NoContent
      <4>1. CASE rows'[t][n] = rows[t][n]
        BY <3>1, <4>1 DEF WithinAttempts
      <4>2. CASE rows'[t][n] = NoRow
        BY <2>3, <4>2
      <4> QED
        BY <2>1, <4>1, <4>2
    <3> QED
      BY <3>2 DEF WithinAttempts
  <2>5. TypeOK'
    BY <1>1, <1>2, <2>2, <2>4, CountersType DEF TypeOK, WithinAttempts, Rows, States
  <2>6. CycleInv'
    BY <1>1, <1>2, <1>3, <1>4, <2>1, <2>3 DEF CycleInv
  <2> QED
    BY <1>2, <2>1, <2>5, <2>6 DEF IInv
<1> QED
  BY <1>5, <1>6 DEF Finish

\* Steps that leave the history alone and at most forget what the cycle knew.
LEMMA ForgettingStep ==
  ASSUME IInv,
         BeginFails \/ Restart \/ (\E t \in Tasks, n \in Scans : BecomeDue(t, n)) \/ UNCHANGED vars
  PROVE  IInv'
<1>1. TypeOK /\ CycleInv
  BY DEF IInv
<1>2. /\ UNCHANGED <<scans, managed, rows, states, alerts, seen>>
      /\ \/ UNCHANGED <<pc, listing, jobs, fetched, aborted>>
         \/ /\ pc' = "idle" /\ listing' = NothingListed /\ jobs' = NoJobs
            /\ fetched' = NothingFetched /\ aborted' = FALSE
      /\ trigger' \in BOOLEAN /\ waiting' \in SUBSET (Tasks \X Scans)
      /\ Fault \/ UNCHANGED counters
  BY <1>1 DEF BeginFails, Restart, BecomeDue, TypeOK, vars, store, memory
<1>3. /\ NothingListed \in [Tasks -> Listed] /\ NoJobs \in [Tasks -> [Scans -> JobKinds]]
      /\ NothingFetched \in [Tasks -> [Scans -> Content]]
      /\ \A t \in Tasks : NothingListed[t].last = 0 /\ 0 \notin Scans
      /\ \A t \in Tasks, n \in Scans : NoJobs[t][n] = "none"
  BY ConstantsHaveType, ScansAreFinite
  DEF NothingListed, NoJobs, NothingFetched, Listed, JobKinds, Times
<1>4. TypeOK'
  BY <1>1, <1>2, <1>3, CountersType, ZenonT(60) DEF TypeOK
<1>5. CycleInv'
  <2>1. \A t \in Tasks : Existing(t)' = Existing(t)
    BY <1>2 DEF Existing
  <2>2. CASE UNCHANGED <<pc, listing, jobs, fetched, aborted>>
    BY <1>1, <1>2, <2>1, <2>2 DEF CycleInv
  <2>3. CASE pc' = "idle" /\ listing' = NothingListed /\ jobs' = NoJobs
    BY <1>1, <1>2, <1>3, <2>1, <2>3 DEF CycleInv
  <2> QED
    BY <1>2, <2>2, <2>3
<1> QED
  BY <1>2, <1>4, <1>5 DEF IInv

-----------------------------------------------------------------------------
(* The invariant *)

LEMMA InitInv ==
  ASSUME Init
  PROVE  IInv
<1>1. /\ NothingListed \in [Tasks -> Listed] /\ NoJobs \in [Tasks -> [Scans -> JobKinds]]
      /\ NoJobs \in [Tasks -> [Scans -> {"none", "open", "acknowledged"}]]
      /\ NothingFetched \in [Tasks -> [Scans -> Content]]
      /\ \A t \in Tasks : NothingListed[t].last = 0 /\ 0 \notin Scans
      /\ \A t \in Tasks, n \in Scans : NoJobs[t][n] = "none" /\ NothingFetched[t][n] = NoContent
  BY ConstantsHaveType, ScansAreFinite
  DEF NothingListed, NoJobs, NothingFetched, Listed, JobKinds, Times
<1>2. /\ NoRow.state = "none" /\ NoRow.attempts = 0 /\ NoRow.content = NoContent
      /\ NoContent.end = 0
      /\ NoState.known = FALSE /\ NoState.present = FALSE /\ NoState.handled = FALSE
      /\ MaxAttempts \in Nat /\ MaxFaults \in Nat /\ MaxRequests \in Nat
  BY SyncAssumption DEF NoRow, NoContent, NoState
<1>3. TypeOK
  <2>1. /\ rows \in [Tasks -> [Scans -> Row]]
        /\ states \in [Tasks -> [Fingerprints -> State]]
        /\ seen \in [Tasks -> [Fingerprints -> SUBSET Times]]
    BY ConstantsHaveType DEF Init
  <2>2. \A t \in Tasks, n \in Scans :
            /\ rows[t][n].attempts <= MaxAttempts
            /\ rows[t][n].state = "imported" <=> rows[t][n].content # NoContent
    <3>1. \A t \in Tasks, n \in Scans : rows[t][n] = NoRow
      BY DEF Init
    <3> QED
      BY <1>2, <3>1
  <2>3. faults \in 0 .. MaxFaults /\ requests \in 0 .. MaxRequests
    BY <1>2 DEF Init
  <2>4. /\ scans \in [Tasks -> [Scans -> Content]] /\ managed \in SUBSET Tasks
        /\ alerts \in [Tasks -> [Scans -> {"none", "open", "acknowledged"}]]
        /\ trigger \in BOOLEAN /\ pc \in {"idle", "listed", "importing"}
        /\ listing \in [Tasks -> Listed] /\ jobs \in [Tasks -> [Scans -> JobKinds]]
        /\ fetched \in [Tasks -> [Scans -> Content]] /\ aborted \in BOOLEAN
        /\ waiting \in SUBSET (Tasks \X Scans)
    BY <1>1 DEF Init
  <2> QED
    BY <2>1, <2>2, <2>3, <2>4 DEF TypeOK
<1>4. CycleInv
  BY <1>1, <1>2 DEF Init, CycleInv
<1>5. ASSUME NEW t \in Tasks
      PROVE  HistoryInv(rows[t], states[t], seen[t])
  <2>1. /\ \A n \in Scans : rows[t][n] = NoRow
        /\ \A f \in Fingerprints : states[t][f] = NoState /\ seen[t][f] = {}
    BY DEF Init
  <2>2. Imported(rows[t]) = {} /\ Distinct(rows[t])
    BY <1>2, <2>1 DEF Imported, Distinct
  <2>3. RowsInv(rows[t], seen[t])
    BY <2>1, <2>2 DEF RowsInv
  <2>4. StatesInv(states[t], seen[t])
    BY <1>2, <2>1 DEF StatesInv
  <2> QED
    BY <2>2, <2>3, <2>4 DEF HistoryInv, IsNewest
<1> QED
  BY <1>3, <1>4, <1>5 DEF IInv

LEMMA NextInv ==
  ASSUME IInv, [Next]_vars
  PROVE  IInv'
<1>1. ASSUME Cycle
      PROVE  IInv'
  BY <1>1, BeginStep, ForgettingStep, DiscoverStep, FinishStep, FetchStep, FetchFailsStep,
     SaveStep DEF Cycle
<1>2. ASSUME Scanner
      PROVE  IInv'
  BY <1>2, ScannerStep DEF Scanner
<1>3. ASSUME Operator
      PROVE  IInv'
  BY <1>3, OperatorStep
<1> QED
  BY <1>1, <1>2, <1>3, ForgettingStep DEF Next

LEMMA Invariance == Spec => []IInv
<1>1. Init => IInv
  BY InitInv
<1>2. IInv /\ [Next]_vars => IInv'
  BY NextInv
<1> QED
  BY <1>1, <1>2, PTL DEF Spec


-----------------------------------------------------------------------------
(* What the invariant says of a task *)

LEMMA HistoryOf ==
  ASSUME IInv, NEW t \in Tasks
  PROVE  /\ rows[t] \in Rows /\ states[t] \in States /\ seen[t] \in Ends
         /\ HistoryInv(rows[t], states[t], seen[t])
         /\ Distinct(rows[t])
BY Types DEF IInv, HistoryInv, RowsInv

\* A finding that is present was imported.
LEMMA PresentIsImported ==
  ASSUME NEW R \in Rows, NEW S \in States, NEW E \in Ends, HistoryInv(R, S, E),
         NEW f \in Fingerprints, S[f].present
  PROVE  \E n \in Scans : IsNewest(R, n) /\ Decides(R, S, E, n)
<1>1. Imported(R) # {}
  BY DEF HistoryInv, RowsInv, StatesInv
<1>2. PICK n \in Imported(R) : IsNewest(R, n)
  BY <1>1, NewestExists
<1> QED
  BY <1>2 DEF HistoryInv, Imported

\* What is shown are the findings of the newest report.
LEMMA NewestFound ==
  ASSUME NEW R \in Rows, NEW S \in States, NEW E \in Ends, HistoryInv(R, S, E),
         NEW n \in Scans, IsNewest(R, n)
  PROVE  Shown(R, S) = R[n].content.found
<1>1. Decides(R, S, E, n) /\ n \in Imported(R) /\ R[n].content.found \subseteq Fingerprints
  BY RowType DEF HistoryInv, IsNewest
<1>2. ASSUME NEW f \in Fingerprints
      PROVE  f \in Shown(R, S) <=> f \in R[n].content.found
  BY <1>1 DEF Decides, Shown
<1> QED
  BY <1>1, <1>2 DEF Shown

LEMMA NothingImported ==
  ASSUME NEW R \in Rows, NEW S \in States, NEW E \in Ends, HistoryInv(R, S, E),
         Imported(R) = {}
  PROVE  /\ \A f \in Fingerprints : ~S[f].present
         /\ Shown(R, S) = {}
<1>1. \A f \in Fingerprints : ~S[f].present
  BY DEF HistoryInv, RowsInv, StatesInv
<1> QED
  BY <1>1 DEF Shown

LEMMA InvNewest == IInv => CurrentIsNewest
<1> SUFFICES ASSUME IInv, NEW t \in Tasks
             PROVE  /\ Imported(rows[t]) = {} => \A f \in Fingerprints : ~states[t][f].present
                    /\ \A n \in Scans : IsNewest(rows[t], n) =>
                           /\ Shown(rows[t], states[t]) = rows[t][n].content.found
                           /\ \A f \in Fingerprints :
                                  states[t][f].present => f \in rows[t][n].content.found
  BY DEF CurrentIsNewest
<1>1. /\ rows[t] \in Rows /\ states[t] \in States /\ seen[t] \in Ends
      /\ HistoryInv(rows[t], states[t], seen[t])
  BY HistoryOf
<1>2. Imported(rows[t]) = {} => \A f \in Fingerprints : ~states[t][f].present
  BY <1>1, NothingImported
<1>3. ASSUME NEW n \in Scans, IsNewest(rows[t], n)
      PROVE  /\ Shown(rows[t], states[t]) = rows[t][n].content.found
             /\ \A f \in Fingerprints :
                    states[t][f].present => f \in rows[t][n].content.found
  BY <1>1, <1>3, NewestFound DEF HistoryInv, Decides
<1> QED
  BY <1>2, <1>3

\* The date a report page shows is one of those seen.
LEMMA FirstSeenIsSeen ==
  ASSUME NEW R \in Rows, NEW E \in Ends, RowsInv(R, E),
         NEW f \in Fingerprints, NEW n \in Imported(R), f \in R[n].content.found
  PROVE  FirstSeen(R, f) \in E[f]
<1> DEFINE ends == {R[m].content.end : m \in {m \in Imported(R) : f \in R[m].content.found}}
<1>1. ends \subseteq E[f] /\ ends # {}
  BY DEF RowsInv
<1>2. E[f] \subseteq Times
  BY DEF Ends
<1>3. FirstSeen(R, f) = CHOOSE e \in ends : \A other \in ends : e <= other
  BY DEF FirstSeen
<1> HIDE DEF ends
<1>4. \E e \in ends : \A other \in ends : e <= other
  BY <1>1, <1>2, LeastTime
<1>5. FirstSeen(R, f) \in ends
  BY <1>3, <1>4
<1> QED
  BY <1>1, <1>5

LEMMA InvDates == IInv => DatesSurviveExpiry
<1> SUFFICES ASSUME IInv, NEW t \in Tasks, NEW f \in Fingerprints
             PROVE  /\ states[t][f].known <=> seen[t][f] # {}
                    /\ states[t][f].known =>
                           /\ states[t][f].first \in seen[t][f]
                           /\ \A end \in seen[t][f] : states[t][f].first <= end
                    /\ states[t][f].present => \A end \in seen[t][f] : end <= states[t][f].last
                    /\ \A n \in Imported(rows[t]) : f \in rows[t][n].content.found =>
                           states[t][f].first <= FirstSeen(rows[t], f)
  BY DEF DatesSurviveExpiry
<1>1. /\ rows[t] \in Rows /\ states[t] \in States /\ seen[t] \in Ends
      /\ HistoryInv(rows[t], states[t], seen[t])
  BY HistoryOf
<1>2. RowsInv(rows[t], seen[t]) /\ StatesInv(states[t], seen[t])
  BY <1>1 DEF HistoryInv
<1>3. /\ states[t][f].known <=> seen[t][f] # {}
      /\ states[t][f].known =>
             /\ states[t][f].first \in seen[t][f]
             /\ \A end \in seen[t][f] : states[t][f].first <= end
  BY <1>2 DEF StatesInv
<1>4. ASSUME states[t][f].present
      PROVE  \A end \in seen[t][f] : end <= states[t][f].last
  <2>1. PICK n \in Scans : Decides(rows[t], states[t], seen[t], n)
    BY <1>1, <1>4, PresentIsImported
  <2> QED
    BY <1>4, <2>1 DEF Decides
<1>5. ASSUME NEW n \in Imported(rows[t]), f \in rows[t][n].content.found
      PROVE  states[t][f].first <= FirstSeen(rows[t], f)
  <2>1. FirstSeen(rows[t], f) \in seen[t][f]
    BY <1>1, <1>2, <1>5, FirstSeenIsSeen
  <2> QED
    BY <1>3, <2>1
<1> QED
  BY <1>3, <1>4, <1>5

LEMMA InvPages == IInv => RecurringOnBothPages
<1> SUFFICES ASSUME IInv, NEW t \in Tasks, NEW n \in Scans,
                    IsNewest(rows[t], n), rows[t][n].content.end # 0,
                    NEW f \in rows[t][n].content.found,
                    ReportLifecycle(rows[t], n, f) = "recurring"
             PROVE  FindingsLifecycle(states[t], f) = "recurring"
  BY DEF RecurringOnBothPages
<1> DEFINE R == rows[t]
           S == states[t]
           E == seen[t]
           before == UNION {R[p].content.found : p \in {p \in Scans : IsPrevious(R, p, n)}}
<1>1. R \in Rows /\ S \in States /\ E \in Ends /\ HistoryInv(R, S, E)
  BY HistoryOf
<1>2. /\ RowsInv(R, E) /\ StatesInv(S, E) /\ Decides(R, S, E, n)
      /\ n \in Imported(R) /\ f \in Fingerprints
  BY <1>1, RowType DEF HistoryInv, IsNewest
<1>3. f \in before
  <2>1. Lifecycle(before, R[n].content.found, f) = "recurring"
    BY DEF ReportLifecycle
  <2> HIDE DEF before
  <2>2. f \notin before => Lifecycle(before, R[n].content.found, f) = "new"
    BY DEF Lifecycle
  <2> QED
    BY <2>1, <2>2
<1>4. PICK p \in Scans : IsPrevious(R, p, n) /\ f \in R[p].content.found
  BY <1>3
<1>5. p \in Imported(R) /\ After(R, n, p)
  BY <1>4 DEF IsPrevious
<1> HIDE DEF R, S, E, before
<1>6. R[p].content.end \in E[f] /\ R[p].content.end \in {0, p} /\ R[n].content.end = n
  BY <1>2, <1>4, <1>5 DEF RowsInv, R
<1>7. R[p].content.end < R[n].content.end
  <2>1. R[p].content.end <= R[n].content.end /\ p # n
    BY <1>1, <1>5, OrderIsStrict
  <2>2. n \in Nat \ {0} /\ p \in Nat \ {0}
    BY ScansAreFinite
  <2> QED
    BY <1>6, <2>1, <2>2
<1>8. S[f].first <= R[p].content.end /\ S[f].last = R[n].content.end
  BY <1>2, <1>6 DEF StatesInv, Decides, R
<1>9. S[f].first # S[f].last
  <2>1. S[f].first \in Nat /\ R[p].content.end \in Nat /\ R[n].content.end \in Nat
    BY <1>1, <1>2, RowType, StateType
  <2> QED
    BY <1>7, <1>8, <2>1
<1> QED
  BY <1>9 DEF FindingsLifecycle, S


-----------------------------------------------------------------------------
(* What a step does to the current findings of a task *)

EndOf(R) == IF Imported(R) = {} THEN 0 ELSE R[CHOOSE n \in Scans : IsNewest(R, n)].content.end
Exposed(R, S) == [end |-> EndOf(R), found |-> Shown(R, S)]

\* The newest report is the same afterwards,
SameNewest(R, Q) ==
    \A n \in Scans :
        /\ IsNewest(Q, n) <=> IsNewest(R, n)
        /\ IsNewest(R, n) => Q[n].content = R[n].content

\* or it is n, and the one before did not end later.
Superseded(R, Q, n) ==
    /\ IsNewest(Q, n)
    /\ \A m \in Scans : IsNewest(R, m) => R[m].content.end <= Q[n].content.end

LEMMA EndOfNewest ==
  ASSUME NEW R \in Rows, Distinct(R), NEW n \in Scans, IsNewest(R, n)
  PROVE  EndOf(R) = R[n].content.end
<1>1. Imported(R) # {}
  BY DEF IsNewest
<1>2. \A m \in Scans : IsNewest(R, m) => m = n
  BY NewestIsUnique
<1>3. (CHOOSE m \in Scans : IsNewest(R, m)) = n
  BY <1>2
<1> QED
  BY <1>1, <1>3 DEF EndOf

LEMMA NewestOrNone ==
  ASSUME NEW R \in Rows, Distinct(R)
  PROVE  /\ Imported(R) = {} => EndOf(R) = 0 /\ \A n \in Scans : ~IsNewest(R, n)
         /\ Imported(R) # {} => \E n \in Scans : IsNewest(R, n) /\ EndOf(R) = R[n].content.end
<1>1. ASSUME Imported(R) = {}
      PROVE  EndOf(R) = 0 /\ \A n \in Scans : ~IsNewest(R, n)
  BY <1>1 DEF EndOf, IsNewest
<1>2. ASSUME Imported(R) # {}
      PROVE  \E n \in Scans : IsNewest(R, n) /\ EndOf(R) = R[n].content.end
  <2>1. PICK n \in Imported(R) : IsNewest(R, n)
    BY <1>2, NewestExists
  <2>2. n \in Scans
    BY DEF Imported
  <2>3. EndOf(R) = R[n].content.end
    BY <2>1, <2>2, EndOfNewest
  <2> QED
    BY <2>1, <2>2, <2>3
<1> QED
  BY <1>1, <1>2

LEMMA SameIsExposed ==
  ASSUME NEW R \in Rows, NEW S \in States, NEW E \in Ends, HistoryInv(R, S, E),
         NEW Q \in Rows, NEW T \in States, NEW D \in Ends, HistoryInv(Q, T, D),
         SameNewest(R, Q)
  PROVE  Exposed(Q, T) = Exposed(R, S)
<1>1. Distinct(R) /\ Distinct(Q)
  BY DEF HistoryInv, RowsInv
<1>2. CASE Imported(R) = {}
  <2>1. EndOf(R) = 0 /\ Shown(R, S) = {} /\ \A n \in Scans : ~IsNewest(Q, n)
    BY <1>1, <1>2, NewestOrNone, NothingImported DEF SameNewest
  <2>2. Imported(Q) = {}
    BY <1>1, <2>1, NewestOrNone
  <2>3. EndOf(Q) = 0 /\ Shown(Q, T) = {}
    BY <1>1, <2>2, NewestOrNone, NothingImported
  <2> QED
    BY <2>1, <2>3 DEF Exposed
<1>3. CASE Imported(R) # {}
  <2>1. PICK n \in Scans : IsNewest(R, n)
    BY <1>1, <1>3, NewestOrNone
  <2>2. IsNewest(Q, n) /\ Q[n].content = R[n].content
    BY <2>1 DEF SameNewest
  <2>3. EndOf(R) = R[n].content.end /\ Shown(R, S) = R[n].content.found
    BY <1>1, <2>1, EndOfNewest, NewestFound
  <2>4. EndOf(Q) = Q[n].content.end /\ Shown(Q, T) = Q[n].content.found
    BY <1>1, <2>2, EndOfNewest, NewestFound
  <2> QED
    BY <2>2, <2>3, <2>4 DEF Exposed
<1> QED
  BY <1>2, <1>3

LEMMA NewerIsExposed ==
  ASSUME NEW R \in Rows, NEW S \in States, NEW E \in Ends, HistoryInv(R, S, E),
         NEW Q \in Rows, NEW T \in States, NEW D \in Ends, HistoryInv(Q, T, D),
         NEW n \in Scans, Superseded(R, Q, n)
  PROVE  \E end \in Times, found \in SUBSET Fingerprints :
             end >= EndOf(R) /\ Exposed(Q, T) = [end |-> end, found |-> found]
<1>1. Distinct(R) /\ Distinct(Q)
  BY DEF HistoryInv, RowsInv
<1>2. IsNewest(Q, n) /\ Q[n].content.end \in Times /\ Q[n].content.end \in Nat
  BY RowType DEF Superseded
<1>3. Q[n].content.found \in SUBSET Fingerprints
  BY RowType
<1>4. Exposed(Q, T) = [end |-> Q[n].content.end, found |-> Q[n].content.found]
  BY <1>1, <1>2, EndOfNewest, NewestFound DEF Exposed
<1>5. Q[n].content.end >= EndOf(R)
  <2>1. CASE Imported(R) = {}
    BY <1>1, <1>2, <2>1, NewestOrNone
  <2>2. CASE Imported(R) # {}
    <3>1. PICK m \in Scans : IsNewest(R, m) /\ EndOf(R) = R[m].content.end
      BY <1>1, <2>2, NewestOrNone
    <3>2. R[m].content.end <= Q[n].content.end /\ R[m].content.end \in Nat
      BY <3>1, RowType DEF Superseded
    <3> QED
      BY <1>2, <3>1, <3>2
  <2> QED
    BY <2>1, <2>2
<1> QED
  BY <1>2, <1>3, <1>4, <1>5

\* Only an import of a report that becomes the newest changes the newest report, and
\* a step changes that of at most one task.
LEMMA NewestMoves ==
  ASSUME IInv, [Next]_vars
  PROVE  \/ \A t \in Tasks : SameNewest(rows[t], rows'[t])
         \/ \E t \in Tasks, n \in Scans :
                /\ Superseded(rows[t], rows'[t], n)
                /\ \A u \in Tasks : u # t => rows'[u] = rows[u] /\ states'[u] = states[u]
<1>1. \A t \in Tasks : /\ rows[t] \in Rows /\ states[t] \in States /\ seen[t] \in Ends
                       /\ HistoryInv(rows[t], states[t], seen[t])
  BY HistoryOf
<1>2. rows \in [Tasks -> Rows] /\ states \in [Tasks -> States] /\ fetched \in [Tasks -> [Scans -> Content]]
  BY Types DEF IInv
<1>3. ASSUME UNCHANGED rows
      PROVE  \A t \in Tasks : SameNewest(rows[t], rows'[t])
  BY <1>3 DEF SameNewest
<1>4. ASSUME NEW requested \in BOOLEAN, Begin(requested)
      PROVE  \A t \in Tasks : SameNewest(rows[t], rows'[t])
  <2>1. CASE ~requested
    BY <2>1, <1>4 DEF Begin, SameNewest
  <2>2. CASE requested
    <3> SUFFICES ASSUME NEW t \in Tasks
                 PROVE  SameNewest(rows[t], rows'[t])
      OBVIOUS
    <3>1. rows'[t] = ResetFailures(rows[t])
      BY <1>4, <2>2 DEF Begin
    <3>2. \A n \in Scans : IsNewest(ResetFailures(rows[t]), n) <=> IsNewest(rows[t], n)
      BY <1>1, ResetKeepsHistory
    <3>3. \A n \in Imported(rows[t]) : ResetFailures(rows[t])[n] = rows[t][n]
      BY DEF ResetFailures, Imported
    <3> QED
      BY <3>1, <3>2, <3>3 DEF SameNewest, IsNewest
  <2> QED
    BY <2>1, <2>2
<1>5. ASSUME NEW t \in Tasks, NEW n \in Scans,
             rows' = [rows EXCEPT ![t] = RecordFailure(@, n)]
      PROVE  \A u \in Tasks : SameNewest(rows[u], rows'[u])
  <2>1. rows'[t] = RecordFailure(rows[t], n) /\ \A u \in Tasks : u # t => rows'[u] = rows[u]
    BY <1>2, <1>5
  <2>2. \A m \in Scans : IsNewest(RecordFailure(rows[t], n), m) <=> IsNewest(rows[t], m)
    BY <1>1, FailureKeepsHistory
  <2>3. \A m \in Imported(rows[t]) : RecordFailure(rows[t], n)[m] = rows[t][m]
    BY <1>1, RowType DEF RecordFailure, Imported, Rows
  <2>4. SameNewest(rows[t], rows'[t])
    BY <2>1, <2>2, <2>3 DEF SameNewest, IsNewest
  <2> QED
    BY <2>1, <2>4 DEF SameNewest
<1>6. ASSUME NEW t \in Tasks, NEW n \in Scans,
             rows' = [rows EXCEPT ![t] = DeleteFailure(@, n)]
      PROVE  \A u \in Tasks : SameNewest(rows[u], rows'[u])
  <2>1. rows'[t] = DeleteFailure(rows[t], n) /\ \A u \in Tasks : u # t => rows'[u] = rows[u]
    BY <1>2, <1>6
  <2>2. \A m \in Scans : IsNewest(DeleteFailure(rows[t], n), m) <=> IsNewest(rows[t], m)
    BY <1>1, DiscardKeepsHistory
  <2>3. \A m \in Imported(rows[t]) : DeleteFailure(rows[t], n)[m] = rows[t][m]
    BY <1>1 DEF DeleteFailure, Imported, Rows
  <2>4. SameNewest(rows[t], rows'[t])
    BY <2>1, <2>2, <2>3 DEF SameNewest, IsNewest
  <2> QED
    BY <2>1, <2>4 DEF SameNewest
<1>7. ASSUME NEW t \in Tasks, NEW n \in Scans, Save(t, n)
      PROVE  \/ \A u \in Tasks : SameNewest(rows[u], rows'[u])
             \/ /\ Superseded(rows[t], rows'[t], n)
                /\ \A u \in Tasks : u # t => rows'[u] = rows[u] /\ states'[u] = states[u]
  <2> DEFINE c == fetched[t][n]
             Q == SavedRows(rows[t], n, c)
  <2>1. CASE UNCHANGED rows
    BY <2>1, <1>3
  <2>2. CASE /\ rows' = [rows EXCEPT ![t] = Q]
             /\ states' = [states EXCEPT ![t] = SavedStates(rows[t], @, n, c)]
    <3>1. /\ rows'[t] = Q
          /\ \A u \in Tasks : u # t => rows'[u] = rows[u] /\ states'[u] = states[u]
      BY <1>2, <2>2
    <3>2. c \in Content /\ c.end \in {0, n}
      BY <1>2, <1>7 DEF IInv, CycleInv, Save
    <3>3. \/ /\ IsNewest(Q, n) /\ Q[n].content = c
             /\ \A m \in Scans : IsNewest(rows[t], m) => rows[t][m].content.end <= c.end
          \/ \A m \in Scans :
                 /\ IsNewest(Q, m) <=> IsNewest(rows[t], m)
                 /\ IsNewest(rows[t], m) => Q[m] = rows[t][m]
      BY <1>1, <3>2, SaveKeepsHistory
    <3> HIDE DEF Q, c
    <3>4. Superseded(rows[t], Q, n) \/ SameNewest(rows[t], Q)
      BY <3>3 DEF Superseded, SameNewest
    <3> QED
      BY <3>1, <3>4 DEF SameNewest
  <2> QED
    BY <1>7, <2>1, <2>2 DEF Save
<1>8. ASSUME Finish
      PROVE  \A t \in Tasks : SameNewest(rows[t], rows'[t])
  <2>1. CASE UNCHANGED rows
    BY <2>1 DEF SameNewest
  <2>2. CASE rows' = [t \in Tasks |-> WithoutRows(rows[t], Expired(rows[t], states[t]))]
    <3> SUFFICES ASSUME NEW t \in Tasks
                 PROVE  SameNewest(rows[t], rows'[t])
      OBVIOUS
    <3>1. rows'[t] = WithoutRows(rows[t], Expired(rows[t], states[t]))
      BY <2>2
    <3>2. /\ \A n \in Scans : IsNewest(rows'[t], n) <=> IsNewest(rows[t], n)
          /\ \A n \in Scans : IsNewest(rows[t], n) => rows'[t][n] = rows[t][n]
      BY <1>1, <3>1, PruneKeepsHistory
    <3> QED
      BY <3>2 DEF SameNewest
  <2> QED
    BY <1>8, <2>1, <2>2 DEF Finish
<1>9. CASE Cycle
  <2>1. ASSUME NEW t \in Tasks, NEW n \in Scans,
               FetchFails(t, n) \/ FetchFindsNothing(t, n)
        PROVE  \A u \in Tasks : SameNewest(rows[u], rows'[u])
    BY <1>3, <1>5, <1>6, <2>1 DEF FetchFails, FetchFindsNothing
  <2>2. ASSUME NEW t \in Tasks, NEW n \in Scans,
               Fetch(t, n) \/ LoginRefused(t, n) \/ Drop(t, n)
        PROVE  UNCHANGED rows
    BY <2>2 DEF Fetch, LoginRefused, Drop, store
  <2>3. BeginFails \/ Discover => UNCHANGED rows
    BY DEF BeginFails, Discover, store
  <2> QED
    BY <1>3, <1>4, <1>7, <1>8, <1>9, <2>1, <2>2, <2>3 DEF Cycle
<1>10. Scanner \/ Operator \/ Restart \/ UNCHANGED vars => UNCHANGED rows
  BY DEF Scanner, StartScan, EndScan, ResumeScan, LoseReport, Operator, Refresh, Release,
         Annotate, UpdateFindingState, AcknowledgeScanAlert, Restart, vars, store
<1>11. (\E t \in Tasks, n \in Scans : BecomeDue(t, n)) => UNCHANGED rows
  BY DEF BecomeDue, store
<1> QED
  BY <1>3, <1>9, <1>10, <1>11 DEF Next

AllExposed == [t \in Tasks |-> Exposed(rows[t], states[t])]

\* Every step changes what is exposed of at most one task, to the findings of a
\* scan that did not end earlier.
LEMMA ExposureMoves ==
  ASSUME IInv, IInv', [Next]_vars
  PROVE  \/ AllExposed' = AllExposed
         \/ \E t \in Tasks, end \in Times, found \in SUBSET Fingerprints :
                /\ end >= AllExposed[t].end
                /\ AllExposed' = [AllExposed EXCEPT ![t] = [end |-> end, found |-> found]]
<1>1. \A t \in Tasks : /\ rows[t] \in Rows /\ states[t] \in States /\ seen[t] \in Ends
                       /\ HistoryInv(rows[t], states[t], seen[t])
  BY HistoryOf
<1>2. \A t \in Tasks : /\ rows'[t] \in Rows /\ states'[t] \in States /\ seen'[t] \in Ends
                       /\ HistoryInv(rows'[t], states'[t], seen'[t])
  BY DEF IInv, TypeOK, Rows, States, Ends
<1>3. CASE \A t \in Tasks : SameNewest(rows[t], rows'[t])
  <2>1. \A t \in Tasks : Exposed(rows'[t], states'[t]) = Exposed(rows[t], states[t])
    BY <1>1, <1>2, <1>3, SameIsExposed
  <2> QED
    BY <2>1 DEF AllExposed
<1>4. ASSUME NEW t \in Tasks, NEW n \in Scans,
             Superseded(rows[t], rows'[t], n),
             \A u \in Tasks : u # t => rows'[u] = rows[u] /\ states'[u] = states[u]
      PROVE  \E end \in Times, found \in SUBSET Fingerprints :
                 /\ end >= AllExposed[t].end
                 /\ AllExposed' = [AllExposed EXCEPT ![t] = [end |-> end, found |-> found]]
  <2>1. PICK end \in Times, found \in SUBSET Fingerprints :
            /\ end >= EndOf(rows[t])
            /\ Exposed(rows'[t], states'[t]) = [end |-> end, found |-> found]
    BY <1>1, <1>2, <1>4, NewerIsExposed
  <2>2. AllExposed[t].end = EndOf(rows[t])
    BY DEF AllExposed, Exposed
  <2>3. \A u \in Tasks : u # t => Exposed(rows'[u], states'[u]) = Exposed(rows[u], states[u])
    BY <1>4
  <2>4. AllExposed' = [AllExposed EXCEPT ![t] = [end |-> end, found |-> found]]
    BY <2>1, <2>3 DEF AllExposed
  <2> QED
    BY <2>1, <2>2, <2>4
<1> QED
  BY <1>3, <1>4, NewestMoves

\* A finding's row outlives every statement, and what is noted in it changes with
\* notes only.
LEMMA SavingKeepsNotes ==
  ASSUME NEW S \in States, NEW E \in Ends, StatesInv(S, E), NEW f \in Fingerprints,
         NEW R \in Rows, NEW n \in Scans, NEW c \in Content,
         NEW T, T = SavedStates(R, S, n, c)
  PROVE  (S[f].known => T[f].known) /\ T[f].handled = S[f].handled
<1>1. \/ T = S
      \/ T = CurrentStates(S, n, c)
      \/ T = HistoricalStates(S, n, c)
  BY DEF SavedStates
<1>2. CASE T = CurrentStates(S, n, c)
  <2>1. FromNewest(S, n, c, T)
    BY <1>2, CurrentStatesAre
  <2> QED
    BY <2>1 DEF FromNewest
<1>3. CASE T = HistoricalStates(S, n, c)
  <2>1. FromOlder(S, n, c, T)
    BY <1>3, HistoricalStatesAre
  <2>2. ~S[f].known => S[f].handled = FALSE
    BY DEF StatesInv
  <2> QED
    BY <2>1, <2>2 DEF FromOlder
<1> QED
  BY <1>1, <1>2, <1>3

LEMMA NotesStay ==
  ASSUME IInv, [Next]_vars, NEW t \in Tasks, NEW f \in Fingerprints
  PROVE  /\ states[t][f].known => states'[t][f].known
         /\ states'[t][f].handled # states[t][f].handled => requests' # requests
<1>1. /\ rows[t] \in Rows /\ states[t] \in States /\ seen[t] \in Ends
      /\ HistoryInv(rows[t], states[t], seen[t])
      /\ StatesInv(states[t], seen[t])
      /\ states \in [Tasks -> States] /\ fetched \in [Tasks -> [Scans -> Content]]
      /\ requests \in Nat
  <2>1. requests \in 0 .. MaxRequests /\ MaxRequests \in Nat
    BY SyncAssumption DEF IInv, TypeOK
  <2> QED
    BY <2>1, HistoryOf, Types DEF IInv, HistoryInv
<1>2. ASSUME UNCHANGED states
      PROVE  /\ states[t][f].known => states'[t][f].known
             /\ states'[t][f].handled = states[t][f].handled
  BY <1>2
<1>3. ASSUME NEW u \in Tasks, NEW n \in Scans, Save(u, n)
      PROVE  /\ states[t][f].known => states'[t][f].known
             /\ states'[t][f].handled = states[t][f].handled
  <2>1. CASE UNCHANGED states
    BY <1>2, <2>1
  <2>2. CASE states' = [states EXCEPT ![u] = SavedStates(rows[u], @, n, fetched[u][n])]
    <3>1. CASE u # t
      BY <1>1, <2>2, <3>1
    <3>2. CASE u = t
      <4>1. states'[t] = SavedStates(rows[t], states[t], n, fetched[t][n])
        BY <1>1, <2>2, <3>2
      <4>2. fetched[t][n] \in Content
        BY <1>1
      <4> QED
        BY <1>1, <4>1, <4>2, SavingKeepsNotes
    <3> QED
      BY <3>1, <3>2
  <2> QED
    BY <1>3, <2>1, <2>2 DEF Save
<1>4. ASSUME Finish
      PROVE  /\ states[t][f].known => states'[t][f].known
             /\ states'[t][f].handled = states[t][f].handled
  <2>1. CASE UNCHANGED states
    BY <1>2, <2>1
  <2>2. CASE states' = [u \in Tasks |-> WithoutSnapshots(states[u], Expired(rows[u], states[u]))]
    <3>1. states'[t] = WithoutSnapshots(states[t], Expired(rows[t], states[t]))
      BY <2>2
    <3> QED
      BY <1>1, <3>1, PruneKeepsHistory
  <2> QED
    BY <1>4, <2>1, <2>2 DEF Finish
<1>5. ASSUME NEW u \in Tasks, NEW g \in Fingerprints,
             Annotate(u, g) \/ UpdateFindingState(u, g)
      PROVE  /\ states[t][f].known => states'[t][f].known
             /\ requests' # requests
  <2>1. /\ states[u][g].known
        /\ states' = [states EXCEPT ![u][g].handled = ~@]
        /\ requests' = requests + 1
    BY <1>5 DEF Annotate, UpdateFindingState, Annotated, Request
  <2>2. states[t] \in [Fingerprints -> State] /\ states[u] \in [Fingerprints -> State]
    BY <1>1 DEF States
  <2>3. states'[t][f].known = states[t][f].known
    <3>1. CASE u = t /\ g = f
      BY <1>1, <2>1, <2>2, <3>1 DEF State
    <3>2. CASE u # t \/ g # f
      BY <1>1, <2>1, <2>2, <3>2
    <3> QED
      BY <3>1, <3>2
  <2> QED
    BY <1>1, <2>1, <2>3
<1>6. CASE Cycle
  <2>1. ASSUME NEW u \in Tasks, NEW n \in Scans,
               \/ Fetch(u, n) \/ LoginRefused(u, n) \/ Drop(u, n)
               \/ FetchFails(u, n) \/ FetchFindsNothing(u, n)
        PROVE  UNCHANGED states
    BY <2>1 DEF Fetch, LoginRefused, Drop, FetchFails, FetchFindsNothing, store
  <2>2. ASSUME BeginFails \/ Discover \/ \E requested \in BOOLEAN : Begin(requested)
        PROVE  UNCHANGED states
    BY <2>2 DEF BeginFails, Discover, Begin, store
  <2> QED
    BY <1>2, <1>3, <1>4, <1>6, <2>1, <2>2 DEF Cycle
<1>7. CASE Operator
  <2>1. ASSUME \/ Refresh \/ \E u \in Tasks : Release(u)
               \/ \E u \in Tasks, n \in Scans : AcknowledgeScanAlert(u, n)
        PROVE  UNCHANGED states
    BY <2>1 DEF Refresh, Release, AcknowledgeScanAlert, store
  <2> QED
    BY <1>2, <1>5, <1>7, <2>1 DEF Operator
<1>8. ASSUME \/ Scanner \/ Restart \/ UNCHANGED vars
             \/ \E u \in Tasks, n \in Scans : BecomeDue(u, n)
      PROVE  UNCHANGED states
  BY <1>8 DEF Scanner, StartScan, EndScan, ResumeScan, LoseReport, Restart, BecomeDue, vars, store
<1> QED
  BY <1>2, <1>6, <1>7, <1>8 DEF Next

\* A report only expires when enough newer ones do not.
LEMMA ExpiredHaveNewer ==
  ASSUME NEW R \in Rows, NEW S, NEW n \in Expired(R, S)
  PROVE  Cardinality({m \in Imported(R) \ Expired(R, S) : After(R, m, n)}) >= Keep
<1> DEFINE gone == Expired(R, S)
           kept == {m \in Imported(R) \ gone : After(R, m, n)}
           lost == {m \in gone : After(R, m, n)}
           Newer == [m \in lost |-> {k \in lost : After(R, k, m)}]
<1>1. /\ gone \subseteq Imported(R) /\ Imported(R) \subseteq Scans /\ Scans \subseteq Times
      /\ \A m \in gone : Cardinality(NewerImports(R, m)) >= Keep
  BY ScansAreFinite DEF Expired, Imported
<1> HIDE DEF gone
<1>2. n \in gone /\ n \in Scans /\ kept \subseteq Scans /\ lost \subseteq Scans /\ lost \subseteq gone
  BY <1>1 DEF gone
<1>3. IsFiniteSet(kept) /\ Cardinality(kept) \in Nat
  BY <1>1, <1>2, ScansAreFinite, FS_CardinalityType
<1>4. ASSUME NEW x \in gone, NewerImports(R, x) \subseteq kept
      PROVE  Cardinality(kept) >= Keep
  <2> HIDE DEF kept
  <2>1. IsFiniteSet(NewerImports(R, x)) /\ Cardinality(NewerImports(R, x)) <= Cardinality(kept)
    BY <1>3, <1>4, FS_Subset
  <2>2. Cardinality(NewerImports(R, x)) \in Nat
    BY <2>1, FS_CardinalityType
  <2> QED
    BY <1>1, <1>3, <2>1, <2>2, HistoryAssumption
<1>5. CASE lost = {}
  <2>1. NewerImports(R, n) \subseteq kept
    BY <1>5 DEF NewerImports
  <2> QED
    BY <1>2, <1>4, <2>1 DEF gone
<1>6. CASE lost # {}
  <2>1. Newer \in [lost -> SUBSET lost]
    OBVIOUS
  <2>2. \A m \in lost : ~(m \in Newer[m])
    BY <1>2, OrderIsStrict
  <2>3. ASSUME NEW m \in lost, NEW k \in Newer[m], NEW j \in Newer[k]
        PROVE  j \in Newer[m]
    <3>1. k \in lost /\ j \in lost /\ After(R, k, m) /\ After(R, j, k)
      OBVIOUS
    <3>2. After(R, j, m)
      BY <1>2, <3>1, OrderIsStrict
    <3> QED
      BY <3>1, <3>2
  <2>4. \A m \in lost : \A k \in Newer[m] : Newer[k] \subseteq Newer[m]
    BY <2>3
  <2>5. \E x \in lost : Newer[x] = {}
    <3> HIDE DEF Newer, lost
    <3> QED
      BY <1>1, <1>2, <1>6, <2>1, <2>2, <2>4, LastElement
  <2>6. PICK x \in lost : \A k \in lost : ~After(R, k, x)
    BY <2>5
  <2>7. ASSUME NEW m \in NewerImports(R, x)
        PROVE  m \in kept
    <3>1. m \in Imported(R) /\ m \in Scans /\ x \in Scans /\ After(R, m, x) /\ After(R, x, n)
      BY <1>1, <1>2 DEF NewerImports
    <3>2. After(R, m, n)
      BY <1>2, <3>1, OrderIsStrict
    <3>3. m \notin gone
      BY <2>6, <3>1, <3>2
    <3> QED
      BY <3>1, <3>2, <3>3
  <2>8. x \in gone /\ NewerImports(R, x) \subseteq kept
    BY <1>2, <2>7
  <2> QED
    BY <1>4, <2>8 DEF gone
<1> QED
  BY <1>5, <1>6

\* Nothing but retention takes an imported report away.
LEMMA ImportsStay ==
  ASSUME IInv, [Next]_vars, NEW t \in Tasks, NEW n \in Imported(rows[t]) \ Imported(rows'[t])
  PROVE  Cardinality({m \in Imported(rows'[t]) : After(rows[t], m, n)}) >= Keep
<1>1. /\ rows[t] \in Rows /\ states[t] \in States /\ seen[t] \in Ends
      /\ n \in Scans /\ rows[t][n].state = "imported" /\ rows'[t][n].state # "imported"
      /\ rows \in [Tasks -> Rows]
  BY HistoryOf, Types DEF IInv, Imported
<1>2. ~UNCHANGED rows
  BY <1>1
<1>3. ASSUME NEW requested \in BOOLEAN, Begin(requested)
      PROVE  FALSE
  <2>1. rows'[t] = ResetFailures(rows[t])
    BY <1>2, <1>3 DEF Begin
  <2> QED
    BY <1>1, <2>1 DEF ResetFailures
<1>4. ASSUME NEW u \in Tasks, NEW k \in Scans, FetchFails(u, k)
      PROVE  FALSE
  <2>1. rows' = [rows EXCEPT ![u] = RecordFailure(@, k)]
    BY <1>2, <1>4 DEF FetchFails
  <2>2. u = t /\ rows'[t] = RecordFailure(rows[t], k)
    BY <1>1, <2>1
  <2>3. k # n => RecordFailure(rows[t], k)[n] = rows[t][n]
    BY <1>1, RowType DEF RecordFailure, Rows
  <2>4. k = n => RecordFailure(rows[t], k) = rows[t]
    BY <1>1 DEF RecordFailure
  <2> QED
    BY <1>1, <2>2, <2>3, <2>4
<1>5. ASSUME NEW u \in Tasks, NEW k \in Scans, FetchFindsNothing(u, k)
      PROVE  FALSE
  <2>1. rows' = [rows EXCEPT ![u] = DeleteFailure(@, k)]
    BY <1>2, <1>5 DEF FetchFindsNothing
  <2>2. u = t /\ rows'[t] = DeleteFailure(rows[t], k)
    BY <1>1, <2>1
  <2> QED
    BY <1>1, <2>2 DEF DeleteFailure, Rows
<1>6. ASSUME NEW u \in Tasks, NEW k \in Scans, Save(u, k)
      PROVE  FALSE
  <2>1. rows' = [rows EXCEPT ![u] = SavedRows(@, k, fetched[u][k])]
    BY <1>2, <1>6 DEF Save
  <2>2. u = t /\ rows'[t] = SavedRows(rows[t], k, fetched[t][k])
    BY <1>1, <2>1
  <2> QED
    BY <1>1, <2>2 DEF SavedRows, Rows
<1>7. ASSUME Finish
      PROVE  Cardinality({m \in Imported(rows'[t]) : After(rows[t], m, n)}) >= Keep
  <2> DEFINE gone == Expired(rows[t], states[t])
  <2>1. rows'[t] = WithoutRows(rows[t], gone)
    BY <1>2, <1>7 DEF Finish
  <2>2. gone \subseteq Imported(rows[t])
    BY DEF Expired
  <2> HIDE DEF gone
  <2>3. Imported(rows'[t]) = Imported(rows[t]) \ gone
    BY <2>1 DEF WithoutRows, Imported, NoRow
  <2>4. n \in gone
    BY <2>3
  <2> QED
    BY <1>1, <2>3, <2>4, ExpiredHaveNewer DEF gone
<1>8. CASE Cycle
  <2>1. ASSUME NEW u \in Tasks, NEW k \in Scans, Fetch(u, k) \/ LoginRefused(u, k) \/ Drop(u, k)
        PROVE  FALSE
    BY <1>2, <2>1 DEF Fetch, LoginRefused, Drop, store
  <2>2. ~BeginFails /\ ~Discover
    BY <1>2 DEF BeginFails, Discover, store
  <2> QED
    BY <1>3, <1>4, <1>5, <1>6, <1>7, <1>8, <2>1, <2>2 DEF Cycle
<1>9. ~Scanner /\ ~Operator /\ ~Restart /\ ~UNCHANGED vars
  BY <1>2
  DEF Scanner, StartScan, EndScan, ResumeScan, LoseReport, Operator, Refresh, Release,
      Annotate, UpdateFindingState, AcknowledgeScanAlert, Restart, vars, store
<1>10. ~\E u \in Tasks, k \in Scans : BecomeDue(u, k)
  BY <1>2 DEF BecomeDue, store
<1> QED
  BY <1>8, <1>9, <1>10 DEF Next

-----------------------------------------------------------------------------
(* Theorems *)

\* Rows, states, jobs and counters keep their types, failed imports their bound of
\* attempts, and a row has contents exactly if its report is imported.
THEOREM TypeCorrect == Spec => []TypeOK
<1>1. IInv => TypeOK
  BY DEF IInv
<1> QED
  BY <1>1, Invariance, PTL

\* The findings shown for a task are exactly those of its newest imported report,
\* whatever order, retry, restart or retention its reports went through.
THEOREM NewestIsShown == Spec => []CurrentIsNewest
BY InvNewest, Invariance, PTL

\* First-seen and last-seen dates are those of all reports ever imported, also of
\* those that expired, and no report page shows an earlier first date.
THEOREM DatesSurvive == Spec => []DatesSurviveExpiry
BY InvDates, Invariance, PTL

\* The Findings page calls no finding new that the newest report's page calls
\* recurring, unless that report has no end.
THEOREM PagesAgree == Spec => []RecurringOnBothPages
BY InvPages, Invariance, PTL

\* Only an operator changes what an operator noted about a finding, and no finding
\* that was known is forgotten.
THEOREM NotesAreKept == Spec => NotesSurvive
<1>1. ASSUME IInv, [Next]_vars
      PROVE  \A t \in Tasks, f \in Fingerprints :
                 /\ states[t][f].known => states'[t][f].known
                 /\ states'[t][f].handled # states[t][f].handled => requests' # requests
  BY <1>1, NotesStay
<1> QED
  BY <1>1, Invariance, PTL DEF Spec, NotesSurvive

\* An imported report only leaves the history when as many newer ones stay as
\* retention keeps.
THEOREM NewestReportsStay == Spec => NewestStay
<1>1. ASSUME IInv, [Next]_vars
      PROVE  \A t \in Tasks, n \in Scans :
                 n \in Imported(rows[t]) \ Imported(rows'[t]) =>
                     Cardinality({m \in Imported(rows'[t]) : After(rows[t], m, n)}) >= Keep
  BY <1>1, ImportsStay
<1> QED
  BY <1>1, Invariance, PTL DEF Spec, NewestStay

\* The synchronization implements Exposure: current findings of a task change as a
\* whole, and never back to a scan that ended before.
THEOREM ExposureIsImplemented == Spec => ExposureMovesForward
<1>1. Init => CurrentExposure!Init
  <2> SUFFICES ASSUME Init
               PROVE  CurrentExposure!Init
    OBVIOUS
  <2>1. \A t \in Tasks : Imported(rows[t]) = {} /\ \A f \in Fingerprints : ~states[t][f].present
    BY DEF Init, Imported, NoRow, NoState
  <2>2. \A t \in Tasks : NewestEnd(t) = 0 /\ Shown(rows[t], states[t]) = {}
    BY <2>1 DEF NewestEnd, Shown
  <2> QED
    BY <2>2 DEF CurrentExposure!Init
<1>2. ASSUME IInv, IInv', [Next]_vars
      PROVE  [CurrentExposure!Next]_[t \in Tasks |-> [end   |-> NewestEnd(t),
                                                      found |-> Shown(rows[t], states[t])]]
  <2>1. [t \in Tasks |-> [end |-> NewestEnd(t), found |-> Shown(rows[t], states[t])]] = AllExposed
    BY DEF AllExposed, Exposed, EndOf, NewestEnd
  <2>2. [t \in Tasks |-> [end |-> NewestEnd(t), found |-> Shown(rows[t], states[t])]]' = AllExposed'
    BY DEF AllExposed, Exposed, EndOf, NewestEnd
  <2>3. ASSUME NEW t \in Tasks, NEW end \in Times, NEW found \in SUBSET Fingerprints,
               end >= AllExposed[t].end,
               AllExposed' = [AllExposed EXCEPT ![t] = [end |-> end, found |-> found]]
        PROVE  CurrentExposure!Next
    <3>1. CurrentExposure!Supersede(t, end, found)
      BY <2>1, <2>2, <2>3 DEF CurrentExposure!Supersede
    <3> QED
      BY <3>1 DEF CurrentExposure!Next
  <2> QED
    BY <1>2, <2>1, <2>2, <2>3, ExposureMoves
<1> QED
  BY <1>1, <1>2, Invariance, PTL DEF Spec, ExposureMovesForward, CurrentExposure!Spec
=============================================================================
