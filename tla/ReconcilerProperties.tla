------------------------ MODULE ReconcilerProperties ------------------------
(***************************************************************************)
(* What reconciliation must guarantee about one customer's objects.        *)
(***************************************************************************)
EXTENDS Reconciler

\* Objects of this customer that reconciliation can still know of: orphans only
\* count when a row has found them again.
Ours(k) ==
    {i \in Ids : Live(i) /\ objects[i].comment = k /\ (i \in orphans => i = rows[k].id)}

\* Crashes, lost answers, retries and somebody else's deletions never leave two
\* objects with the marker of one row that reconciliation can know of: an
\* interrupted create is found again instead of repeated. README.md:405 promises it
\* of every interrupted checkpoint; what the code does not find again is an orphan.
NoSecondObject == \A k \in Keys : Cardinality(Ours(k)) <= 1

\* Two rows never hold the same live object, so that applying or deleting one
\* resource never hits another; a recovered object is that of its row. README:
\* a remote object is recovered "by its unique ownership marker".
RowsHoldTheirOwnObject ==
    \A k, l \in Keys :
        rows[k].id # NoId /\ Live(rows[k].id) /\ rows[k].id = rows[l].id => k = l

\* What the status "applied" stands for is the definition that the pass loaded:
\* until the next pass every resource of it is checkpointed, exists once at the
\* scanner, as defined, tied to the live target and schedule (applyDesired), after
\* whatever failures, crashes and edits, also edits back. Only an object that was
\* modified behind an applied row, and whose checkpoint was lost, may have other
\* values: an edit back makes its row match again.
ShownIsInPlace ==
    status = "applied" /\ meddling = 0 =>
        \A k \in KeysOf(shown) :
            /\ rows[k] = [state |-> "applied", id |-> rows[k].id, content |-> ContentOf(shown, k)]
            /\ Ours(k) = {rows[k].id}
            /\ rows[k].id \notin unrecorded =>
                   objects[rows[k].id].content = ContentOf(shown, k)

\* When a deletion is shown as done, or an applied customer lost a target, no
\* object is left at the scanner that a row has ever known.
RemovedMeansTrashed ==
    status \in {"applied", "deleted"} /\ shown = Load(desired) =>
        \A i \in known : Live(i) /\ objects[i].comment # Unmarked
                         => objects[i].comment \in KeysOf(shown)

\* An object that lost its marker while no pass was running is never touched
\* again: reconciliation reads the comment before it modifies or deletes.
ForeignObjectsStay ==
    [][meddling' = meddling => \A i \in foreign : objects'[i] = objects[i]]_vars

\* A desired resource that counts as applied and is gone at the scanner: a removal
\* was interrupted before its row was dropped, and an edit has brought it back.
GoneButApplied ==
    \E k \in KeysOf(Load(desired)) :
        /\ rows[k].state = "applied" /\ rows[k].content = ContentOf(Load(desired), k)
        /\ ~Live(rows[k].id)

\* Once edits and faults are over every pass ends with the definition that stands
\* applied, or the customer deleted, and never in an error again. Three things may
\* get in the way: an orphan, a change made by somebody else at the scanner, and
\* an unchanged resource that is gone (applyTask looks at it, reconciler.go:550),
\* which then stays unchanged and gone.
Settles ==
    <>[](/\ status \in {"syncing", IF desired.deleted THEN "deleted" ELSE "applied"}
         /\ shown = Load(desired))
SettlesUnlessGone == [](orphans = {} /\ meddling = 0) => Settles \/ <>[]GoneButApplied
=============================================================================
