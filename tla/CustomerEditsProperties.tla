----------------------- MODULE CustomerEditsProperties -----------------------
(***************************************************************************)
(* What editing must guarantee.                                            *)
(***************************************************************************)
EXTENDS CustomerEdits

\* What a browser is asked to confirm was compared with the definition that stands,
\* as long as customerUpdate would accept it: the revision it is signed with stands
\* for the definition although the review reads row and networks in two queries,
\* with edits, imports, deletions and restarts before, in between and after.
ReviewsShowWhatStands ==
    \A token \in tokens :
        token.kind = "edit" /\ IsCurrent(token) => customers[token.id].value = token.base

Confirms(h) == requests[h].op = "confirm" /\ requests'[h] = Idle /\ customers' # customers

\* A confirmed edit replaces the definition that its review compared with, or itself
\* when it is confirmed twice, and no other edit (customerUpdate,
\* internal/web/customers.go:215). README.md:343-344: "includes the customer revision
\* so a stale edit cannot overwrite a newer browser edit".
StaleEditsNeverOverwrite ==
    [][\A h \in Handlers : Confirms(h) =>
           LET token == requests[h].token
           IN customers[token.id].value \in {token.base, token.value}]_vars

\* Deleted customers stay deleted, with the definition the cleanup needs, whatever
\* reviews, documents and requests are under way. README.md:397: "Import is not a
\* restore of deleted local rows".
DeletedStaysDeleted ==
    [][\A c \in Ids : customers[c].state = "deleted" => customers'[c] = customers[c]]_vars

\* A definition never changes under its revision, which is what reviews and the
\* reconciler's next pass know it by; revisions do not go back.
RevisionsNameDefinitions ==
    [][\A c \in Ids : Known(c) =>
           /\ customers'[c].revision >= customers[c].revision
           /\ customers'[c].revision = customers[c].revision => customers'[c] = customers[c]]_vars
=============================================================================
