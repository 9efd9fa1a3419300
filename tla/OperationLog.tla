----------------------------- MODULE OperationLog -----------------------------
(***************************************************************************)
(* What the updater's state file promises to whoever reads it after any    *)
(* crash: operations open one at a time, an open operation gets one        *)
(* outcome, and an outcome is never revised; old ones may be forgotten.    *)
(***************************************************************************)
CONSTANTS Ops, Outcomes

VARIABLE status   \* per operation: "none", "open", "forgotten" or its outcome

TypeOK == status \in [Ops -> Outcomes \union {"none", "open", "forgotten"}]

Init == status = [op \in Ops |-> "none"]

\* One save may record an outcome and the operation accepted after it, or an
\* operation that ended before anything else was saved.
MayBecome(old, new) ==
    \/ new = old
    \/ old = "none" /\ new = "open"
    \/ old = "open" /\ new \in Outcomes
    \/ old \in Outcomes /\ new = "forgotten"

AtMostOneOpen(s) == \A o, p \in Ops : s[o] = "open" /\ s[p] = "open" => o = p

Advance ==
    /\ status' \in [Ops -> Outcomes \union {"none", "open", "forgotten"}]
    /\ AtMostOneOpen(status')
    /\ \A op \in Ops : MayBecome(status[op], status'[op])

Spec == Init /\ [][Advance]_status
===============================================================================
