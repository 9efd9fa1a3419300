------------------------------ MODULE Exposure -------------------------------
(***************************************************************************)
(* What the current findings of the scan tasks promise to their readers    *)
(* (the Findings page and the tickets): those of a task change as a whole, *)
(* and only to the findings of a scan that did not end before the one they *)
(* came from.                                                              *)
(***************************************************************************)
EXTENDS Naturals

CONSTANTS Tasks, Fingerprints, Times

VARIABLE shown  \* by task: the findings and the end of their scan

Init == shown = [t \in Tasks |-> [end |-> 0, found |-> {}]]

Supersede(t, end, found) ==
    /\ end >= shown[t].end
    /\ shown' = [shown EXCEPT ![t] = [end |-> end, found |-> found]]

Next ==
    \E t \in Tasks, end \in Times, found \in SUBSET Fingerprints : Supersede(t, end, found)

Spec == Init /\ [][Next]_shown
=============================================================================
