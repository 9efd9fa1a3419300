--------------------------- MODULE MCCustomerEdits ---------------------------
(***************************************************************************)
(* Instances of customer editing for TLC.                                  *)
(***************************************************************************)
EXTENDS CustomerEditsProperties, TLC

CONSTANTS c1, c2, h1, h2, x, y

First == [name |-> 1, slot |-> 1, networks |-> x]
Second == [name |-> 2, slot |-> 1, networks |-> y]
OneForm == {First}
\* Three definitions of a customer, for edits that meet.
Third == [First EXCEPT !.networks = y]
Fourth == [First EXCEPT !.slot = 2]
ThreeForms == {First, Third, Fourth}

\* An export of this installation, alone and with a customer that has no id.
SomeDocuments ==
    {<<[id |-> c1, value |-> Second]>>,
     <<[id |-> c1, value |-> Second], [id |-> NoId, value |-> First]>>}

Symmetry == Permutations({h1, h2})
=============================================================================
