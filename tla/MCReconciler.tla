---------------------------- MODULE MCReconciler ----------------------------
(***************************************************************************)
(* Instances of reconciliation for TLC.                                    *)
(***************************************************************************)
EXTENDS ReconcilerProperties

\* The first edit changes the networks and adds a target, the second changes the
\* schedule and the policy and drops the target again.
Small == [schedule |-> 1, networks |-> 1, policy |-> 1, seqs |-> {1}]
Grown == [schedule |-> 1, networks |-> 2, policy |-> 1, seqs |-> {1, 2}]
Shrunk == [schedule |-> 2, networks |-> 2, policy |-> 2, seqs |-> {1}]
GrowingDefinitions == {Small, Grown, Shrunk}

\* A customer large enough for a tenth target. Targets 2 to 9, which it would have
\* as well, are left out: no marker of theirs is a prefix of another one here.
TenTargets ==
    [schedule |-> 1, networks |-> 1, policy |-> 1, seqs |-> {1, 10}]
TenTargetsOtherPolicy ==
    [schedule |-> 1, networks |-> 1, policy |-> 2, seqs |-> {1, 10}]
LargeDefinitions == {TenTargets, TenTargetsOtherPolicy}
=============================================================================
