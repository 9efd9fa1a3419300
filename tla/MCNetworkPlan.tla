---------------------------- MODULE MCNetworkPlan ----------------------------
(***************************************************************************)
(* An instance of the planner for TLC: 16 addresses in blocks of two.      *)
(***************************************************************************)
EXTENDS NetworkAnalysis

PowersOfTwo == {1, 2, 4, 8, 16}
MiddleIsPrivate == 4 .. 9
EdgesAreSpecial == {0, 1, 14, 15}
=============================================================================
