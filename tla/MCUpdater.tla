------------------------------ MODULE MCUpdater ------------------------------
(***************************************************************************)
(* Instances of the update helper for TLC.                                 *)
(***************************************************************************)
EXTENDS UpdaterProperties
=============================================================================
