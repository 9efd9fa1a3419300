---------------------------- MODULE MCReportSync -----------------------------
(***************************************************************************)
(* Instances of the report synchronization for TLC.                        *)
(***************************************************************************)
EXTENDS ReportSyncProperties
=============================================================================
