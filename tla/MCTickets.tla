------------------------------ MODULE MCTickets ------------------------------
(***************************************************************************)
(* Instances of the ticket outbox for TLC.                                 *)
(***************************************************************************)
EXTENDS TicketsProperties
=============================================================================
