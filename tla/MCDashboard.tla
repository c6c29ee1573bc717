----------------------------- MODULE MCDashboard -----------------------------
(***************************************************************************)
(* A small instance of the page and its server.                            *)
(***************************************************************************)
EXTENDS Dashboard

CONSTANT e1
=============================================================================
