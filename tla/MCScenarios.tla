---------------------------- MODULE MCScenarios ----------------------------
(***************************************************************************)
(* All scenarios of the page, with one poll at a time.                     *)
(***************************************************************************)
EXTENDS Scenarios

CONSTANT p1
=============================================================================
