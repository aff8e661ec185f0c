------------------------ MODULE MCOrderStateMachine -------------------------
(***************************************************************************)
(* One order of up to MaxQuantity units under every sequence of evidence.  *)
(***************************************************************************)
EXTENDS OrderStateMachine
=============================================================================
