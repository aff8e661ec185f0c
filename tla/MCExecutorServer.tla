-------------------------- MODULE MCExecutorServer --------------------------
(***************************************************************************)
(* A server whose outbound stage holds OutboundCapacity events, for TLC.   *)
(***************************************************************************)
EXTENDS ExecutorServer
=============================================================================
