------------------------- MODULE MCExecutionSession -------------------------
(***************************************************************************)
(* A strategy with one or two places, a modify and a cancel of the first.  *)
(***************************************************************************)
EXTENDS ExecutionSession

CONSTANTS p1, p2, m1, k1

MCTarget == [i \in Modifies \cup Cancels |-> p1]

MCTerms ==
  [i \in Places \cup Modifies |->
     [quantity |-> IF i \in Modifies THEN 2 ELSE 1, price |-> 1]]
=============================================================================
