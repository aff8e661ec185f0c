------------------------- MODULE OrderStateMachine --------------------------
(***************************************************************************)
(* One order aggregate, driven by every piece of evidence in every order:  *)
(* the broker's updates may be repeated, reordered, contradictory or late, *)
(* and the session's own requests may come at any time.  The caller adds   *)
(* the signed delta of every applied update to the position, which is what *)
(* replay_record() and drain_broker_updates() do.                          *)
(***************************************************************************)
EXTENDS OrderLifecycle

CONSTANTS
  MaxQuantity,   \* largest order quantity the environment asks for
  Prices,        \* limit prices, positive
  UpdateIds,     \* stable update ids of the broker and of the session
  BrokerOrderIds \* identifiers the broker gives to the order

ASSUME NoIdAssumption == NoId \notin UpdateIds /\ NoId \notin BrokerOrderIds
ASSUME MaxQuantityAssumption == MaxQuantity \in Nat \ {0}
ASSUME PricesAssumption == Prices \subseteq Nat \ {0}

VARIABLES
  order,         \* the OrderAggregate
  position,      \* sum of the signed position deltas handed to the caller
  lastApplied    \* kind of the last evidence that was applied (history)

vars == <<order, position, lastApplied>>

Quantities == 0 .. MaxQuantity

\* Evidence as the callers build it: a field is present only where the kind
\* of the evidence reads it.
Evidence ==
  [kind          : OrderEventKinds,
   id            : UpdateIds \cup {NoId},
   brokerOrderId : BrokerOrderIds \cup {NoId},
   cumulative    : Quantities \cup {Absent},
   quantity      : Quantities,
   price         : Prices \cup {0}]

Updates ==
  {update \in Evidence :
     /\ update.kind \notin {"BrokerAcknowledged", "ReconcileWorking"} =>
          update.brokerOrderId = NoId
     /\ update.kind \notin {"FillUpdate", "ReconcileWorking"} => update.cumulative = Absent
     /\ update.kind \notin {"ModifyRequested", "ModifyAccepted"} =>
          update.quantity = 0 /\ update.price = 0}

Init ==
  /\ \E side \in Sides, quantity \in 1 .. MaxQuantity, price \in Prices :
       order = NewOrder(side, quantity, price)
  /\ position = 0
  /\ lastApplied = "none"

Apply(update) ==
  LET result == ApplyOrderUpdate(order, update)
  IN  /\ order' = result.order
      /\ position' = position + result.delta
      /\ lastApplied' = IF result.applied THEN update.kind ELSE lastApplied

Next == \E update \in Updates : Apply(update)

Spec == Init /\ [][Next]_vars

-----------------------------------------------------------------------------
Fingerprints ==
  OrderEventKinds \X (BrokerOrderIds \cup {NoId}) \X (Quantities \cup {Absent})
                  \X Quantities \X (Prices \cup {0})

Orders ==
  [side : Sides, original : Quantities, effective : Quantities, price : Prices,
   cumulative : Quantities, state : OrderStates, pending : PendingMutations,
   pendingQuantity : Quantities, pendingPrice : Prices \cup {0},
   cancelWasRequested : BOOLEAN, brokerOrderId : BrokerOrderIds \cup {NoId},
   applied : SUBSET (UpdateIds \X Fingerprints)]

\* The aggregate, the position and the history keep their types.
TypeOK ==
  /\ order \in Orders
  /\ position \in Int
  /\ lastApplied \in OrderEventKinds \cup {"none"}

\* Every fill reaches the position exactly once, whatever evidence reported
\* it (fill updates, their repeats, or a reconciliation that catches up): the
\* deltas returned by apply_order_update() always add up to the signed
\* cumulative fill of the aggregate.
PositionAppliedExactlyOnce ==
  position = SignOf(order.side) * order.cumulative

\* Cumulative fills never exceed the effective quantity, also when a modify
\* changes that quantity while fills are in flight, and an order is Filled
\* exactly when nothing of it is left to fill.
FilledExactlyWhenComplete ==
  /\ order.cumulative <= order.effective
  /\ (order.state = "Filled") <=> (order.cumulative = order.effective)

\* Modify and cancel are facts layered on a live order: no terminal order
\* keeps one in flight, so a late modify or cancel acknowledgement (whose
\* handlers test only the pending mutation, not the state) cannot revive it.
\* A modify in flight always carries the terms its acknowledgement must echo.
PendingOnlyOnLiveOrders ==
  /\ order.pending # "None" => order.state \in Working \cup {"ReconciliationRequired"}
  /\ order.pending = "Modify" => order.pendingQuantity > 0 /\ order.pendingPrice \in Prices
  /\ order.pending = "Cancel" => order.cancelWasRequested

\* One update id is bound to one content for the life of the order.
OneContentPerUpdateId ==
  \A a, b \in order.applied : a[1] = b[1] => a = b

\* Filled, Cancelled and Rejected are final: no evidence, however late,
\* changes the state, the quantities or the position of such an order.
TerminalIsFinal ==
  [][order.state \in Terminal =>
       /\ order'.state = order.state
       /\ order'.cumulative = order.cumulative
       /\ order'.effective = order.effective
       /\ position' = position]_vars

\* Fills are monotonic, and the applied evidence is never forgotten.
FillsOnlyGrow ==
  [][/\ order'.cumulative >= order.cumulative
     /\ order.applied \subseteq order'.applied]_vars

\* An ambiguous submission is resolved by reconciliation evidence only: no
\* acknowledgement, fill, rejection or cancel moves it.
AmbiguousSubmissionGate ==
  [][order.state = "AmbiguousSubmission" /\ order'.state # "AmbiguousSubmission" =>
       lastApplied' \in {"ReconcileWorking", "ReconcileCancelled", "ReconcileRejected"}]_vars

\* What ORDER_LIFECYCLE.md says of every order whose outcome is unknown:
\* only authoritative reconciliation evidence moves it on.
OnlyReconciliationResolves ==
  [][order.state \in Unresolved /\ order'.state \notin Unresolved =>
       lastApplied' \in {"ReconcileWorking", "ReconcileCancelled", "ReconcileRejected"}]_vars
=============================================================================
