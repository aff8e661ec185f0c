--------------------------- MODULE OrderLifecycle ---------------------------
(***************************************************************************)
(* The generic order lifecycle of order_state_machine.cpp as a pure        *)
(* function: ApplyOrderUpdate(current, update) is what                     *)
(* apply_order_update() returns for one order aggregate and one piece of   *)
(* evidence.  The ledger replay, the live session and the recovery of the  *)
(* paper broker all call this one function, so every module of the project *)
(* that moves an order uses these operators.                               *)
(*                                                                         *)
(* Optional fields are encoded by values the code treats exactly like an   *)
(* absent one: Absent (-1) for a cumulative fill (it regresses below every *)
(* fill), 0 for a modify quantity or price (refused like a missing one).   *)
(***************************************************************************)
EXTENDS Integers

CONSTANT
  NoId           \* the empty update id / the absent broker order id

Absent == -1

PendingMutations == {"None", "Modify", "Cancel"}

OrderStates == {"Prepared", "SubmissionStarted", "Acknowledged",
                "PartiallyFilled", "AmbiguousSubmission",
                "ReconciliationRequired", "Filled", "Cancelled", "Rejected"}

OrderEventKinds == {"SubmissionStarted", "BrokerAcknowledged",
                    "BrokerRejected", "FillUpdate", "ModifyRequested",
                    "ModifyAccepted", "ModifyRejected", "CancelRequested",
                    "CancelAccepted", "CancelRejected", "SubmissionAmbiguous",
                    "ReconcileWorking", "ReconcileCancelled",
                    "ReconcileRejected"}

Sides == {"Buy", "Sell"}

\* The states from which ordinary broker evidence still moves the order.
Working == {"Acknowledged", "PartiallyFilled"}

\* The states that wait for authoritative reconciliation.
Unresolved == {"AmbiguousSubmission", "ReconciliationRequired"}

Terminal == {"Filled", "Cancelled", "Rejected"}

\* A new aggregate, before anything is known about it.
NewOrder(side, quantity, price) ==
  [side      |-> side,
   original  |-> quantity,
   effective |-> quantity,
   price     |-> price,
   cumulative |-> 0,
   state     |-> "Prepared",
   pending   |-> "None",
   pendingQuantity |-> 0,
   pendingPrice    |-> 0,
   cancelWasRequested |-> FALSE,
   brokerOrderId      |-> NoId,
   applied            |-> {}]

\* What evidence_fingerprint() hashes: every field but the update id.
Fingerprint(update) ==
  <<update.kind, update.brokerOrderId, update.cumulative, update.quantity, update.price>>

WorkingState(order) ==
  IF order.cumulative = 0 THEN "Acknowledged" ELSE "PartiallyFilled"

\* Complete orders are Filled, the others go back to work.
SettledState(order) ==
  IF order.cumulative = order.effective THEN "Filled" ELSE WorkingState(order)

SignOf(side) == IF side = "Buy" THEN 1 ELSE -1

-----------------------------------------------------------------------------
(***************************************************************************)
(* The three shapes of a TransitionResult.                                 *)
(***************************************************************************)
Refuse(order, incident) ==
  [order |-> order, applied |-> FALSE, delta |-> 0, refused |-> TRUE, incident |-> incident]

Repeated(order) ==
  [order |-> order, applied |-> FALSE, delta |-> 0, refused |-> FALSE, incident |-> FALSE]

ApplyEvidence(next, update, delta) ==
  [order |-> IF update.id = NoId
             THEN next
             ELSE [next EXCEPT !.applied = @ \cup {<<update.id, Fingerprint(update)>>}],
   applied |-> TRUE, delta |-> delta, refused |-> FALSE, incident |-> FALSE]

\* A record update that forgets the modify in flight.
WithoutPending(order) ==
  [order EXCEPT !.pending = "None", !.pendingQuantity = 0, !.pendingPrice = 0]

-----------------------------------------------------------------------------
(***************************************************************************)
(* One operator per kind of evidence.                                      *)
(***************************************************************************)
OnSubmissionStarted(order, update) ==
  IF order.state # "Prepared"
  THEN Refuse(order, FALSE)
  ELSE ApplyEvidence([order EXCEPT !.state = "SubmissionStarted"], update, 0)

\* Variant: a late acknowledgement revives an ambiguous submission.
LateAcknowledgement(order, update) ==
  IF order.state \notin {"SubmissionStarted", "AmbiguousSubmission"}
  THEN Refuse(order, order.state \in Terminal)
  ELSE ApplyEvidence([order EXCEPT !.brokerOrderId = update.brokerOrderId,
                                   !.state = WorkingState(order)], update, 0)

OnBrokerAcknowledged(order, update) ==
  IF order.state # "SubmissionStarted"
  THEN Refuse(order, order.state \in Terminal)
  ELSE IF update.brokerOrderId = NoId
  THEN Refuse(order, FALSE)
  ELSE ApplyEvidence([order EXCEPT !.brokerOrderId = update.brokerOrderId,
                                   !.state = WorkingState(order)], update, 0)

OnBrokerRejected(order, update) ==
  IF order.state = "Rejected"
  THEN ApplyEvidence(order, update, 0)
  ELSE IF order.state \notin {"Prepared", "SubmissionStarted"}
  THEN Refuse(order, TRUE)
  ELSE ApplyEvidence([order EXCEPT !.state = "Rejected"], update, 0)

OnFillUpdate(order, update) ==
  LET delta == update.cumulative - order.cumulative
      filled == [order EXCEPT !.cumulative = update.cumulative]
  IN  IF order.state \notin Working
      THEN IF order.state = "Filled" /\ update.cumulative = order.cumulative
           THEN ApplyEvidence(order, update, 0)
           ELSE Refuse(order, TRUE)
      ELSE IF delta < 0 \/ update.cumulative > order.effective
      THEN Refuse(order, TRUE)
      ELSE IF delta = 0
      THEN ApplyEvidence(order, update, 0)
      ELSE ApplyEvidence(
             IF update.cumulative = order.effective
             THEN [WithoutPending(filled) EXCEPT !.state = "Filled"]
             ELSE [filled EXCEPT !.state = "PartiallyFilled"],
             update, delta * SignOf(order.side))

OnModifyRequested(order, update) ==
  IF \/ order.state \notin Working
     \/ order.pending # "None"
     \/ update.quantity < order.cumulative
     \/ update.quantity = 0
     \/ update.price = 0
  THEN Refuse(order, FALSE)
  ELSE ApplyEvidence([order EXCEPT !.pending = "Modify",
                                   !.pendingQuantity = update.quantity,
                                   !.pendingPrice = update.price], update, 0)

\* Variant: a modify down to what is already filled leaves the order working.
ModifyAlwaysWorking(order, update) ==
  IF \/ order.pending # "Modify"
     \/ update.quantity # order.pendingQuantity
     \/ update.price # order.pendingPrice
     \/ update.quantity < order.cumulative
  THEN Refuse(order, TRUE)
  ELSE ApplyEvidence([WithoutPending(order) EXCEPT !.effective = update.quantity,
                                                   !.price = update.price,
                                                   !.state = WorkingState(order)], update, 0)

\* No state is tested here: a modify in flight is enough.
OnModifyAccepted(order, update) ==
  IF \/ order.pending # "Modify"
     \/ update.quantity = 0
     \/ update.price = 0
     \/ update.quantity # order.pendingQuantity
     \/ update.price # order.pendingPrice
     \/ update.quantity < order.cumulative
  THEN Refuse(order, TRUE)
  ELSE LET next == [WithoutPending(order) EXCEPT !.effective = update.quantity,
                                                 !.price = update.price]
       IN  ApplyEvidence([next EXCEPT !.state = SettledState(next)], update, 0)

OnModifyRejected(order, update) ==
  IF order.pending # "Modify"
  THEN Refuse(order, FALSE)
  ELSE ApplyEvidence([WithoutPending(order) EXCEPT !.state = WorkingState(order)], update, 0)

OnCancelRequested(order, update) ==
  IF order.state \notin Working \/ order.pending # "None"
  THEN Refuse(order, FALSE)
  ELSE ApplyEvidence([order EXCEPT !.pending = "Cancel",
                                   !.cancelWasRequested = TRUE], update, 0)

OnCancelAccepted(order, update) ==
  IF order.state \in {"Filled", "Cancelled"}
  THEN IF order.cancelWasRequested
       THEN ApplyEvidence(order, update, 0)
       ELSE Refuse(order, TRUE)
  ELSE IF order.pending # "Cancel"
  THEN Refuse(order, order.state \in Working \cup Terminal)
  ELSE ApplyEvidence([order EXCEPT !.pending = "None", !.state = "Cancelled"], update, 0)

OnCancelRejected(order, update) ==
  IF order.pending # "Cancel"
  THEN Refuse(order, FALSE)
  ELSE ApplyEvidence([order EXCEPT !.pending = "None",
                                   !.state = "ReconciliationRequired"], update, 0)

\* The pending mutation survives an unknown outcome.
OnSubmissionAmbiguous(order, update) ==
  IF order.state # "SubmissionStarted" /\ order.pending = "None"
  THEN Refuse(order, FALSE)
  ELSE ApplyEvidence(
         [order EXCEPT !.state = IF order.state = "SubmissionStarted"
                                 THEN "AmbiguousSubmission"
                                 ELSE "ReconciliationRequired"], update, 0)

\* Variant: reconciliation catches up the fill but not the position.
ReconcileWithoutPosition(order, update) ==
  IF order.state \notin Unresolved
  THEN Refuse(order, FALSE)
  ELSE IF \/ update.brokerOrderId = NoId
          \/ update.cumulative < order.cumulative
          \/ update.cumulative > order.effective
  THEN Refuse(order, TRUE)
  ELSE LET next == [WithoutPending(order) EXCEPT !.brokerOrderId = update.brokerOrderId,
                                                 !.cumulative = update.cumulative]
       IN  ApplyEvidence([next EXCEPT !.state = SettledState(next)], update, 0)

OnReconcileWorking(order, update) ==
  IF order.state \notin Unresolved
  THEN Refuse(order, FALSE)
  ELSE IF \/ update.brokerOrderId = NoId
          \/ update.cumulative < order.cumulative
          \/ update.cumulative > order.effective
  THEN Refuse(order, TRUE)
  ELSE LET next == [WithoutPending(order) EXCEPT !.brokerOrderId = update.brokerOrderId,
                                                 !.cumulative = update.cumulative]
       IN  ApplyEvidence([next EXCEPT !.state = SettledState(next)], update,
                         (update.cumulative - order.cumulative) * SignOf(order.side))

\* Variant: terminal reconciliation evidence is taken in every state.
ReconcileAnyState(order, update, state) ==
  ApplyEvidence([order EXCEPT !.pending = "None", !.state = state], update, 0)

\* The terms of a modify in flight are kept, only the pending flag is reset.
OnReconcileTerminal(order, update, state) ==
  IF order.state = state
  THEN ApplyEvidence(order, update, 0)
  ELSE IF order.state \notin Unresolved
  THEN Refuse(order, FALSE)
  ELSE ApplyEvidence([order EXCEPT !.pending = "None", !.state = state], update, 0)

-----------------------------------------------------------------------------
InvalidAggregate(order) ==
  order.original = 0 \/ order.effective = 0 \/ order.cumulative > order.effective

\* The evidence already applied under this update id.
AppliedAs(order, id) == {evidence \in order.applied : evidence[1] = id}

DuplicateEvidence(order, update) ==
  update.id # NoId /\ AppliedAs(order, update.id) # {}

Transition(order, update) ==
  CASE update.kind = "SubmissionStarted"   -> OnSubmissionStarted(order, update)
    [] update.kind = "BrokerAcknowledged"  -> OnBrokerAcknowledged(order, update)
    [] update.kind = "BrokerRejected"      -> OnBrokerRejected(order, update)
    [] update.kind = "FillUpdate"          -> OnFillUpdate(order, update)
    [] update.kind = "ModifyRequested"     -> OnModifyRequested(order, update)
    [] update.kind = "ModifyAccepted"      -> OnModifyAccepted(order, update)
    [] update.kind = "ModifyRejected"      -> OnModifyRejected(order, update)
    [] update.kind = "CancelRequested"     -> OnCancelRequested(order, update)
    [] update.kind = "CancelAccepted"      -> OnCancelAccepted(order, update)
    [] update.kind = "CancelRejected"      -> OnCancelRejected(order, update)
    [] update.kind = "SubmissionAmbiguous" -> OnSubmissionAmbiguous(order, update)
    [] update.kind = "ReconcileWorking"    -> OnReconcileWorking(order, update)
    [] update.kind = "ReconcileCancelled"  -> OnReconcileTerminal(order, update, "Cancelled")
    [] update.kind = "ReconcileRejected"   -> OnReconcileTerminal(order, update, "Rejected")

ApplyOrderUpdate(order, update) ==
  IF InvalidAggregate(order)
  THEN Refuse(order, TRUE)
  ELSE IF DuplicateEvidence(order, update)
  THEN IF <<update.id, Fingerprint(update)>> \in order.applied
       THEN Repeated(order)
       ELSE Refuse(order, TRUE)
  ELSE Transition(order, update)
=============================================================================
