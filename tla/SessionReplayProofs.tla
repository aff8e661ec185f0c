-------------------------- MODULE SessionReplayProofs --------------------------
(***************************************************************************)
(* Proofs about ExecutionSession, continued: what the ledger replays to.   *)
(*                                                                         *)
(* The invariant of ExecutionSessionProofs is about authority, stops and   *)
(* attempts.  The one added here is about data: unless replay refuses the  *)
(* ledger, its orders are good aggregates of places; an attempted place    *)
(* has its order and its answer on record whenever a process may start     *)
(* from the ledger; memory, view, stage and broker have their types.  On   *)
(* top of it: while the server runs, session, broker and ledger agree      *)
(* about every order, unless the session is closed for good.  The last     *)
(* one, Settles, is about stopping: what works on record works at the      *)
(* broker and is on stop()'s list, or the comparison at its end fails.     *)
(***************************************************************************)
EXTENDS ExecutionSessionProofs

-----------------------------------------------------------------------------
(* Orders (apply_order_update), as a session's evidence moves them.        *)

\* The fields of an aggregate.
OrderFields ==
    {"side", "original", "effective", "price", "cumulative", "state", "pending",
     "pendingQuantity", "pendingPrice", "cancelWasRequested", "brokerOrderId", "applied"}

\* What every aggregate is after its first record: fills fit its state, and only
\* an order that is not terminal waits for a modify or a cancel.
GoodOrder(o) ==
    /\ DOMAIN o = OrderFields /\ o.side = "Buy" /\ o.applied = {}
    /\ o.original \in Nat \ {0} /\ o.effective \in Nat \ {0}
    /\ o.price \in Nat /\ o.cumulative \in Nat /\ o.cumulative <= o.effective
    /\ o.state \in OrderStates \ {"Prepared"} /\ o.pending \in PendingMutations
    /\ o.state \in {"SubmissionStarted", "Acknowledged"} => o.cumulative = 0
    /\ o.state = "PartiallyFilled" => o.cumulative > 0
    /\ o.state \in Working \cup Unresolved => o.cumulative < o.effective
    /\ o.state = "Filled" => o.cumulative = o.effective
    /\ o.pending # "None" => o.state \in Working \cup Unresolved

\* A map of such aggregates (RecoveredPaperState.orders).
GoodOrders(f) == \A o \in DOMAIN f : GoodOrder(f[o])

\* Evidence of a session: it carries no update id, because the ids of its
\* updates are unique, and numbers that a record can hold.
SessionKinds ==
    {"BrokerAcknowledged", "BrokerRejected", "FillUpdate", "ModifyRequested", "ModifyAccepted",
     "ModifyRejected", "CancelRequested", "CancelAccepted", "CancelRejected",
     "SubmissionAmbiguous"}

\* What a session passes to apply_order_update().
SessionEvidence(u) ==
    /\ u.id = NoId /\ u.kind \in SessionKinds
    /\ u.quantity \in Nat /\ u.price \in Nat /\ u.cumulative \in Int

\* The evidence that answers a submission, makes an outcome uncertain, or puts
\* an order to work.
Answers == {"BrokerAcknowledged", "BrokerRejected", "SubmissionAmbiguous"}

\* The evidence that leaves the outcome of an order unknown.
Uncertain == {"CancelRejected", "SubmissionAmbiguous"}

\* The evidence that puts an order back to work.
Reviving == {"BrokerAcknowledged", "ModifyAccepted", "ModifyRejected"}

\* What one piece of evidence of a kind makes of order o.
Moves(o, kind, q) ==
    /\ GoodOrder(q)
    /\ o.state = "SubmissionStarted" => kind \in Answers
    /\ q.state \in Unresolved /\ o.state \notin Unresolved => kind \in Uncertain
    /\ q.state \in Working /\ o.state \notin Working => kind \in Reviving
    /\ kind # "ModifyAccepted" => q.effective = o.effective /\ q.price = o.price

\* The states are names of their own.
LEMMA States ==
    /\ Working \cup Unresolved \cup Terminal \cup {"SubmissionStarted"} = OrderStates \ {"Prepared"}
    /\ Working \cap Unresolved = {} /\ Terminal \cap (Working \cup Unresolved) = {}
    /\ "SubmissionStarted" \notin Working \cup Unresolved \cup Terminal
BY DEF Working, Unresolved, Terminal, OrderStates

\* Evidence that is taken leaves an order with these fields.
LEMMA EvidenceTaken ==
    ASSUME NEW next, NEW u, u.id = NoId, NEW delta
    PROVE  ApplyEvidence(next, u, delta).order = next
BY DEF ApplyEvidence

\* The tests that apply_order_update() makes before the transition pass.
LEMMA EvidenceApplied ==
    ASSUME NEW o, GoodOrder(o), NEW u, SessionEvidence(u)
    PROVE  ApplyOrderUpdate(o, u) = Transition(o, u)
<1>1. ~InvalidAggregate(o)
  BY DEF InvalidAggregate, GoodOrder
<1>2. ~DuplicateEvidence(o, u)
  BY DEF DuplicateEvidence, SessionEvidence
<1> QED BY <1>1, <1>2 DEF ApplyOrderUpdate

\* The broker accepts a submission.
LEMMA AcknowledgedMoves ==
    ASSUME NEW o, GoodOrder(o), NEW u, SessionEvidence(u), NEW r,
           r = OnBrokerAcknowledged(o, u), ~r.refused
    PROVE  /\ o.state = "SubmissionStarted" /\ r.order.state = "Acknowledged"
           /\ r.order.cumulative = 0
           /\ Moves(o, "BrokerAcknowledged", r.order)
<1> DEFINE q == [o EXCEPT !.brokerOrderId = u.brokerOrderId, !.state = "Acknowledged"]
<1>1. o.state = "SubmissionStarted" /\ WorkingState(o) = "Acknowledged"
  BY DEF OnBrokerAcknowledged, Refuse, WorkingState, GoodOrder
<1>2. r.order = q
  BY <1>1, EvidenceTaken DEF OnBrokerAcknowledged, Refuse, SessionEvidence
<1>3. /\ DOMAIN q = OrderFields /\ q.side = o.side /\ q.applied = o.applied
      /\ q.original = o.original /\ q.effective = o.effective /\ q.price = o.price
      /\ q.cumulative = o.cumulative /\ q.pending = o.pending /\ q.state = "Acknowledged"
  BY DEF GoodOrder, OrderFields
<1> HIDE DEF q
<1>4. GoodOrder(q)
  BY <1>1, <1>3, States DEF GoodOrder, Working, Unresolved, OrderStates
<1> QED BY <1>1, <1>2, <1>3, <1>4, States DEF Moves, Answers, Reviving, GoodOrder, Unresolved

\* The broker rejects a submission.
LEMMA RejectedMoves ==
    ASSUME NEW o, GoodOrder(o), NEW u, SessionEvidence(u), NEW r,
           r = OnBrokerRejected(o, u), ~r.refused
    PROVE  Moves(o, "BrokerRejected", r.order)
<1>1. CASE o.state = "Rejected"
  <2>1. r.order = o
    BY <1>1, EvidenceTaken DEF OnBrokerRejected, SessionEvidence
  <2> QED BY <1>1, <2>1 DEF Moves, Answers
<1>2. CASE o.state # "Rejected"
  <2> DEFINE q == [o EXCEPT !.state = "Rejected"]
  <2>1. o.state = "SubmissionStarted"
    BY <1>2 DEF OnBrokerRejected, Refuse, GoodOrder
  <2>2. r.order = q
    BY <2>1, EvidenceTaken DEF OnBrokerRejected, SessionEvidence
  <2>3. /\ DOMAIN q = OrderFields /\ q.side = o.side /\ q.applied = o.applied
        /\ q.original = o.original /\ q.effective = o.effective /\ q.price = o.price
        /\ q.cumulative = o.cumulative /\ q.pending = o.pending /\ q.state = "Rejected"
    BY DEF GoodOrder, OrderFields
  <2> HIDE DEF q
  <2>4. GoodOrder(q)
    BY <2>1, <2>3, States DEF GoodOrder, Working, Unresolved, OrderStates
  <2> QED BY <2>1, <2>2, <2>3, <2>4 DEF Moves, Answers, Unresolved, Working
<1> QED BY <1>1, <1>2

\* A cumulative fill.
LEMMA FillMoves ==
    ASSUME NEW o, GoodOrder(o), NEW u, SessionEvidence(u), NEW r,
           r = OnFillUpdate(o, u), ~r.refused
    PROVE  /\ Moves(o, "FillUpdate", r.order)
           /\ o.state \in Working \cup {"Filled"} /\ r.order.state \in Working \cup {"Filled"}
           /\ u.cumulative = o.effective => r.order.state = "Filled"
           /\ u.cumulative <= o.effective
           /\ r.order.state = "Filled" => u.cumulative = o.effective
<1> DEFINE delta == u.cumulative - o.cumulative
           filled == [o EXCEPT !.cumulative = u.cumulative]
<1>0. o.cumulative \in Nat /\ o.effective \in Nat /\ u.cumulative \in Int
  BY DEF GoodOrder, SessionEvidence
<1>1. CASE o.state \notin Working
  <2>1. o.state = "Filled" /\ u.cumulative = o.cumulative /\ r.order = o
    BY <1>1, EvidenceTaken DEF OnFillUpdate, Refuse, SessionEvidence
  <2>2. o.cumulative = o.effective
    BY <2>1 DEF GoodOrder
  <2> QED BY <1>0, <1>1, <2>1, <2>2, States DEF Moves, Unresolved
<1>2. CASE o.state \in Working
  <2>1. delta >= 0 /\ u.cumulative <= o.effective
    BY <1>0, <1>2 DEF OnFillUpdate, Refuse
  <2>2. CASE delta = 0
    <3>1. r.order = o
      <4>1. r = ApplyEvidence(o, u, 0)
        BY <1>0, <1>2, <2>1, <2>2 DEF OnFillUpdate, Refuse
      <4> QED BY <4>1, EvidenceTaken DEF SessionEvidence
    <3>2. u.cumulative < o.effective /\ o.state # "Filled"
      BY <1>0, <1>2, <2>2 DEF GoodOrder, Working
    <3> QED BY <1>0, <1>2, <3>1, <3>2, States DEF Moves, Working
  <2>3. CASE delta > 0
    <3>0. DOMAIN filled = OrderFields /\ filled.cumulative = u.cumulative
          /\ filled.side = o.side /\ filled.applied = o.applied /\ filled.original = o.original
          /\ filled.effective = o.effective /\ filled.price = o.price
          /\ filled.pending = o.pending /\ filled.state = o.state
      BY DEF GoodOrder, OrderFields
    <3>1. CASE u.cumulative = o.effective
      <4> DEFINE w == WithoutPending(filled)
                 q == [w EXCEPT !.state = "Filled"]
      <4>1. r.order = q
        <5>1. r = ApplyEvidence(q, u, delta * SignOf(o.side))
          BY <1>0, <1>2, <2>1, <2>3, <3>1 DEF OnFillUpdate, Refuse
        <5> HIDE DEF q
        <5> QED BY <5>1, EvidenceTaken DEF SessionEvidence
      <4> HIDE DEF filled
      <4>2. /\ DOMAIN w = OrderFields /\ w.side = o.side /\ w.applied = o.applied
            /\ w.original = o.original /\ w.effective = o.effective /\ w.price = o.price
            /\ w.cumulative = u.cumulative /\ w.pending = "None"
        BY <3>0 DEF OrderFields, WithoutPending
      <4> HIDE DEF w
      <4>3. /\ DOMAIN q = OrderFields /\ q.side = o.side /\ q.applied = o.applied
            /\ q.original = o.original /\ q.effective = o.effective /\ q.price = o.price
            /\ q.cumulative = u.cumulative /\ q.pending = "None" /\ q.state = "Filled"
        BY <4>2 DEF OrderFields
      <4> HIDE DEF q
      <4>4. GoodOrder(q)
        BY <1>0, <3>1, <4>3, States DEF GoodOrder, Working, Unresolved, OrderStates, PendingMutations
      <4> QED BY <1>0, <1>2, <3>1, <4>1, <4>3, <4>4, States DEF Moves, Working, Unresolved
    <3>2. CASE u.cumulative < o.effective
      <4> DEFINE q == [filled EXCEPT !.state = "PartiallyFilled"]
      <4>1. r.order = q
        <5>1. r = ApplyEvidence(q, u, delta * SignOf(o.side))
          BY <1>0, <1>2, <2>1, <2>3, <3>2 DEF OnFillUpdate, Refuse
        <5> HIDE DEF q
        <5> QED BY <5>1, EvidenceTaken DEF SessionEvidence
      <4> HIDE DEF filled
      <4>2. /\ DOMAIN q = OrderFields /\ q.side = o.side /\ q.applied = o.applied
            /\ q.original = o.original /\ q.effective = o.effective /\ q.price = o.price
            /\ q.cumulative = u.cumulative /\ q.pending = o.pending /\ q.state = "PartiallyFilled"
        BY <3>0 DEF OrderFields
      <4> HIDE DEF q
      <4>3. GoodOrder(q)
        BY <1>0, <2>3, <3>2, <4>2, States DEF GoodOrder, Working, Unresolved, OrderStates
      <4> QED BY <1>0, <1>2, <3>2, <4>1, <4>2, <4>3, States DEF Moves, Working, Unresolved
    <3> QED BY <1>0, <2>1, <3>1, <3>2
  <2> QED BY <1>0, <2>1, <2>2, <2>3
<1> QED BY <1>1, <1>2

\* A modify is sent.
LEMMA ModifyRequestedMoves ==
    ASSUME NEW o, GoodOrder(o), NEW u, SessionEvidence(u), NEW r,
           r = OnModifyRequested(o, u), ~r.refused
    PROVE  /\ Moves(o, "ModifyRequested", r.order)
           /\ o.state \in Working /\ r.order.state = o.state
           /\ r.order.pending = "Modify" /\ r.order.cumulative = o.cumulative
           /\ r.order.pendingQuantity = u.quantity /\ r.order.pendingPrice = u.price
<1> DEFINE q == [o EXCEPT !.pending = "Modify", !.pendingQuantity = u.quantity,
                          !.pendingPrice = u.price]
<1>1. o.state \in Working
  BY DEF OnModifyRequested, Refuse
<1>2. r.order = q
  <2>1. r = ApplyEvidence(q, u, 0)
    BY DEF OnModifyRequested, Refuse
  <2> HIDE DEF q
  <2> QED BY <2>1, EvidenceTaken DEF SessionEvidence
<1>3. /\ DOMAIN q = OrderFields /\ q.side = o.side /\ q.applied = o.applied
      /\ q.original = o.original /\ q.effective = o.effective /\ q.price = o.price
      /\ q.cumulative = o.cumulative /\ q.pending = "Modify" /\ q.state = o.state
      /\ q.pendingQuantity = u.quantity /\ q.pendingPrice = u.price
  BY DEF GoodOrder, OrderFields
<1> HIDE DEF q
<1>4. GoodOrder(q)
  BY <1>1, <1>3 DEF GoodOrder, PendingMutations
<1> QED BY <1>1, <1>2, <1>3, <1>4, States DEF Moves

\* The broker accepts the modify in flight.
LEMMA ModifyAcceptedMoves ==
    ASSUME NEW o, GoodOrder(o), NEW u, SessionEvidence(u), NEW r,
           r = OnModifyAccepted(o, u), ~r.refused
    PROVE  /\ Moves(o, "ModifyAccepted", r.order)
           /\ o.pending = "Modify" /\ r.order.cumulative = o.cumulative
           /\ r.order.effective = u.quantity /\ r.order.price = u.price
           /\ o.cumulative < u.quantity => r.order.state = WorkingState(o)
<1> DEFINE w == WithoutPending(o)
           next == [w EXCEPT !.effective = u.quantity, !.price = u.price]
           q == [next EXCEPT !.state = SettledState(next)]
<1>1. /\ o.pending = "Modify" /\ u.quantity # 0 /\ u.price # 0 /\ ~(u.quantity < o.cumulative)
  BY DEF OnModifyAccepted, Refuse
<1>2. r.order = q
  <2>1. r = ApplyEvidence(q, u, 0)
    BY DEF OnModifyAccepted, Refuse
  <2> HIDE DEF q
  <2> QED BY <2>1, EvidenceTaken DEF SessionEvidence
<1>3. /\ DOMAIN w = OrderFields /\ w.side = o.side /\ w.applied = o.applied
      /\ w.original = o.original /\ w.cumulative = o.cumulative /\ w.pending = "None"
      /\ w.state = o.state
  BY DEF GoodOrder, OrderFields, WithoutPending
<1> HIDE DEF w
<1>4. /\ DOMAIN next = OrderFields /\ next.side = o.side /\ next.applied = o.applied
      /\ next.original = o.original /\ next.cumulative = o.cumulative /\ next.pending = "None"
      /\ next.effective = u.quantity /\ next.price = u.price
  BY <1>3 DEF OrderFields
<1> HIDE DEF next
<1>5. /\ DOMAIN q = OrderFields /\ q.side = o.side /\ q.applied = o.applied
      /\ q.original = o.original /\ q.cumulative = o.cumulative /\ q.pending = "None"
      /\ q.effective = u.quantity /\ q.price = u.price /\ q.state = SettledState(next)
  BY <1>4 DEF OrderFields
<1> HIDE DEF q
<1>6. o.cumulative \in Nat /\ u.quantity \in Nat /\ u.price \in Nat /\ o.state \in Working \cup Unresolved
  BY <1>1 DEF GoodOrder, SessionEvidence
<1>7. q.state = IF o.cumulative = u.quantity THEN "Filled" ELSE WorkingState(o)
  BY <1>4, <1>5 DEF SettledState, WorkingState
<1>8. WorkingState(o) = IF o.cumulative = 0 THEN "Acknowledged" ELSE "PartiallyFilled"
  BY DEF WorkingState
<1>9. GoodOrder(q)
  <2>1. q.state \in OrderStates \ {"Prepared"} /\ q.state # "SubmissionStarted"
    BY <1>7, <1>8 DEF OrderStates
  <2>2. q.state = "Filled" => q.cumulative = q.effective
    BY <1>5, <1>7, <1>8
  <2>3. q.state # "Filled" => q.cumulative < q.effective
    BY <1>1, <1>5, <1>6, <1>7
  <2>4. q.state = "Acknowledged" => q.cumulative = 0
    BY <1>5, <1>7, <1>8
  <2>5. q.state = "PartiallyFilled" => q.cumulative > 0
    BY <1>5, <1>6, <1>7, <1>8
  <2>6. q.cumulative <= q.effective
    BY <1>1, <1>5, <1>6
  <2>7. "Filled" \notin Working \cup Unresolved
    BY DEF Working, Unresolved
  <2> QED BY <1>1, <1>5, <1>6, <2>1, <2>2, <2>3, <2>4, <2>5, <2>6, <2>7 DEF GoodOrder, PendingMutations
<1>10. q.state \notin Unresolved
  BY <1>7, <1>8 DEF Unresolved
<1>11. o.state # "SubmissionStarted"
  BY <1>6, States
<1>12. Moves(o, "ModifyAccepted", q)
  BY <1>9, <1>10, <1>11 DEF Moves, Reviving
<1>13. o.cumulative < u.quantity => q.state = WorkingState(o)
  BY <1>6, <1>7
<1> QED BY <1>1, <1>2, <1>5, <1>12, <1>13

\* The broker rejects the modify in flight.
LEMMA ModifyRejectedMoves ==
    ASSUME NEW o, GoodOrder(o), NEW u, SessionEvidence(u), NEW r,
           r = OnModifyRejected(o, u), ~r.refused
    PROVE  Moves(o, "ModifyRejected", r.order)
<1> DEFINE w == WithoutPending(o)
           q == [w EXCEPT !.state = WorkingState(o)]
<1>1. o.pending = "Modify"
  BY DEF OnModifyRejected, Refuse
<1>2. r.order = q
  <2>1. r = ApplyEvidence(q, u, 0)
    BY DEF OnModifyRejected, Refuse
  <2> HIDE DEF q
  <2> QED BY <2>1, EvidenceTaken DEF SessionEvidence
<1>3. /\ DOMAIN w = OrderFields /\ w.side = o.side /\ w.applied = o.applied
      /\ w.original = o.original /\ w.cumulative = o.cumulative /\ w.pending = "None"
      /\ w.effective = o.effective /\ w.price = o.price
  BY DEF GoodOrder, OrderFields, WithoutPending
<1> HIDE DEF w
<1>4. /\ DOMAIN q = OrderFields /\ q.side = o.side /\ q.applied = o.applied
      /\ q.original = o.original /\ q.cumulative = o.cumulative /\ q.pending = "None"
      /\ q.effective = o.effective /\ q.price = o.price /\ q.state = WorkingState(o)
  BY <1>3 DEF OrderFields
<1> HIDE DEF q
<1>5. o.state \in Working \cup Unresolved /\ o.cumulative < o.effective /\ o.cumulative \in Nat
  BY <1>1 DEF GoodOrder
<1>6. q.state = IF o.cumulative = 0 THEN "Acknowledged" ELSE "PartiallyFilled"
  BY <1>4 DEF WorkingState
<1>7. GoodOrder(q)
  <2>1. /\ q.state \in OrderStates \ {"Prepared"} /\ q.state \notin {"SubmissionStarted", "Filled"}
        /\ q.state = "Acknowledged" => q.cumulative = 0
        /\ q.state = "PartiallyFilled" => q.cumulative > 0
    BY <1>4, <1>5, <1>6 DEF OrderStates
  <2>2. q.cumulative < q.effective
    BY <1>4, <1>5
  <2> QED BY <1>4, <1>5, <2>1, <2>2 DEF GoodOrder, PendingMutations
<1>8. q.state \notin Unresolved /\ o.state # "SubmissionStarted"
  BY <1>5, <1>6, States DEF Unresolved
<1> QED BY <1>2, <1>4, <1>7, <1>8 DEF Moves, Reviving

\* A cancel is sent.
LEMMA CancelRequestedMoves ==
    ASSUME NEW o, GoodOrder(o), NEW u, SessionEvidence(u), NEW r,
           r = OnCancelRequested(o, u), ~r.refused
    PROVE  /\ Moves(o, "CancelRequested", r.order)
           /\ o.state \in Working /\ r.order.state = o.state
           /\ r.order.pending = "Cancel" /\ r.order.cumulative = o.cumulative
<1> DEFINE q == [o EXCEPT !.pending = "Cancel", !.cancelWasRequested = TRUE]
<1>1. o.state \in Working
  BY DEF OnCancelRequested, Refuse
<1>2. r.order = q
  <2>1. r = ApplyEvidence(q, u, 0)
    BY DEF OnCancelRequested, Refuse
  <2> HIDE DEF q
  <2> QED BY <2>1, EvidenceTaken DEF SessionEvidence
<1>3. /\ DOMAIN q = OrderFields /\ q.side = o.side /\ q.applied = o.applied
      /\ q.original = o.original /\ q.effective = o.effective /\ q.price = o.price
      /\ q.cumulative = o.cumulative /\ q.pending = "Cancel" /\ q.state = o.state
  BY DEF GoodOrder, OrderFields
<1> HIDE DEF q
<1>4. GoodOrder(q)
  BY <1>1, <1>3 DEF GoodOrder, PendingMutations
<1> QED BY <1>1, <1>2, <1>3, <1>4, States DEF Moves

\* The broker accepts the cancel in flight, or a late one after the order ended.
LEMMA CancelAcceptedMoves ==
    ASSUME NEW o, GoodOrder(o), NEW u, SessionEvidence(u), NEW r,
           r = OnCancelAccepted(o, u), ~r.refused
    PROVE  /\ Moves(o, "CancelAccepted", r.order)
           /\ r.order.state \in {"Filled", "Cancelled"}
           /\ o.state \in Working => r.order.state = "Cancelled" /\ r.order.cumulative = o.cumulative
<1>1. CASE o.state \in {"Filled", "Cancelled"}
  <2>1. r.order = o
    <3>1. r = ApplyEvidence(o, u, 0)
      BY <1>1 DEF OnCancelAccepted, Refuse
    <3> QED BY <3>1, EvidenceTaken DEF SessionEvidence
  <2>2. o.state \notin Working \cup Unresolved \cup {"SubmissionStarted"}
    BY <1>1 DEF Working, Unresolved
  <2> QED BY <1>1, <2>1, <2>2 DEF Moves
<1>2. CASE o.state \notin {"Filled", "Cancelled"}
  <2> DEFINE q == [o EXCEPT !.pending = "None", !.state = "Cancelled"]
  <2>1. o.pending = "Cancel"
    BY <1>2 DEF OnCancelAccepted, Refuse
  <2>2. r.order = q
    <3>1. r = ApplyEvidence(q, u, 0)
      BY <1>2, <2>1 DEF OnCancelAccepted, Refuse
    <3> HIDE DEF q
    <3> QED BY <3>1, EvidenceTaken DEF SessionEvidence
  <2>3. /\ DOMAIN q = OrderFields /\ q.side = o.side /\ q.applied = o.applied
        /\ q.original = o.original /\ q.effective = o.effective /\ q.price = o.price
        /\ q.cumulative = o.cumulative /\ q.pending = "None" /\ q.state = "Cancelled"
    BY DEF GoodOrder, OrderFields
  <2> HIDE DEF q
  <2>4. "Cancelled" \notin Working \cup Unresolved \cup {"SubmissionStarted", "Acknowledged",
                             "PartiallyFilled", "Filled", "Prepared"} /\ "Cancelled" \in OrderStates
    BY DEF Working, Unresolved, OrderStates
  <2>5. GoodOrder(q)
    BY <2>3, <2>4 DEF GoodOrder, PendingMutations
  <2>6. o.state # "SubmissionStarted"
    BY <2>1, States DEF GoodOrder
  <2> QED BY <2>2, <2>3, <2>4, <2>5, <2>6 DEF Moves
<1> QED BY <1>1, <1>2

\* The broker rejects the cancel in flight.
LEMMA CancelRejectedMoves ==
    ASSUME NEW o, GoodOrder(o), NEW u, SessionEvidence(u), NEW r,
           r = OnCancelRejected(o, u), ~r.refused
    PROVE  Moves(o, "CancelRejected", r.order)
<1> DEFINE q == [o EXCEPT !.pending = "None", !.state = "ReconciliationRequired"]
<1>1. o.pending = "Cancel"
  BY DEF OnCancelRejected, Refuse
<1>2. r.order = q
  <2>1. r = ApplyEvidence(q, u, 0)
    BY DEF OnCancelRejected, Refuse
  <2> HIDE DEF q
  <2> QED BY <2>1, EvidenceTaken DEF SessionEvidence
<1>3. /\ DOMAIN q = OrderFields /\ q.side = o.side /\ q.applied = o.applied
      /\ q.original = o.original /\ q.effective = o.effective /\ q.price = o.price
      /\ q.cumulative = o.cumulative /\ q.pending = "None" /\ q.state = "ReconciliationRequired"
  BY DEF GoodOrder, OrderFields
<1> HIDE DEF q
<1>4. o.state \in Working \cup Unresolved /\ o.cumulative < o.effective
  BY <1>1 DEF GoodOrder
<1>5. GoodOrder(q)
  BY <1>3, <1>4 DEF GoodOrder, PendingMutations, OrderStates
<1>6. q.state \notin Working /\ o.state # "SubmissionStarted"
  BY <1>3, <1>4, States DEF Working
<1> QED BY <1>2, <1>3, <1>5, <1>6 DEF Moves, Uncertain

\* The outcome of an attempt is unknown.
LEMMA AmbiguousMoves ==
    ASSUME NEW o, GoodOrder(o), NEW u, SessionEvidence(u), NEW r,
           r = OnSubmissionAmbiguous(o, u), ~r.refused
    PROVE  Moves(o, "SubmissionAmbiguous", r.order)
<1> DEFINE s == IF o.state = "SubmissionStarted" THEN "AmbiguousSubmission"
                ELSE "ReconciliationRequired"
           q == [o EXCEPT !.state = s]
<1>1. o.state = "SubmissionStarted" \/ o.pending # "None"
  BY DEF OnSubmissionAmbiguous, Refuse
<1>2. r.order = q
  <2>1. r = ApplyEvidence(q, u, 0)
    BY DEF OnSubmissionAmbiguous, Refuse
  <2> HIDE DEF q
  <2> QED BY <2>1, EvidenceTaken DEF SessionEvidence
<1>3. /\ DOMAIN q = OrderFields /\ q.side = o.side /\ q.applied = o.applied
      /\ q.original = o.original /\ q.effective = o.effective /\ q.price = o.price
      /\ q.cumulative = o.cumulative /\ q.pending = o.pending /\ q.state = s
  BY DEF GoodOrder, OrderFields
<1>4. s \in Unresolved
  BY DEF Unresolved
<1> HIDE DEF q, s
<1>5. o.cumulative < o.effective
  BY <1>1 DEF GoodOrder
<1>6. s \notin Working \cup {"SubmissionStarted", "Acknowledged", "PartiallyFilled", "Filled", "Prepared"}
      /\ s \in OrderStates
  BY <1>4 DEF Unresolved, Working, OrderStates
<1>7. GoodOrder(q)
  BY <1>3, <1>4, <1>5, <1>6 DEF GoodOrder
<1> QED BY <1>2, <1>3, <1>6, <1>7 DEF Moves, Uncertain, Answers

\* Each kind of evidence is handled by its own operator.
LEMMA EvidenceIs ==
    ASSUME NEW o, GoodOrder(o), NEW u, SessionEvidence(u)
    PROVE  LET r == ApplyOrderUpdate(o, u)
           IN  /\ u.kind = "BrokerAcknowledged" => r = OnBrokerAcknowledged(o, u)
               /\ u.kind = "BrokerRejected" => r = OnBrokerRejected(o, u)
               /\ u.kind = "FillUpdate" => r = OnFillUpdate(o, u)
               /\ u.kind = "ModifyRequested" => r = OnModifyRequested(o, u)
               /\ u.kind = "ModifyAccepted" => r = OnModifyAccepted(o, u)
               /\ u.kind = "ModifyRejected" => r = OnModifyRejected(o, u)
               /\ u.kind = "CancelRequested" => r = OnCancelRequested(o, u)
               /\ u.kind = "CancelAccepted" => r = OnCancelAccepted(o, u)
               /\ u.kind = "CancelRejected" => r = OnCancelRejected(o, u)
               /\ u.kind = "SubmissionAmbiguous" => r = OnSubmissionAmbiguous(o, u)
<1>1. ApplyOrderUpdate(o, u) = Transition(o, u)
  BY EvidenceApplied
<1>2. CASE u.kind = "BrokerAcknowledged"
  BY <1>1, <1>2 DEF Transition
<1>3. CASE u.kind = "BrokerRejected"
  BY <1>1, <1>3 DEF Transition
<1>4. CASE u.kind = "FillUpdate"
  BY <1>1, <1>4 DEF Transition
<1>5. CASE u.kind = "ModifyRequested"
  BY <1>1, <1>5 DEF Transition
<1>6. CASE u.kind = "ModifyAccepted"
  BY <1>1, <1>6 DEF Transition
<1>7. CASE u.kind = "ModifyRejected"
  BY <1>1, <1>7 DEF Transition
<1>8. CASE u.kind = "CancelRequested"
  BY <1>1, <1>8 DEF Transition
<1>9. CASE u.kind = "CancelAccepted"
  BY <1>1, <1>9 DEF Transition
<1>10. CASE u.kind = "CancelRejected"
  BY <1>1, <1>10 DEF Transition
<1>11. CASE u.kind = "SubmissionAmbiguous"
  BY <1>1, <1>11 DEF Transition
<1> QED
  BY <1>2, <1>3, <1>4, <1>5, <1>6, <1>7, <1>8, <1>9, <1>10, <1>11 DEF SessionEvidence, SessionKinds

\* Evidence that is not refused moves a good order to a good one.
LEMMA EvidenceMoves ==
    ASSUME NEW o, GoodOrder(o), NEW u, SessionEvidence(u), NEW r,
           r = ApplyOrderUpdate(o, u), ~r.refused
    PROVE  Moves(o, u.kind, r.order)
<1>1. CASE u.kind = "BrokerAcknowledged"
  BY <1>1, EvidenceIs, AcknowledgedMoves
<1>2. CASE u.kind = "BrokerRejected"
  BY <1>2, EvidenceIs, RejectedMoves
<1>3. CASE u.kind = "FillUpdate"
  BY <1>3, EvidenceIs, FillMoves
<1>4. CASE u.kind = "ModifyRequested"
  BY <1>4, EvidenceIs, ModifyRequestedMoves
<1>5. CASE u.kind = "ModifyAccepted"
  BY <1>5, EvidenceIs, ModifyAcceptedMoves
<1>6. CASE u.kind = "ModifyRejected"
  BY <1>6, EvidenceIs, ModifyRejectedMoves
<1>7. CASE u.kind = "CancelRequested"
  BY <1>7, EvidenceIs, CancelRequestedMoves
<1>8. CASE u.kind = "CancelAccepted"
  BY <1>8, EvidenceIs, CancelAcceptedMoves
<1>9. CASE u.kind = "CancelRejected"
  BY <1>9, EvidenceIs, CancelRejectedMoves
<1>10. CASE u.kind = "SubmissionAmbiguous"
  BY <1>10, EvidenceIs, AmbiguousMoves
<1> QED
  BY <1>1, <1>2, <1>3, <1>4, <1>5, <1>6, <1>7, <1>8, <1>9, <1>10 DEF SessionEvidence, SessionKinds

\* A new order whose attempt is recorded.
Submission(order, quantity, price) ==
    /\ GoodOrder(order) /\ order.state = "SubmissionStarted" /\ order.pending = "None"
    /\ order.effective = quantity /\ order.price = price /\ order.cumulative = 0

\* The first record of an order: a quantity of zero is refused.
LEMMA SubmissionMoves ==
    ASSUME NEW quantity \in Nat, NEW price \in Nat, NEW u, u.id = NoId,
           u.kind = "SubmissionStarted", NEW r,
           r = ApplyOrderUpdate(NewOrder("Buy", quantity, price), u)
    PROVE  /\ r.refused <=> quantity = 0
           /\ ~r.refused => Submission(r.order, quantity, price)
<1> DEFINE o == NewOrder("Buy", quantity, price)
           q == [o EXCEPT !.state = "SubmissionStarted"]
<1>1. /\ DOMAIN o = OrderFields /\ o.side = "Buy" /\ o.applied = {} /\ o.original = quantity
      /\ o.effective = quantity /\ o.price = price /\ o.cumulative = 0 /\ o.pending = "None"
      /\ o.state = "Prepared"
  BY DEF NewOrder, OrderFields
<1> HIDE DEF o
<1>2. r = ApplyOrderUpdate(o, u)
  BY DEF o
<1>3. InvalidAggregate(o) <=> quantity = 0
  BY <1>1 DEF InvalidAggregate
<1>4. ~DuplicateEvidence(o, u)
  BY DEF DuplicateEvidence
<1>5. Transition(o, u) = ApplyEvidence(q, u, 0)
  <2>1. Transition(o, u) = OnSubmissionStarted(o, u)
    BY DEF Transition
  <2> QED BY <1>1, <2>1 DEF OnSubmissionStarted
<1>6. /\ DOMAIN q = OrderFields /\ q.side = "Buy" /\ q.applied = {} /\ q.original = quantity
      /\ q.effective = quantity /\ q.price = price /\ q.cumulative = 0 /\ q.pending = "None"
      /\ q.state = "SubmissionStarted"
  BY <1>1 DEF OrderFields
<1> HIDE DEF q
<1>7. CASE quantity = 0
  <2>1. r = Refuse(o, TRUE)
    BY <1>2, <1>3, <1>7 DEF ApplyOrderUpdate
  <2> QED BY <1>7, <2>1 DEF Refuse
<1>8. CASE quantity # 0
  <2>1. r = ApplyEvidence(q, u, 0)
    BY <1>2, <1>3, <1>4, <1>5, <1>8 DEF ApplyOrderUpdate
  <2>2. r.order = q /\ ~r.refused
    BY <2>1, EvidenceTaken DEF ApplyEvidence
  <2>3. GoodOrder(q)
    BY <1>6, <1>8, States DEF GoodOrder, OrderStates, PendingMutations, Working, Unresolved
  <2> QED BY <1>6, <1>8, <2>2, <2>3 DEF Submission
<1> QED BY <1>7, <1>8

-----------------------------------------------------------------------------
(* What one record of a session does to the replayed ledger, field by field. *)

\* The two decisions of the risk engine, and the records that need an intent
\* on record.
Decisions == {"risk_approved", "risk_rejected"}

\* The records that need their intent on record (replay()).
Named ==
    Mapping \cup Decisions \cup {"submission_started", "reconciliation_required"}
      \cup DOMAIN EvidenceKind

\* The records a session writes: numbers that fit, the order of a place named
\* after it, an intent for everything that is said of an order.
TypedRecord(e) ==
    /\ e.side = "Buy" /\ e.quantity \in Nat /\ e.price \in Nat
    /\ e.cumulative \in Int /\ e.sequence \in Nat
    /\ e.type = "reconciliation_completed" => e.order = NoId
    /\ e.type \in {"submission_started", "broker_acknowledged", "broker_rejected"} =>
         e.order = e.intent /\ e.order \in Places
    /\ e.type \in DOMAIN EvidenceKind => e.intent # NoId

\* What a record makes of a new order and of an order on record.
Submitted(e) ==
    ApplyOrderUpdate(NewOrder(e.side, e.quantity, e.price), EvidenceOf(e, "SubmissionStarted"))

\* What a record makes of its order on record.
Answer(s, e) ==
    ApplyOrderUpdate(s.orders[e.order], EvidenceOf(e, EvidenceKind[e.type]))

\* The order state machine takes the record, and the orders after it.
Legal(s, e) ==
    /\ e.type = "submission_started" => e.order \notin DOMAIN s.orders /\ ~Submitted(e).refused
    /\ e.type \in DOMAIN EvidenceKind => e.order \in DOMAIN s.orders /\ ~Answer(s, e).refused

\* The orders after a record: one more, one changed, or the same.
OrdersAfter(s, e) ==
    IF e.type = "submission_started" THEN Put(s.orders, e.order, Submitted(e).order)
    ELSE IF e.type \in DOMAIN EvidenceKind
    THEN [s.orders EXCEPT ![e.order] = Answer(s, e).order]
    ELSE s.orders

\* Replay takes the record.
Clean(s, e) ==
    /\ Legal(s, e)
    /\ e.type = "intent_received" => e.intent \notin DOMAIN s.intents
    /\ e.type \in Named => e.intent \in DOMAIN s.intents
    /\ e.type \in Decisions => ~s.intents[e.intent].decided

\* The intents after the record.
IntentsAfter(s, e, t) ==
    /\ DOMAIN t.intents =
         DOMAIN s.intents \cup (IF e.type = "intent_received" THEN {e.intent} ELSE {})
    /\ \A i \in DOMAIN s.intents :
         /\ s.intents[i].outcome = TRUE => t.intents[i].outcome = TRUE
         /\ t.intents[i].decided => s.intents[i].decided \/ (e.type \in Decisions /\ e.intent = i)
    /\ \A i \in DOMAIN t.intents \ DOMAIN s.intents : ~t.intents[i].decided
    /\ e.type \in Named /\ e.intent # NoId => e.intent \in DOMAIN s.intents
    /\ e.type \in BrokerOutcomes => t.intents[e.intent].outcome = TRUE

\* Ledger t is what replay() makes of ledger s and record e.
Effect(s, e, t) ==
    /\ Clean(s, e) => ~t.faulty
    /\ ~t.faulty =>
         /\ Legal(s, e) /\ t.orders = OrdersAfter(s, e) /\ t.lastUpdate = s.lastUpdate
         /\ IntentsAfter(s, e, t)
         /\ e.type # "reconciliation_completed" /\ s.recon => t.recon
         /\ e.type \in AmbiguousOutcomes => t.recon

\* The types of records are names of their own.
LEMMA RecordTypes ==
    /\ "submission_started" \notin DOMAIN EvidenceKind
    /\ BrokerOutcomes \subseteq DOMAIN EvidenceKind /\ AmbiguousOutcomes \subseteq BrokerOutcomes
    /\ (Mapping \cup Decisions \cup {"intent_received", "reconciliation_required",
          "reconciliation_completed", "safety_stop", "session_started", "session_stopping",
          "session_stopped", "ledger_repair_recorded", "submission_started"})
         \cap DOMAIN EvidenceKind = {}
    /\ Decisions \cap (Mapping \cup {"submission_started", "reconciliation_required"}) = {}
    /\ "submission_started" \notin Mapping
BY DEF EvidenceKind, BrokerOutcomes, AmbiguousOutcomes, Mapping, Decisions

\* update_intent() changes the disposition, the order and the ambiguity.
LEMMA UpdateIntentEffect ==
    ASSUME NEW s, GoodReplay(s), ~s.faulty, NEW e, NEW ambiguous \in BOOLEAN,
           NEW t, t = UpdateIntent(s, e, ambiguous)
    PROVE  /\ e.intent = NoId \/ e.intent \in DOMAIN s.intents <=> ~t.faulty
           /\ ~t.faulty =>
                /\ t.orders = s.orders /\ t.lastUpdate = s.lastUpdate /\ t.recon = s.recon
                /\ DOMAIN t.intents = DOMAIN s.intents
                /\ \A i \in DOMAIN s.intents : /\ t.intents[i].outcome = s.intents[i].outcome
                                               /\ t.intents[i].decided = s.intents[i].decided
<1> DEFINE j == e.intent
<1>0. DOMAIN s = ReplayFields
  BY DEF GoodReplay
<1>1. CASE j = NoId
  BY <1>1 DEF UpdateIntent
<1>2. CASE j # NoId /\ j \notin DOMAIN s.intents
  <2>1. t = Faulty(s)
    BY <1>2 DEF UpdateIntent
  <2>2. t.faulty
    BY <1>0, <2>1 DEF Faulty, ReplayFields
  <2> QED BY <1>2, <2>2
<1>3. CASE j # NoId /\ j \in DOMAIN s.intents
  <2>1. t = [s EXCEPT !.intents[j].disposition = e.type,
                      !.intents[j].order = IF e.order = NoId THEN @ ELSE e.order,
                      !.intents[j].ambiguous = ambiguous]
    BY <1>3 DEF UpdateIntent
  <2>2. DOMAIN s.intents[j] = IntentFields
    BY <1>3 DEF GoodReplay, GoodIntents
  <2>3. /\ t.orders = s.orders /\ t.lastUpdate = s.lastUpdate /\ t.recon = s.recon
        /\ t.faulty = s.faulty /\ DOMAIN t.intents = DOMAIN s.intents
    BY <1>0, <2>1 DEF ReplayFields
  <2>4. ASSUME NEW i \in DOMAIN s.intents, i # j PROVE t.intents[i] = s.intents[i]
    BY <1>0, <2>1, <2>4 DEF ReplayFields
  <2>5. /\ t.intents[j].outcome = s.intents[j].outcome
        /\ t.intents[j].decided = s.intents[j].decided
    BY <1>0, <1>3, <2>1, <2>2 DEF ReplayFields, IntentFields
  <2> HIDE DEF j
  <2>6. \A i \in DOMAIN s.intents : /\ t.intents[i].outcome = s.intents[i].outcome
                                    /\ t.intents[i].decided = s.intents[i].decided
    BY <2>4, <2>5
  <2> QED BY <1>3, <2>3, <2>6 DEF j
<1> QED BY <1>1, <1>2, <1>3

\* An intent that is received.
LEMMA IntentReceivedEffect ==
    ASSUME NEW s, GoodReplay(s), ~s.faulty, NEW e, e.type = "intent_received"
    PROVE  Effect(s, e, OnIntentReceived(s, e))
<1> DEFINE j == e.intent
           new == [content |-> e.content, disposition |-> "intent_received",
                   order |-> NoId, ambiguous |-> FALSE, decided |-> FALSE, outcome |-> FALSE]
           t == OnIntentReceived(s, e)
<1>0. DOMAIN s = ReplayFields
  BY DEF GoodReplay
<1>1. e.type \notin Named \cup Decisions \cup BrokerOutcomes \cup DOMAIN EvidenceKind
      /\ e.type # "submission_started" /\ e.type # "reconciliation_completed"
      /\ e.type \notin AmbiguousOutcomes
  BY DEF Named, Decisions, Mapping, EvidenceKind, BrokerOutcomes, AmbiguousOutcomes
<1>2. Legal(s, e) /\ OrdersAfter(s, e) = s.orders
  BY <1>1 DEF Legal, OrdersAfter
<1>3. CASE j \notin DOMAIN s.intents
  <2> DEFINE p == Put(s.intents, j, new)
  <2>1. t = [s EXCEPT !.intents = p]
    BY <1>3 DEF OnIntentReceived
  <2>2. /\ DOMAIN p = DOMAIN s.intents \cup {j} /\ p[j] = new
        /\ \A i \in DOMAIN s.intents \ {j} : p[i] = s.intents[i]
    BY DEF Put
  <2>3. new.decided = FALSE
    OBVIOUS
  <2> HIDE DEF p, new
  <2>4. /\ t.intents = p /\ t.orders = s.orders /\ t.lastUpdate = s.lastUpdate
        /\ t.recon = s.recon /\ t.faulty = s.faulty
    BY <1>0, <2>1 DEF ReplayFields
  <2> HIDE DEF t
  <2>5. \A i \in DOMAIN s.intents : t.intents[i] = s.intents[i]
    BY <1>3, <2>2, <2>4
  <2>6. IntentsAfter(s, e, t)
    BY <1>1, <2>2, <2>3, <2>4, <2>5 DEF IntentsAfter
  <2>7. Effect(s, e, t)
    BY <1>1, <1>2, <2>4, <2>6 DEF Effect
  <2> QED BY <2>7 DEF t
<1>4. CASE j \in DOMAIN s.intents /\ s.intents[j].content # e.content
  <2>1. t.faulty
    BY <1>0, <1>4 DEF OnIntentReceived, Faulty, ReplayFields
  <2>2. ~Clean(s, e)
    BY <1>4 DEF Clean
  <2> HIDE DEF t
  <2>3. Effect(s, e, t)
    BY <2>1, <2>2 DEF Effect
  <2> QED BY <2>3 DEF t
<1>5. CASE j \in DOMAIN s.intents /\ s.intents[j].content = e.content
  <2>1. t = s
    BY <1>5 DEF OnIntentReceived
  <2>2. DOMAIN s.intents = DOMAIN s.intents \cup {j}
    BY <1>5
  <2>3. IntentsAfter(s, e, s)
    BY <1>1, <2>2 DEF IntentsAfter
  <2>4. Effect(s, e, s)
    BY <1>1, <1>2, <2>3 DEF Effect
  <2> QED BY <2>1, <2>4
<1> QED BY <1>3, <1>4, <1>5

\* A record that only names an intent: a mapping, or a reconciliation required.
LEMMA NamedEffect ==
    ASSUME NEW s, GoodReplay(s), ~s.faulty, NEW e,
           e.type \in Mapping \cup {"reconciliation_required"},
           NEW u, GoodReplay(u), ~u.faulty, u.intents = s.intents, u.orders = s.orders,
           u.lastUpdate = s.lastUpdate, s.recon => u.recon,
           NEW ambiguous \in BOOLEAN, NEW t, t = UpdateIntent(u, e, ambiguous)
    PROVE  Effect(s, e, t)
<1>1. /\ e.type \in Named
      /\ e.type \notin Decisions \cup BrokerOutcomes \cup AmbiguousOutcomes \cup DOMAIN EvidenceKind
      /\ e.type \notin {"submission_started", "intent_received"}
  BY DEF Named, Decisions, Mapping, BrokerOutcomes, AmbiguousOutcomes, EvidenceKind
<1>2. Legal(s, e) /\ OrdersAfter(s, e) = s.orders
  BY <1>1 DEF Legal, OrdersAfter
<1>3. /\ e.intent = NoId \/ e.intent \in DOMAIN u.intents <=> ~t.faulty
      /\ ~t.faulty =>
           /\ t.orders = u.orders /\ t.lastUpdate = u.lastUpdate /\ t.recon = u.recon
           /\ DOMAIN t.intents = DOMAIN u.intents
           /\ \A i \in DOMAIN u.intents : /\ t.intents[i].outcome = u.intents[i].outcome
                                          /\ t.intents[i].decided = u.intents[i].decided
  BY UpdateIntentEffect
<1>4. Clean(s, e) => ~t.faulty
  BY <1>1, <1>3 DEF Clean
<1>5. ~t.faulty => IntentsAfter(s, e, t)
  BY <1>1, <1>3 DEF IntentsAfter
<1> QED BY <1>1, <1>2, <1>3, <1>4, <1>5 DEF Effect

\* A risk decision.
LEMMA RiskDecisionEffect ==
    ASSUME NEW s, GoodReplay(s), ~s.faulty, NEW e, e.type \in Decisions
    PROVE  Effect(s, e, OnRiskDecision(s, e))
<1> DEFINE j == e.intent
           t == OnRiskDecision(s, e)
           no == FALSE
<1>0. DOMAIN s = ReplayFields
  BY DEF GoodReplay
<1>1. /\ e.type \in Named
      /\ e.type \notin BrokerOutcomes \cup AmbiguousOutcomes \cup DOMAIN EvidenceKind
      /\ e.type \notin {"submission_started", "intent_received"}
  BY DEF Named, Decisions, BrokerOutcomes, AmbiguousOutcomes, EvidenceKind
<1>2. Legal(s, e) /\ OrdersAfter(s, e) = s.orders
  BY <1>1 DEF Legal, OrdersAfter
<1>3. CASE j \notin DOMAIN s.intents \/ s.intents[j].decided
  <2>1. t.faulty
    BY <1>0, <1>3 DEF OnRiskDecision, Faulty, ReplayFields
  <2>2. ~Clean(s, e)
    BY <1>1, <1>3 DEF Clean
  <2> HIDE DEF t
  <2>3. Effect(s, e, t)
    BY <2>1, <2>2 DEF Effect
  <2> QED BY <2>3 DEF t
<1>4. CASE j \in DOMAIN s.intents /\ ~s.intents[j].decided
  <2> DEFINE u == [s EXCEPT !.intents[j].decided = TRUE]
  <2>1. t = UpdateIntent(u, e, no)
    BY <1>4 DEF OnRiskDecision
  <2>2. DOMAIN s.intents[j] = IntentFields /\ s.intents[j].ambiguous \in BOOLEAN
    BY <1>4 DEF GoodReplay, GoodIntents
  <2>3. /\ DOMAIN u = ReplayFields /\ DOMAIN u.intents = DOMAIN s.intents /\ u.orders = s.orders
        /\ u.recon = s.recon /\ u.global = s.global /\ u.stopped = s.stopped
        /\ u.faulty = s.faulty /\ u.lastUpdate = s.lastUpdate
    BY <1>0 DEF ReplayFields
  <2>4. ASSUME NEW i \in DOMAIN s.intents, i # j PROVE u.intents[i] = s.intents[i]
    BY <1>0, <2>4 DEF ReplayFields
  <2>5. /\ DOMAIN u.intents[j] = IntentFields /\ u.intents[j].decided = TRUE
        /\ u.intents[j].ambiguous = s.intents[j].ambiguous
        /\ u.intents[j].outcome = s.intents[j].outcome
    BY <1>0, <1>4, <2>2 DEF ReplayFields, IntentFields
  <2>6. no \in BOOLEAN
    OBVIOUS
  <2> HIDE DEF u, t, j, no
  <2>7. GoodIntents(u)
    <3> SUFFICES ASSUME NEW i \in DOMAIN u.intents
        PROVE  /\ DOMAIN u.intents[i] = IntentFields
               /\ u.intents[i].ambiguous \in BOOLEAN
               /\ u.intents[i].decided \in BOOLEAN
      BY DEF GoodIntents
    <3>1. CASE i = j
      BY <2>2, <2>5, <3>1
    <3>2. CASE i # j
      BY <2>3, <2>4, <3>2 DEF GoodReplay, GoodIntents
    <3> QED BY <3>1, <3>2
  <2>8. GoodReplay(u)
    BY <2>3, <2>7 DEF GoodReplay
  <2>9. /\ j = NoId \/ j \in DOMAIN u.intents <=> ~t.faulty
        /\ ~t.faulty =>
             /\ t.orders = u.orders /\ t.lastUpdate = u.lastUpdate /\ t.recon = u.recon
             /\ DOMAIN t.intents = DOMAIN u.intents
             /\ \A i \in DOMAIN u.intents : /\ t.intents[i].outcome = u.intents[i].outcome
                                            /\ t.intents[i].decided = u.intents[i].decided
    BY <2>1, <2>3, <2>6, <2>8, UpdateIntentEffect DEF j
  <2>10. ~t.faulty
    BY <1>4, <2>3, <2>9
  <2>11. \A i \in DOMAIN s.intents :
           /\ t.intents[i].outcome = s.intents[i].outcome
           /\ t.intents[i].decided => s.intents[i].decided \/ j = i
    BY <2>3, <2>4, <2>5, <2>9, <2>10
  <2>12. IntentsAfter(s, e, t)
    BY <1>1, <1>4, <2>3, <2>9, <2>10, <2>11 DEF IntentsAfter, j
  <2>13. Effect(s, e, t)
    BY <1>1, <1>2, <2>3, <2>9, <2>10, <2>12 DEF Effect
  <2> QED BY <2>13 DEF t
<1> QED BY <1>3, <1>4

\* A submission.
LEMMA OrderSubmittedEffect ==
    ASSUME NEW s, GoodReplay(s), ~s.faulty, NEW e, e.type = "submission_started"
    PROVE  Effect(s, e, OnOrderSubmitted(s, e))
<1> DEFINE started == Submitted(e)
           u == [s EXCEPT !.orders = Put(@, e.order, started.order)]
           t == OnOrderSubmitted(s, e)
           no == FALSE
<1>0. DOMAIN s = ReplayFields
  BY DEF GoodReplay
<1>1. /\ e.type \in Named
      /\ e.type \notin BrokerOutcomes \cup AmbiguousOutcomes \cup DOMAIN EvidenceKind
      /\ e.type \notin Decisions \cup {"intent_received", "reconciliation_completed"}
  BY DEF Named, Decisions, BrokerOutcomes, AmbiguousOutcomes, EvidenceKind
<1>2. t = IF started.refused \/ e.order \in DOMAIN s.orders THEN Faulty(s)
          ELSE UpdateIntent(u, e, no)
  BY DEF OnOrderSubmitted, Submitted
<1>3. /\ DOMAIN u = ReplayFields /\ u.intents = s.intents
      /\ u.orders = Put(s.orders, e.order, started.order)
      /\ u.recon = s.recon /\ u.global = s.global /\ u.stopped = s.stopped
      /\ u.faulty = s.faulty /\ u.lastUpdate = s.lastUpdate
  <2> HIDE DEF started
  <2> QED BY <1>0 DEF ReplayFields
<1>4. DOMAIN u.orders = DOMAIN s.orders \cup {e.order}
  <2> HIDE DEF started, u
  <2> QED BY <1>3 DEF Put
<1>5. no \in BOOLEAN
  OBVIOUS
<1>6. Legal(s, e) <=> ~started.refused /\ e.order \notin DOMAIN s.orders
  BY <1>1 DEF Legal
<1>7. OrdersAfter(s, e) = Put(s.orders, e.order, started.order)
  BY DEF OrdersAfter
<1> HIDE DEF started, u, t, no
<1>8. CASE started.refused \/ e.order \in DOMAIN s.orders
  <2>1. t.faulty
    BY <1>0, <1>2, <1>8 DEF Faulty, ReplayFields
  <2>2. Effect(s, e, t)
    BY <1>6, <1>8, <2>1 DEF Effect, Clean
  <2> QED BY <2>2 DEF t
<1>9. CASE ~(started.refused \/ e.order \in DOMAIN s.orders)
  <2>1. IsFiniteSet(DOMAIN u.orders)
    BY <1>4, FS_AddElement DEF GoodReplay
  <2>2. GoodReplay(u)
    BY <1>3, <2>1 DEF GoodReplay, GoodIntents
  <2>3. t = UpdateIntent(u, e, no)
    BY <1>2, <1>9
  <2>4. /\ e.intent = NoId \/ e.intent \in DOMAIN u.intents <=> ~t.faulty
        /\ ~t.faulty =>
             /\ t.orders = u.orders /\ t.lastUpdate = u.lastUpdate /\ t.recon = u.recon
             /\ DOMAIN t.intents = DOMAIN u.intents
             /\ \A i \in DOMAIN u.intents : /\ t.intents[i].outcome = u.intents[i].outcome
                                            /\ t.intents[i].decided = u.intents[i].decided
    BY <1>3, <1>5, <2>2, <2>3, UpdateIntentEffect
  <2>5. ~t.faulty => IntentsAfter(s, e, t)
    BY <1>1, <1>3, <2>4 DEF IntentsAfter
  <2>6. Clean(s, e) => ~t.faulty
    BY <1>1, <1>3, <2>4 DEF Clean
  <2>7. Effect(s, e, t)
    BY <1>1, <1>3, <1>6, <1>7, <1>9, <2>4, <2>5, <2>6 DEF Effect
  <2> QED BY <2>7 DEF t
<1> QED BY <1>8, <1>9

\* Evidence about an order on record.
LEMMA OrderEvidenceEffect ==
    ASSUME NEW s, GoodReplay(s), ~s.faulty, NEW e, e.type \in DOMAIN EvidenceKind,
           e.intent # NoId
    PROVE  Effect(s, e, OnOrderEvidence(s, e))
<1> DEFINE j == e.intent
           kind == EvidenceKind[e.type]
           unsure == e.type \in AmbiguousOutcomes
           answer == Answer(s, e)
           moved == [s EXCEPT !.orders[e.order] = answer.order, !.position = @ + answer.delta]
           u == MoveOrder(s, e, kind)
           v == UpdateIntent(u, e, unsure)
           w == [v EXCEPT !.intents[j].outcome = TRUE, !.recon = @ \/ unsure]
           t == OnOrderEvidence(s, e)
<1>0. DOMAIN s = ReplayFields
  BY DEF GoodReplay
<1>1. t = IF e.type \notin BrokerOutcomes \/ v.faulty THEN v ELSE w
  BY DEF OnOrderEvidence, RecordOutcome
<1>2. /\ e.type \in Named
      /\ e.type \notin Decisions \cup {"intent_received", "reconciliation_completed",
                                       "submission_started"}
      /\ unsure \in BOOLEAN /\ (unsure => e.type \in BrokerOutcomes)
  BY RecordTypes DEF Named
<1>3. GoodReplay(u) /\ u.intents = s.intents /\ u.recon = s.recon
  BY MoveOrderSound
<1>4. u = IF Legal(s, e) THEN moved ELSE Faulty(s)
  BY <1>2 DEF MoveOrder, Moved, Legal, Answer
<1>5. /\ moved.orders = [s.orders EXCEPT ![e.order] = answer.order]
      /\ moved.lastUpdate = s.lastUpdate /\ moved.faulty = s.faulty
  <2> HIDE DEF answer
  <2> QED BY <1>0 DEF ReplayFields
<1>6. OrdersAfter(s, e) = [s.orders EXCEPT ![e.order] = answer.order]
  BY <1>2 DEF OrdersAfter
<1> HIDE DEF kind, unsure, answer, moved, u
<1>7. CASE ~Legal(s, e)
  <2>1. u.faulty
    BY <1>0, <1>4, <1>7 DEF Faulty, ReplayFields
  <2>2. v = u
    BY <2>1 DEF UpdateIntent
  <2>3. t.faulty
    BY <1>1, <2>1, <2>2
  <2> HIDE DEF t
  <2>4. Effect(s, e, t)
    BY <1>7, <2>3 DEF Effect, Clean
  <2> QED BY <2>4 DEF t
<1>8. CASE Legal(s, e)
  <2>1. /\ ~u.faulty /\ u.orders = OrdersAfter(s, e) /\ u.lastUpdate = s.lastUpdate
    BY <1>4, <1>5, <1>6, <1>8
  <2>2. /\ j \in DOMAIN u.intents <=> ~v.faulty
        /\ ~v.faulty =>
             /\ v.orders = u.orders /\ v.lastUpdate = u.lastUpdate /\ v.recon = u.recon
             /\ DOMAIN v.intents = DOMAIN u.intents
             /\ \A i \in DOMAIN u.intents : /\ v.intents[i].outcome = u.intents[i].outcome
                                            /\ v.intents[i].decided = u.intents[i].decided
    <3> HIDE DEF v
    <3>1. /\ e.intent = NoId \/ e.intent \in DOMAIN u.intents <=> ~v.faulty
          /\ ~v.faulty =>
               /\ v.orders = u.orders /\ v.lastUpdate = u.lastUpdate /\ v.recon = u.recon
               /\ DOMAIN v.intents = DOMAIN u.intents
               /\ \A i \in DOMAIN u.intents : /\ v.intents[i].outcome = u.intents[i].outcome
                                              /\ v.intents[i].decided = u.intents[i].decided
      BY <1>2, <1>3, <2>1, UpdateIntentEffect DEF v
    <3> QED BY <3>1
  <2>3. GoodReplay(v)
    BY <1>2, <1>3, UpdateIntentSound
  <2> HIDE DEF v
  <2>4. CASE v.faulty
    <3>1. t.faulty /\ ~Clean(s, e)
      BY <1>1, <1>2, <1>3, <2>2, <2>4 DEF Clean
    <3> HIDE DEF t
    <3>2. Effect(s, e, t)
      BY <3>1 DEF Effect
    <3> QED BY <3>2 DEF t
  <2>5. CASE ~v.faulty /\ e.type \notin BrokerOutcomes
    <3>1. t = v
      BY <1>1, <2>5
    <3>2. IntentsAfter(s, e, v)
      BY <1>2, <1>3, <2>2, <2>5 DEF IntentsAfter
    <3>3. Effect(s, e, v)
      BY <1>2, <1>3, <1>8, <2>1, <2>2, <2>5, <3>2, RecordTypes DEF Effect
    <3> HIDE DEF t
    <3>4. Effect(s, e, t)
      BY <3>1, <3>3
    <3> QED BY <3>4 DEF t
  <2>6. CASE ~v.faulty /\ e.type \in BrokerOutcomes
    <3>1. t = w
      BY <1>1, <2>6
    <3>2. DOMAIN v = ReplayFields /\ DOMAIN v.intents[j] = IntentFields /\ j \in DOMAIN v.intents
      BY <1>3, <2>2, <2>3, <2>6 DEF GoodReplay, GoodIntents
    <3>3. /\ w.orders = v.orders /\ w.lastUpdate = v.lastUpdate /\ w.faulty = v.faulty
          /\ w.recon = (v.recon \/ unsure) /\ DOMAIN w.intents = DOMAIN v.intents
      BY <3>2 DEF ReplayFields
    <3>4. \A i \in DOMAIN v.intents \ {j} : w.intents[i] = v.intents[i]
      BY <3>2 DEF ReplayFields
    <3>5. w.intents[j].outcome = TRUE /\ w.intents[j].decided = v.intents[j].decided
      BY <3>2 DEF ReplayFields, IntentFields
    <3> HIDE DEF w, t, j
    <3>6. \A i \in DOMAIN s.intents :
            /\ s.intents[i].outcome = TRUE => w.intents[i].outcome = TRUE
            /\ w.intents[i].decided = s.intents[i].decided
      BY <1>3, <2>2, <2>6, <3>4, <3>5
    <3>7. IntentsAfter(s, e, w)
      BY <1>2, <1>3, <2>2, <2>6, <3>2, <3>3, <3>5, <3>6 DEF IntentsAfter, j
    <3>8. e.type \in AmbiguousOutcomes => w.recon
      BY <3>3 DEF unsure
    <3>9. s.recon => w.recon
      BY <1>3, <2>2, <2>6, <3>3
    <3>10. Effect(s, e, w)
      BY <1>8, <2>1, <2>2, <2>6, <3>3, <3>7, <3>8, <3>9 DEF Effect
    <3>11. Effect(s, e, t)
      BY <3>1, <3>10
    <3> QED BY <3>11 DEF t
  <2> QED BY <2>4, <2>5, <2>6
<1> QED BY <1>7, <1>8

\* A record that names neither an intent nor an order.
LEMMA FlagsEffect ==
    ASSUME NEW s, GoodReplay(s), ~s.faulty, NEW e,
           e.type \notin Named \cup {"intent_received"},
           NEW t, ~t.faulty, t.intents = s.intents, t.orders = s.orders,
           t.lastUpdate = s.lastUpdate,
           e.type # "reconciliation_completed" /\ s.recon => t.recon
    PROVE  Effect(s, e, t)
<1>1. e.type \notin Decisions \cup BrokerOutcomes \cup AmbiguousOutcomes \cup DOMAIN EvidenceKind
      /\ e.type # "submission_started"
  BY RecordTypes DEF Named
<1>2. Legal(s, e) /\ OrdersAfter(s, e) = s.orders
  BY <1>1 DEF Legal, OrdersAfter
<1>3. IntentsAfter(s, e, t)
  BY <1>1 DEF IntentsAfter
<1> QED BY <1>1, <1>2, <1>3 DEF Effect

\* The dispatch on the type of the record (replay_record).
LEMMA ReplayEventEffect ==
    ASSUME NEW s, GoodReplay(s), ~s.faulty, NEW e, TypedRecord(e)
    PROVE  Effect(s, e, ReplayEvent(s, e))
<1> DEFINE t == ReplayEvent(s, e)
           type == e.type
           no == FALSE
           yes == TRUE
           Phases == {"session_started", "session_stopping", "session_stopped"}
<1>0. DOMAIN s = ReplayFields /\ no \in BOOLEAN /\ yes \in BOOLEAN
  BY DEF GoodReplay
<1>1. CASE type = "intent_received"
  <2>1. t = OnIntentReceived(s, e)
    BY <1>1 DEF ReplayEvent, EvidenceKind
  <2> QED BY <1>1, <2>1, IntentReceivedEffect
<1>2. CASE type \in Mapping
  <2>1. t = UpdateIntent(s, e, no)
    BY <1>2 DEF ReplayEvent, EvidenceKind, Mapping
  <2> HIDE DEF no
  <2> QED BY <1>0, <1>2, <2>1, NamedEffect
<1>3. CASE type \in Decisions
  <2>1. t = OnRiskDecision(s, e)
    BY <1>3 DEF ReplayEvent, EvidenceKind, Decisions
  <2> QED BY <1>3, <2>1, RiskDecisionEffect
<1>4. CASE type = "submission_started"
  <2>1. t = OnOrderSubmitted(s, e)
    BY <1>4 DEF ReplayEvent, EvidenceKind
  <2> QED BY <1>4, <2>1, OrderSubmittedEffect
<1>5. CASE type \in DOMAIN EvidenceKind
  <2>1. t = OnOrderEvidence(s, e)
    BY <1>5 DEF ReplayEvent, EvidenceKind
  <2>2. e.intent # NoId
    BY <1>5 DEF TypedRecord
  <2> QED BY <1>5, <2>1, <2>2, OrderEvidenceEffect
<1>6. CASE type = "reconciliation_required"
  <2> DEFINE u == [s EXCEPT !.recon = TRUE, !.global = @ \/ e.intent = NoId]
  <2>1. t = UpdateIntent(u, e, yes)
    BY <1>6 DEF ReplayEvent, EvidenceKind, OnReconciliationRequired
  <2>2. /\ DOMAIN u = ReplayFields /\ u.intents = s.intents /\ u.orders = s.orders
        /\ u.recon = TRUE /\ u.global \in BOOLEAN /\ u.stopped = s.stopped
        /\ u.faulty = s.faulty /\ u.lastUpdate = s.lastUpdate
    BY <1>0 DEF ReplayFields, GoodReplay
  <2> HIDE DEF u, t, yes
  <2>3. GoodReplay(u)
    BY <2>2 DEF GoodReplay, GoodIntents
  <2>4. Effect(s, e, t)
    BY <1>0, <1>6, <2>1, <2>2, <2>3, NamedEffect
  <2> QED BY <2>4 DEF t
<1>7. CASE type \notin Named \cup {"intent_received"}
  <2>1. /\ ~t.faulty /\ t.intents = s.intents /\ t.orders = s.orders
        /\ t.lastUpdate = s.lastUpdate
        /\ type # "reconciliation_completed" /\ s.recon => t.recon
    <3>1. CASE type = "reconciliation_completed"
      <4> DEFINE global == s.global /\ e.intent # NoId
                 recon == global \/ \E i \in DOMAIN s.intents : s.intents[i].ambiguous
      <4>1. t = StillReconciling(s, global)
        BY <3>1 DEF ReplayEvent, EvidenceKind, OnReconciliationCompleted, TypedRecord
      <4>2. t = [s EXCEPT !.global = global, !.recon = recon]
        BY <4>1 DEF StillReconciling
      <4> HIDE DEF global, recon, t
      <4> QED BY <1>0, <3>1, <4>2 DEF ReplayFields
    <3>2. CASE type = "safety_stop"
      <4>1. t = [s EXCEPT !.stopped = TRUE]
        BY <3>2 DEF ReplayEvent, EvidenceKind
      <4> HIDE DEF t
      <4> QED BY <1>0, <4>1 DEF ReplayFields
    <3>3. CASE type \in Phases
      <4>1. t = [s EXCEPT !.session = type]
        BY <3>3 DEF ReplayEvent, EvidenceKind
      <4> HIDE DEF t, type
      <4> QED BY <1>0, <4>1 DEF ReplayFields
    <3>4. CASE type = "ledger_repair_recorded"
      <4>1. t = [s EXCEPT !.recon = TRUE, !.global = TRUE]
        BY <3>4 DEF ReplayEvent, EvidenceKind
      <4> HIDE DEF t
      <4> QED BY <1>0, <4>1 DEF ReplayFields
    <3>5. CASE type \notin Phases \cup {"reconciliation_completed", "safety_stop",
                                        "ledger_repair_recorded"}
      <4>1. t = s
        BY <1>7, <3>5 DEF ReplayEvent, Named, Mapping, Decisions
      <4> HIDE DEF t
      <4> QED BY <4>1
    <3> QED BY <3>1, <3>2, <3>3, <3>4, <3>5
  <2> HIDE DEF t
  <2>2. Effect(s, e, t)
    BY <1>7, <2>1, FlagsEffect
  <2> QED BY <2>2 DEF t
<1>8. type \in Mapping \cup Decisions \cup DOMAIN EvidenceKind
      \/ type \in {"intent_received", "submission_started", "reconciliation_required"}
      \/ type \notin Named \cup {"intent_received"}
  BY DEF Named
<1> HIDE DEF t, type, Phases
<1>9. Effect(s, e, t)
  BY <1>1, <1>2, <1>3, <1>4, <1>5, <1>6, <1>7, <1>8 DEF t
<1> QED BY <1>9 DEF t

\* The same for the whole record: the sequence of the broker's updates grows.
RecordEffect(s, e, t) ==
    /\ Clean(s, e) /\ ~SourceFault(s, e) => ~t.faulty
    /\ ~t.faulty =>
         /\ Legal(s, e) /\ t.orders = OrdersAfter(s, e) /\ ~SourceFault(s, e)
         /\ t.lastUpdate = IF e.sequence = 0 THEN s.lastUpdate ELSE e.sequence
         /\ IntentsAfter(s, e, t)
         /\ e.type # "reconciliation_completed" /\ s.recon => t.recon
         /\ e.type \in AmbiguousOutcomes => t.recon

\* replay_record() of a record of a session.
LEMMA ReplayRecordEffect ==
    ASSUME NEW s, GoodReplay(s), ~s.faulty, NEW e, TypedRecord(e)
    PROVE  RecordEffect(s, e, ReplayRecord(s, e))
<1> DEFINE u == RecordSource(s, e)
           t == ReplayEvent(u, e)
<1>0. DOMAIN s = ReplayFields
  BY DEF GoodReplay
<1>1. CASE SourceFault(s, e)
  <2>1. ReplayRecord(s, e) = Faulty(s) /\ Faulty(s).faulty
    BY <1>0, <1>1 DEF ReplayRecord, Faulty, ReplayFields
  <2> QED BY <1>1, <2>1 DEF RecordEffect
<1>2. CASE ~SourceFault(s, e)
  <2>1. ReplayRecord(s, e) = t
    BY <1>2 DEF ReplayRecord
  <2>2. /\ DOMAIN u = ReplayFields /\ u.intents = s.intents /\ u.orders = s.orders
        /\ u.recon = s.recon /\ u.global = s.global /\ u.stopped = s.stopped
        /\ u.faulty = s.faulty
        /\ u.lastUpdate = IF e.sequence = 0 THEN s.lastUpdate ELSE e.sequence
    BY <1>0 DEF RecordSource, ReplayFields
  <2> HIDE DEF u
  <2>3. GoodReplay(u)
    BY <2>2 DEF GoodReplay, GoodIntents
  <2>4. Effect(u, e, t)
    BY <2>2, <2>3, ReplayEventEffect
  <2>5. Answer(u, e) = Answer(s, e)
    BY <2>2 DEF Answer
  <2>6. (Legal(u, e) <=> Legal(s, e)) /\ OrdersAfter(u, e) = OrdersAfter(s, e)
    BY <2>2, <2>5 DEF Legal, OrdersAfter
  <2>7. Clean(u, e) <=> Clean(s, e)
    BY <2>2, <2>6 DEF Clean
  <2> HIDE DEF t
  <2>8. IntentsAfter(u, e, t) <=> IntentsAfter(s, e, t)
    BY <2>2 DEF IntentsAfter
  <2>9. RecordEffect(s, e, t)
    BY <1>2, <2>2, <2>4, <2>6, <2>7, <2>8 DEF Effect, RecordEffect
  <2> QED BY <2>1, <2>9
<1> QED BY <1>1, <1>2

\* What each kind of record says to its order.
LEMMA RecordKinds ==
    ASSUME NEW type, type \in DOMAIN EvidenceKind
    PROVE  LET kind == EvidenceKind[type]
           IN  /\ kind \in SessionKinds
               /\ kind \in Uncertain => type \in AmbiguousOutcomes
               /\ kind \in Answers =>
                    type \in {"broker_acknowledged", "broker_rejected", "ambiguous_submission"}
               /\ kind \in Reviving => type \in {"broker_acknowledged", "modified", "modify_rejected"}
               /\ kind = "ModifyAccepted" => type = "modified"
BY DEF EvidenceKind, SessionKinds, Uncertain, Answers, Reviving, AmbiguousOutcomes

\* The evidence of a typed record is a session's.
LEMMA RecordEvidence ==
    ASSUME NEW e, TypedRecord(e), NEW kind
    PROVE  LET u == EvidenceOf(e, kind)
           IN  /\ u.kind = kind /\ u.id = NoId /\ u.cumulative = e.cumulative
               /\ u.quantity = e.quantity /\ u.price = e.price /\ u.brokerOrderId = e.order
               /\ kind \in SessionKinds => SessionEvidence(u)
BY DEF EvidenceOf, SessionEvidence, TypedRecord

\* How a legal record moves the orders.
LEMMA LegalMoves ==
    ASSUME NEW s, GoodOrders(s.orders), NEW e, TypedRecord(e), Legal(s, e)
    PROVE  LET orders == OrdersAfter(s, e)
           IN  /\ e.type = "submission_started" =>
                    /\ DOMAIN orders = DOMAIN s.orders \cup {e.order}
                    /\ Submission(orders[e.order], e.quantity, e.price)
               /\ e.type # "submission_started" => DOMAIN orders = DOMAIN s.orders
               /\ e.type \in DOMAIN EvidenceKind =>
                    /\ e.order \in DOMAIN s.orders
                    /\ Moves(s.orders[e.order], EvidenceKind[e.type], orders[e.order])
               /\ \A o \in DOMAIN s.orders :
                    e.type \notin DOMAIN EvidenceKind \/ o # e.order => orders[o] = s.orders[o]
               /\ GoodOrders(orders)
<1> DEFINE orders == OrdersAfter(s, e)
<1>1. CASE e.type = "submission_started"
  <2> DEFINE r == Submitted(e)
             u == EvidenceOf(e, "SubmissionStarted")
  <2>1. /\ e.order \notin DOMAIN s.orders /\ ~r.refused /\ orders = Put(s.orders, e.order, r.order)
        /\ e.type \notin DOMAIN EvidenceKind
    BY <1>1, RecordTypes DEF Legal, OrdersAfter
  <2>2. Submission(r.order, e.quantity, e.price)
    <3>1. u.id = NoId /\ u.kind = "SubmissionStarted"
      BY RecordEvidence
    <3>2. r = ApplyOrderUpdate(NewOrder("Buy", e.quantity, e.price), u)
      BY DEF Submitted, TypedRecord
    <3>3. e.quantity \in Nat /\ e.price \in Nat
      BY DEF TypedRecord
    <3> HIDE DEF r, u
    <3> QED BY <2>1, <3>1, <3>2, <3>3, SubmissionMoves
  <2> HIDE DEF r, orders
  <2>3. /\ DOMAIN orders = DOMAIN s.orders \cup {e.order} /\ orders[e.order] = r.order
        /\ \A o \in DOMAIN s.orders : orders[o] = s.orders[o]
    BY <2>1 DEF Put
  <2>4. GoodOrders(orders)
    BY <2>2, <2>3 DEF GoodOrders, Submission
  <2> QED BY <1>1, <2>1, <2>2, <2>3, <2>4 DEF orders
<1>2. CASE e.type \in DOMAIN EvidenceKind
  <2> DEFINE kind == EvidenceKind[e.type]
             u == EvidenceOf(e, kind)
             r == Answer(s, e)
  <2>1. /\ e.order \in DOMAIN s.orders /\ ~r.refused
        /\ orders = [s.orders EXCEPT ![e.order] = r.order]
        /\ e.type # "submission_started"
    BY <1>2, RecordTypes DEF Legal, OrdersAfter
  <2>2. SessionEvidence(u) /\ u.kind = kind
    BY <1>2, RecordKinds, RecordEvidence
  <2>3. r = ApplyOrderUpdate(s.orders[e.order], u)
    BY DEF Answer
  <2>4. GoodOrder(s.orders[e.order])
    BY <2>1 DEF GoodOrders
  <2> HIDE DEF r, u, kind, orders
  <2>5. Moves(s.orders[e.order], kind, r.order)
    BY <2>1, <2>2, <2>3, <2>4, EvidenceMoves
  <2>6. /\ DOMAIN orders = DOMAIN s.orders /\ orders[e.order] = r.order
        /\ \A o \in DOMAIN s.orders : o # e.order => orders[o] = s.orders[o]
    BY <2>1
  <2>7. GoodOrders(orders)
    BY <2>1, <2>5, <2>6 DEF GoodOrders, Moves
  <2> QED BY <1>2, <2>1, <2>5, <2>6, <2>7 DEF orders, kind
<1>3. CASE e.type # "submission_started" /\ e.type \notin DOMAIN EvidenceKind
  <2>1. orders = s.orders
    BY <1>3 DEF OrdersAfter
  <2> HIDE DEF orders
  <2> QED BY <1>3, <2>1 DEF orders
<1> QED BY <1>1, <1>2, <1>3

-----------------------------------------------------------------------------
(* What the ledger always replays to.                                      *)

\* Orders on record are good, and of places.
GoodLedger(s) ==
    s.faulty \/ (GoodOrders(s.orders) /\ DOMAIN s.orders \subseteq Places /\ s.lastUpdate \in Nat)

\* A process may start only from a ledger in which every order that was sent
\* has its answer (StartupAuthority, RecoveryIncomplete).
Restartable(s) ==
    \/ s.faulty \/ s.stopped \/ s.recon
    \/ \A o \in DOMAIN s.orders :
         /\ s.orders[o].state \notin Unresolved /\ o \in DOMAIN s.intents
         /\ s.orders[o].state = "SubmissionStarted" \/ s.intents[o].outcome = TRUE

\* One more record.
LEMMA RecordKeepsLedger ==
    ASSUME NEW s, GoodReplay(s), GoodLedger(s), NEW e, TypedRecord(e), NEW t,
           t = ReplayRecord(s, e)
    PROVE  /\ GoodLedger(t)
           /\ Restartable(s) /\ (e.type = "reconciliation_completed" => Stopped(s) \/ ~s.recon)
                => Restartable(t)
<1>1. CASE s.faulty
  <2>1. t = s
    BY <1>1 DEF ReplayRecord
  <2> QED BY <1>1, <2>1 DEF GoodLedger, Restartable
<1>2. CASE ~s.faulty /\ t.faulty
  BY <1>2 DEF GoodLedger, Restartable
<1>3. CASE ~s.faulty /\ ~t.faulty
  <2> DEFINE orders == OrdersAfter(s, e)
             kind == EvidenceKind[e.type]
  <2>1. /\ Legal(s, e) /\ t.orders = orders
        /\ t.lastUpdate = IF e.sequence = 0 THEN s.lastUpdate ELSE e.sequence
        /\ IntentsAfter(s, e, t)
        /\ e.type # "reconciliation_completed" /\ s.recon => t.recon
        /\ e.type \in AmbiguousOutcomes => t.recon
    BY <1>3, ReplayRecordEffect DEF RecordEffect
  <2>2. GoodOrders(s.orders) /\ DOMAIN s.orders \subseteq Places /\ s.lastUpdate \in Nat
    BY <1>3 DEF GoodLedger
  <2>3. /\ e.type = "submission_started" =>
             /\ DOMAIN orders = DOMAIN s.orders \cup {e.order}
             /\ Submission(orders[e.order], e.quantity, e.price)
        /\ e.type # "submission_started" => DOMAIN orders = DOMAIN s.orders
        /\ e.type \in DOMAIN EvidenceKind =>
             /\ e.order \in DOMAIN s.orders
             /\ Moves(s.orders[e.order], kind, orders[e.order])
        /\ \A o \in DOMAIN s.orders :
             e.type \notin DOMAIN EvidenceKind \/ o # e.order => orders[o] = s.orders[o]
        /\ GoodOrders(orders)
    BY <2>1, <2>2, LegalMoves
  <2> HIDE DEF orders
  <2>4. GoodLedger(t)
    <3>1. e.type = "submission_started" => e.order \in Places
      BY DEF TypedRecord
    <3>2. t.lastUpdate \in Nat
      BY <2>1, <2>2 DEF TypedRecord
    <3> QED BY <2>1, <2>2, <2>3, <3>1, <3>2 DEF GoodLedger
  <2>5. ASSUME Restartable(s), e.type = "reconciliation_completed" => Stopped(s) \/ ~s.recon
        PROVE  Restartable(t)
    <3>1. CASE s.stopped
      <4>1. Follows(s, t)
        BY ReplayRecordSound DEF RecordSound
      <4> QED BY <3>1, <4>1 DEF Follows, Restartable
    <3>2. CASE s.recon /\ ~s.stopped
      <4>1. e.type # "reconciliation_completed"
        BY <1>3, <2>5, <3>2 DEF Stopped
      <4> QED BY <2>1, <3>2, <4>1 DEF Restartable
    <3>3. CASE ~s.stopped /\ ~s.recon
      <4> SUFFICES ASSUME ~t.recon, NEW o \in DOMAIN t.orders
          PROVE  /\ t.orders[o].state \notin Unresolved /\ o \in DOMAIN t.intents
                 /\ t.orders[o].state = "SubmissionStarted" \/ t.intents[o].outcome = TRUE
        BY DEF Restartable
      <4>1. /\ DOMAIN s.intents \subseteq DOMAIN t.intents
            /\ \A i \in DOMAIN s.intents : s.intents[i].outcome = TRUE => t.intents[i].outcome = TRUE
        BY <2>1 DEF IntentsAfter
      <4>2. \A p \in DOMAIN s.orders :
              /\ s.orders[p].state \notin Unresolved /\ p \in DOMAIN s.intents
              /\ s.orders[p].state = "SubmissionStarted" \/ s.intents[p].outcome = TRUE
        BY <1>3, <2>5, <3>3 DEF Restartable
      <4>3. CASE o \in DOMAIN s.orders /\ (e.type \notin DOMAIN EvidenceKind \/ o # e.order)
        <5>1. t.orders[o] = s.orders[o]
          BY <2>1, <2>3, <4>3
        <5> QED BY <4>1, <4>2, <4>3, <5>1
      <4>4. CASE o \notin DOMAIN s.orders
        <5>1. e.type = "submission_started" /\ o = e.order
          BY <2>1, <2>3, <4>4
        <5>2. t.orders[o].state = "SubmissionStarted"
          BY <2>1, <2>3, <5>1 DEF Submission
        <5>3. o = e.intent /\ o # NoId
          BY <5>1, IntentsAssumption DEF TypedRecord, Intents
        <5>4. o \in DOMAIN s.intents
          BY <2>1, <5>1, <5>3 DEF IntentsAfter, Named
        <5>5. "SubmissionStarted" \notin Unresolved
          BY DEF Unresolved
        <5> QED BY <4>1, <5>2, <5>4, <5>5
      <4>5. CASE o \in DOMAIN s.orders /\ e.type \in DOMAIN EvidenceKind /\ o = e.order
        <5>1. Moves(s.orders[o], kind, t.orders[o])
          BY <2>1, <2>3, <4>5
        <5>2. e.type \notin AmbiguousOutcomes
          BY <2>1
        <5>3. /\ kind \notin Uncertain
              /\ kind \in Answers => e.type \in {"broker_acknowledged", "broker_rejected"}
          BY <4>5, <5>2, RecordKinds DEF AmbiguousOutcomes
        <5> HIDE DEF kind
        <5>4. t.orders[o].state \notin Unresolved
          BY <4>2, <4>5, <5>1, <5>3 DEF Moves
        <5>5. CASE s.orders[o].state = "SubmissionStarted"
          <6>1. e.type \in {"broker_acknowledged", "broker_rejected"}
            BY <5>1, <5>3, <5>5 DEF Moves
          <6>2. e.intent = o /\ e.type \in BrokerOutcomes
            BY <4>5, <6>1 DEF TypedRecord, BrokerOutcomes
          <6>3. t.intents[o].outcome = TRUE
            BY <2>1, <6>2 DEF IntentsAfter
          <6> QED BY <4>1, <4>2, <4>5, <5>4, <6>3
        <5>6. CASE s.orders[o].state # "SubmissionStarted"
          BY <4>1, <4>2, <4>5, <5>4, <5>6
        <5> QED BY <5>5, <5>6
      <4> QED BY <4>3, <4>4, <4>5
    <3> QED BY <3>1, <3>2, <3>3
  <2> QED BY <2>4, <2>5
<1> QED BY <1>1, <1>2, <1>3

\* Records of a session, and where it may complete a reconciliation: when a
\* stop is on record already, or as its first record if none is required.
TypedRecords(events) == \A k \in 1..Len(events) : TypedRecord(events[k])

\* Where these records may complete a reconciliation.
Completes(s, events) ==
    \A k \in 1..Len(events) :
       events[k].type = "reconciliation_completed" => Stopped(s) \/ (k = 1 /\ ~s.recon)

\* Whatever a session writes.
LEMMA ReplayKeepsLedger ==
    ASSUME NEW s, GoodReplay(s), GoodLedger(s), Restartable(s),
           NEW events, Len(events) \in Nat, TypedRecords(events), Completes(s, events),
           NEW t, t = Replay(s, events)
    PROVE  GoodLedger(t) /\ Restartable(t)
<1> DEFINE N == Len(events)
<1>1. PICK r : IsReplay(r, s, events)
  BY ReplaySteps
<1>2. r[0] = s /\ t = r[N] /\ \A n \in 1..N : r[n] = ReplayRecord(r[n - 1], events[n])
  BY <1>1 DEF IsReplay
<1>3. \A n \in 0..N : GoodReplay(r[n]) /\ Follows(s, r[n])
  <2>1. 0 \in 0..N
    OBVIOUS
  <2> QED BY <1>1, <1>2, <2>1, ReplayKeeps
<1> DEFINE P(n) == GoodLedger(r[n]) /\ Restartable(r[n])
           T == {n \in Nat : n <= N => P(n)}
<1>4. 0 \in T
  BY <1>2
<1>5. ASSUME NEW n \in T PROVE n + 1 \in T
  <2> SUFFICES ASSUME n + 1 <= N PROVE P(n + 1)
    BY <1>5
  <2>1. n \in 0..N /\ n + 1 \in 1..N /\ (n + 1) - 1 = n /\ P(n)
    BY <1>5
  <2>2. r[n + 1] = ReplayRecord(r[n], events[n + 1]) /\ TypedRecord(events[n + 1])
        /\ GoodReplay(r[n]) /\ Follows(s, r[n])
    BY <1>2, <1>3, <2>1 DEF TypedRecords
  <2>3. events[n + 1].type = "reconciliation_completed" => Stopped(r[n]) \/ ~r[n].recon
    <3>1. Stopped(s) => Stopped(r[n])
      BY <2>2 DEF Follows, Stopped
    <3>2. n + 1 = 1 => r[n] = s
      BY <1>2, <2>1
    <3> QED BY <2>1, <3>1, <3>2 DEF Completes
  <2> QED BY <2>1, <2>2, <2>3, RecordKeepsLedger
<1>6. T = Nat
  <2> HIDE DEF P
  <2> QED BY <1>4, <1>5, NatSetInduction
<1>7. P(N)
  <2> HIDE DEF P
  <2> QED BY <1>6
<1> QED BY <1>2, <1>7

-----------------------------------------------------------------------------
(* Records that handlers write.                                            *)

\* The fields of a record.
RecordFields ==
    {"type", "intent", "order", "content", "side", "quantity", "price", "cumulative", "sequence",
     "authoritative"}

\* A record of a session that completes no reconciliation.
PlainRecord(e) == TypedRecord(e) /\ e.type # "reconciliation_completed"

\* Records none of which completes a reconciliation.
PlainRecords(events) == \A k \in 1..Len(events) : PlainRecord(events[k])

\* A record without a payload (Event).
LEMMA EventIs ==
    ASSUME NEW type, NEW i, NEW o, NEW e, e = Event(type, i, o)
    PROVE  /\ DOMAIN e = RecordFields
           /\ e.type = type /\ e.intent = i /\ e.order = o /\ e.side = "Buy" /\ e.quantity = 0
           /\ e.price = 0 /\ e.cumulative = Absent /\ e.sequence = 0
BY DEF Event, RecordFields

\* The types whose records a handler writes without looking at an order.
QuietTypes ==
    Mapping \cup Decisions
      \cup {"intent_received", "reconciliation_required", "safety_stop", "session_started",
            "session_stopping", "session_stopped", "ledger_repair_recorded",
            "market_observation_accepted"}

\* Such a record is one of a session, and the order state machine never sees it.
LEMMA QuietRecords ==
    /\ \A type \in QuietTypes : \A i, o : PlainRecord(Event(type, i, o))
    /\ \A type \in QuietTypes :
         /\ type \notin DOMAIN EvidenceKind /\ type \notin BrokerOutcomes
         /\ type # "submission_started" /\ type # "reconciliation_completed"
<1>1. \A type \in QuietTypes :
         /\ type \notin DOMAIN EvidenceKind /\ type \notin BrokerOutcomes
         /\ type # "submission_started" /\ type # "reconciliation_completed"
         /\ type \notin {"submission_started", "broker_acknowledged", "broker_rejected"}
  BY DEF QuietTypes, Mapping, Decisions, EvidenceKind, BrokerOutcomes
<1>2. ASSUME NEW type \in QuietTypes, NEW i, NEW o, NEW e, e = Event(type, i, o)
      PROVE  PlainRecord(e)
  <2>1. /\ e.type = type /\ e.side = "Buy" /\ e.quantity = 0 /\ e.price = 0
        /\ e.cumulative = Absent /\ e.sequence = 0
    BY <1>2, EventIs
  <2> QED BY <1>1, <2>1 DEF PlainRecord, TypedRecord, Absent
<1> QED BY <1>1, <1>2

\* A stop, in particular.
LEMMA SafetyStopRecords ==
    ASSUME NEW i, NEW o, NEW e, e = SafetyStop(i, o)
    PROVE  PlainRecord(e) /\ e.type = "safety_stop"
<1> DEFINE type == "safety_stop"
<1>1. type \in QuietTypes
  BY DEF QuietTypes
<1>2. e = Event(type, i, o)
  BY DEF SafetyStop
<1> HIDE DEF type
<1>3. PlainRecord(e) /\ e.type = type
  BY <1>1, <1>2, QuietRecords, EventIs
<1> QED BY <1>3 DEF type

\* An order of the session is a place's.
LEMMA OrdersOfPlaces ==
    ASSUME NEW i \in Intents
    PROVE  /\ OrderOf(i) \in Places /\ i # NoId
           /\ i \in Places => OrderOf(i) = i
           /\ i \in Places \cup Modifies \cup Cancels
           /\ i \in Places \cup Modifies <=> i \notin Cancels
           /\ i \in Places => i \notin Modifies
BY TargetAssumption, IntentsAssumption DEF OrderOf, Intents

\* The record of an attempt or of its answer, with the terms of its intent.
LEMMA IntentRecords ==
    ASSUME NEW i \in Intents, NEW type, NEW e, e = IntentEvent(type, i)
    PROVE  /\ DOMAIN e = RecordFields
           /\ e.type = type /\ e.intent = i /\ e.order = OrderOf(i) /\ e.side = "Buy"
           /\ e.cumulative = Absent /\ e.sequence = 0
           /\ i \notin Cancels => /\ e.quantity = Terms[i].quantity /\ e.price = Terms[i].price
                                  /\ e.quantity \in Nat \ {0} /\ e.price \in Nat \ {0}
           /\ i \in Cancels => e.quantity = 0 /\ e.price = 0
           /\ /\ type # "reconciliation_completed"
              /\ type \in {"submission_started", "broker_acknowledged", "broker_rejected"}
                   => i \in Places
              => PlainRecord(e)
<1> DEFINE u == Event(type, i, OrderOf(i))
           q == Terms[i].quantity
           p == Terms[i].price
<1>1. /\ DOMAIN u = RecordFields
      /\ u.type = type /\ u.intent = i /\ u.order = OrderOf(i) /\ u.side = "Buy"
      /\ u.quantity = 0 /\ u.price = 0 /\ u.cumulative = Absent /\ u.sequence = 0
  BY EventIs
<1>2. i \notin Cancels => q \in Nat \ {0} /\ p \in Nat \ {0}
  BY OrdersOfPlaces, TermsAssumption
<1>3. e = IF i \in Cancels THEN u ELSE [u EXCEPT !.quantity = q, !.price = p]
  BY DEF IntentEvent, WithTerms
<1> HIDE DEF u, q, p
<1>4. /\ DOMAIN e = RecordFields
      /\ e.type = type /\ e.intent = i /\ e.order = OrderOf(i) /\ e.side = "Buy"
      /\ e.cumulative = Absent /\ e.sequence = 0
      /\ i \notin Cancels => e.quantity = q /\ e.price = p
      /\ i \in Cancels => e.quantity = 0 /\ e.price = 0
  BY <1>1, <1>3 DEF RecordFields
<1>5. e.quantity \in Nat /\ e.price \in Nat
  BY <1>2, <1>4
<1>6. OrderOf(i) \in Places /\ i # NoId /\ (i \in Places => OrderOf(i) = i)
  BY OrdersOfPlaces
<1>7. /\ type # "reconciliation_completed"
      /\ type \in {"submission_started", "broker_acknowledged", "broker_rejected"} => i \in Places
      => PlainRecord(e)
  BY <1>4, <1>5, <1>6 DEF PlainRecord, TypedRecord, Absent
<1> QED BY <1>2, <1>4, <1>7 DEF q, p

\* Plain records stay plain when a handler appends, joins or is cut short.
LEMMA PlainFew ==
    /\ PlainRecords(<< >>)
    /\ \A a : PlainRecord(a) => PlainRecords(<<a>>)
    /\ \A a, b : PlainRecord(a) /\ PlainRecord(b) => PlainRecords(<<a, b>>)
<1>1. ASSUME NEW a, NEW b, PlainRecord(a), PlainRecord(b) PROVE PlainRecords(<<a, b>>)
  <2> DEFINE q == <<a, b>>
  <2>1. Len(q) = 2 /\ q[1] = a /\ q[2] = b
    OBVIOUS
  <2> HIDE DEF q
  <2>2. \A k \in 1..2 : k = 1 \/ k = 2
    OBVIOUS
  <2>3. PlainRecords(q)
    BY <1>1, <2>1, <2>2 DEF PlainRecords
  <2> QED BY <2>3 DEF q
<1> QED BY <1>1 DEF PlainRecords

\* Such records stay such with one more appended.
LEMMA PlainAppended ==
    ASSUME NEW s, IsSequence(s), PlainRecords(s), NEW a, PlainRecord(a)
    PROVE  IsSequence(Append(s, a)) /\ PlainRecords(Append(s, a))
<1> DEFINE q == Append(s, a)
           n == Len(s)
<1>1. /\ IsSequence(q) /\ Len(q) = n + 1 /\ n \in Nat
      /\ q[n + 1] = a /\ \A k \in 1..n : q[k] = s[k]
  BY AppendedSequences
<1> HIDE DEF q, n
<1>2. \A k \in 1..(n + 1) : k = n + 1 \/ k \in 1..n
  BY <1>1
<1>3. PlainRecords(q)
  BY <1>1, <1>2 DEF PlainRecords, n
<1> QED BY <1>1, <1>3 DEF q

\* Such records stay such when two batches are joined.
LEMMA PlainJoined ==
    ASSUME NEW s, IsSequence(s), PlainRecords(s), NEW t, IsSequence(t), PlainRecords(t)
    PROVE  IsSequence(s \o t) /\ PlainRecords(s \o t)
<1> DEFINE q == s \o t
           n == Len(s)
           m == Len(t)
<1>1. /\ IsSequence(q) /\ Len(q) = n + m
      /\ \A k \in 1..n : q[k] = s[k]
      /\ \A k \in 1..m : q[n + k] = t[k]
  BY JoinedSequences
<1>2. n \in Nat /\ m \in Nat
  BY AppendedSequences
<1> HIDE DEF q, n, m
<1>3. \A k \in 1..(n + m) : k \in 1..n \/ (k - n \in 1..m /\ n + (k - n) = k)
  BY <1>2
<1>4. PlainRecords(q)
  <2> SUFFICES ASSUME NEW k \in 1..(n + m) PROVE PlainRecord(q[k])
    BY <1>1 DEF PlainRecords
  <2>1. CASE k \in 1..n
    BY <1>1, <2>1 DEF PlainRecords, n
  <2>2. CASE k - n \in 1..m /\ n + (k - n) = k
    <3>1. q[k] = t[k - n]
      BY <1>1, <2>2
    <3> QED BY <2>2, <3>1 DEF PlainRecords, m
  <2> QED BY <1>3, <2>1, <2>2
<1> QED BY <1>1, <1>4 DEF q

\* stop_once() writes a safety stop and its requirement, or nothing.
LEMMA PlainStopOnce ==
    ASSUME NEW m
    PROVE  IsSequence(StopOnceEvents(m)) /\ PlainRecords(StopOnceEvents(m))
<1>1. CASE m.reason = "none"
  <2> DEFINE a == SafetyStop(NoId, NoId)
  <2>1. StopOnceEvents(m) = <<a>>
    BY <1>1 DEF StopOnceEvents
  <2>2. PlainRecord(a)
    BY SafetyStopRecords
  <2> HIDE DEF a
  <2> QED BY <2>1, <2>2, PlainFew, FewRecords
<1>2. CASE m.reason # "none"
  <2>1. StopOnceEvents(m) = << >>
    BY <1>2 DEF StopOnceEvents
  <2> QED BY <2>1, PlainFew, FewRecords
<1> QED BY <1>1, <1>2

\* Plain records may follow any ledger.
LEMMA PlainCompletes ==
    ASSUME NEW events, PlainRecords(events)
    PROVE  TypedRecords(events) /\ \A s : Completes(s, events)
BY DEF PlainRecords, PlainRecord, TypedRecords, Completes

\* What may follow a ledger may be cut short.
LEMMA CutCompletes ==
    ASSUME NEW events, IsSequence(events), NEW k \in 0..Len(events), NEW s,
           TypedRecords(events), Completes(s, events)
    PROVE  LET e == SubSeq(events, 1, k)
           IN  IsSequence(e) /\ Len(e) \in Nat /\ TypedRecords(e) /\ Completes(s, e)
<1> DEFINE e == SubSeq(events, 1, k)
<1>1. IsSequence(e) /\ Len(e) = k /\ (\A j \in 1..k : e[j] = events[j]) /\ Len(events) \in Nat
  BY Prefixes, AppendedSequences
<1> HIDE DEF e
<1>2. k \in Nat /\ \A j \in 1..k : j \in 1..Len(events)
  BY <1>1
<1>3. TypedRecords(e) /\ Completes(s, e)
  BY <1>1, <1>2 DEF TypedRecords, Completes
<1> QED BY <1>1, <1>2, <1>3 DEF e

-----------------------------------------------------------------------------
(* What the session, its stage and the broker are made of.                 *)

\* Snapshots of orders, as the broker and the session's view of it hold them.
Snapped(f) == \A o \in DOMAIN f : f[o] \in Snapshots

\* What the paper broker reports of its connection.
BrokerHealth == {"Ready", "Unknown", "Lost"}

\* Orders are places', the session's are good, its view and its stage name only
\* orders it has.
Shape(m, s, b) ==
    /\ GoodOrders(m.orders) /\ DOMAIN m.orders \subseteq Places /\ m.lastUpdate \in Nat
    /\ DOMAIN m.view \subseteq DOMAIN m.orders /\ Snapped(m.view)
    /\ s.intent # NoId => OrderOf(s.intent) \in DOMAIN m.orders
    /\ DOMAIN b.orders \subseteq Places /\ Snapped(b.orders) /\ b.health \in BrokerHealth

\* What the shutdown report says of the last process.
Reports == {"none", "complete", "incomplete", "reconciled", "uncertain"}

\* The second half of the invariant: the ledger holds good orders with their
\* answers, and everything a handler reads has its type.
Backed ==
    /\ GoodLedger(durable) /\ Restartable(durable)
    /\ \A p \in Places : attempts[p] > 0 => Carries(durable, p)
    /\ Shape(mem, slot, broker)
    /\ todo \subseteq Places /\ report \in Reports /\ torn \in BOOLEAN

\* A handler writes records of a session, and leaves what has its shape.
Typed(out) ==
    /\ TypedRecords(out.events) /\ Completes(durable, out.events)
    /\ Shape(out.mem, out.slot, out.broker)

\* A fresh process.
LEMMA FreshShape ==
    /\ Shape(NoMemory, EmptySlot, EmptyBroker)
    /\ \A b : DOMAIN b.orders \subseteq Places /\ Snapped(b.orders) /\ b.health \in BrokerHealth
         => Shape(NoMemory, EmptySlot, b)
<1>1. /\ DOMAIN NoMemory.orders = {} /\ DOMAIN NoMemory.view = {} /\ NoMemory.lastUpdate \in Nat
      /\ DOMAIN EmptyBroker.orders = {} /\ EmptyBroker.health = "Ready"
  BY DEF NoMemory, EmptyBroker
<1>2. EmptySlot.intent = NoId
  BY EmptySlotGood
<1> QED BY <1>1, <1>2 DEF Shape, GoodOrders, Snapped, BrokerHealth

\* The states of a recovered order.
LEMMA RecoveredStates ==
    /\ DOMAIN RecoveredState = Working \cup Terminal \cup {"AmbiguousSubmission"}
    /\ \A state \in DOMAIN RecoveredState :
         RecoveredState[state] \in {"working", "partially_filled", "ambiguous"} \cup BrokerTerminal
BY DEF RecoveredState, Working, Terminal, BrokerTerminal

\* recover_paper_state() makes a snapshot of a good order.
LEMMA SnapshotTyped ==
    ASSUME NEW o, GoodOrder(o), o.state \in DOMAIN RecoveredState
    PROVE  Snapshot(o) \in Snapshots
<1>1. /\ o.effective \in Nat /\ o.price \in Nat /\ o.cumulative \in Nat
  BY DEF GoodOrder
<1>2. RecoveredState[o.state]
        \in {"working", "partially_filled", "ambiguous"} \cup BrokerTerminal
  BY RecoveredStates
<1> DEFINE state == RecoveredState[o.state]
<1> HIDE DEF state
<1>3. [quantity |-> o.effective, price |-> o.price, cumulative |-> o.cumulative, state |-> state]
        \in Snapshots
  BY <1>1, <1>2 DEF Snapshots, state
<1> QED BY <1>3 DEF Snapshot, state

\* Replay only follows what was on record.
LEMMA LedgerFollows ==
    ASSUME IInv, NEW e, Len(e) \in Nat, NEW t, t = Replay(durable, e)
    PROVE  GoodReplay(t) /\ Follows(durable, t)
<1>1. GoodReplay(durable) /\ Remembers(durable)
  BY DEF IInv, Recorded
<1> QED BY <1>1, ReplayIsSound DEF ReplaySound

\* What a step has to bring for the second half of the invariant.
LEMMA StepBacked ==
    ASSUME IInv, Backed, NEW e, Len(e) \in Nat, durable' = Replay(durable, e),
           TypedRecords(e), Completes(durable, e),
           NEW called, attempts' = Attempted(called),
           \A p \in called \cap Places : Carries(durable, p),
           Shape(mem', slot', broker'),
           todo' \subseteq Places, report' \in Reports, torn' \in BOOLEAN
    PROVE  Backed'
<1>1. GoodReplay(durable) /\ Follows(durable, durable')
  BY LedgerFollows DEF IInv, Recorded
<1>2. GoodLedger(durable') /\ Restartable(durable')
  BY <1>1, ReplayKeepsLedger DEF Backed
<1>3. \A p \in Places : attempts'[p] > 0 => Carries(durable', p)
  <2> SUFFICES ASSUME NEW p \in Places, attempts'[p] > 0 PROVE Carries(durable', p)
    OBVIOUS
  <2>1. p \in AllIntents /\ attempts \in [AllIntents -> Nat]
    BY ShutdownIntents DEF IInv
  <2>2. attempts'[p] = attempts[p] + IF p \in called THEN 1 ELSE 0
    BY <2>1 DEF Attempted
  <2>3. p \in called \/ attempts[p] > 0
    BY <2>1, <2>2
  <2>4. Carries(durable, p)
    BY <2>3 DEF Backed
  <2> QED BY <1>1, <2>4 DEF Carries, Follows
<1> QED BY <1>2, <1>3 DEF Backed

\* A crash after any prefix of a handler's records.
LEMMA CrashBacked ==
    ASSUME IInv, Backed, NEW out, IsSequence(out.events), Typed(out),
           \A p \in out.called \cap Places : Carries(durable, p), CrashDuring(out)
    PROVE  Backed'
<1>1. PICK k \in 0..Len(out.events), t \in BOOLEAN, called \in SUBSET out.called :
        /\ durable' = Replay(durable, SubSeq(out.events, 1, k))
        /\ torn' = t /\ attempts' = Attempted(called)
  BY DEF CrashDuring
<1>2. mem' = NoMemory /\ slot' = EmptySlot /\ broker' = EmptyBroker /\ todo' = {} /\ report' = "none"
  BY DEF CrashDuring
<1> DEFINE e == SubSeq(out.events, 1, k)
<1>3. Len(e) \in Nat /\ TypedRecords(e) /\ Completes(durable, e)
  BY CutCompletes DEF Typed
<1>4. durable' = Replay(durable, e)
  BY <1>1
<1> HIDE DEF e
<1>5. \A p \in called \cap Places : Carries(durable, p)
  BY <1>1
<1>6. Shape(mem', slot', broker') /\ todo' \subseteq Places /\ report' \in Reports
  BY <1>2, FreshShape DEF Reports
<1> QED BY <1>1, <1>3, <1>4, <1>5, <1>6, StepBacked

\* A whole handler.
LEMMA FinishBacked ==
    ASSUME IInv, Backed, NEW out, IsSequence(out.events), Typed(out),
           \A p \in out.called \cap Places : Carries(durable, p), Finish(out),
           todo' \subseteq Places, report' \in Reports
    PROVE  Backed'
<1> DEFINE called == out.called
           e == out.events
<1>1. /\ durable' = Replay(durable, e) /\ mem' = out.mem /\ slot' = out.slot
      /\ broker' = out.broker /\ attempts' = Attempted(called) /\ torn' = torn
  BY DEF Finish
<1>2. Len(e) \in Nat
  BY AppendedSequences
<1>3. /\ TypedRecords(e) /\ Completes(durable, e) /\ Shape(mem', slot', broker')
      /\ torn' \in BOOLEAN /\ \A p \in called \cap Places : Carries(durable, p)
  BY <1>1 DEF Typed, Backed
<1> HIDE DEF e, called
<1> QED BY <1>1, <1>2, <1>3, StepBacked

\* The calls of a handler are of staged capabilities, whose places are on record.
LEMMA CallsCarried ==
    ASSUME IInv, NEW out, CallsStaged(out)
    PROVE  \A p \in out.called \cap Places : Carries(durable, p)
BY DEF CallsStaged, IInv, BrokerOnRecord

\* A handler of a session that serves or drains (Run, RunCollected).
LEMMA RunBacked ==
    ASSUME IInv, Backed, NEW out, Sound(out), Typed(out), Run(out)
    PROVE  Backed'
<1>1. IsSequence(out.events) /\ \A p \in out.called \cap Places : Carries(durable, p)
  BY CallsCarried DEF Sound, PartsSound
<1>2. CASE CrashDuring(out)
  BY <1>1, <1>2, CrashBacked
<1>3. CASE Finish(out) /\ UNCHANGED <<phase, todo, report, budget>>
  BY <1>1, <1>3, FinishBacked DEF Backed
<1> QED BY <1>2, <1>3 DEF Run

\* A handler whose records the strategy collects keeps this half.
LEMMA RunCollectedBacked ==
    ASSUME IInv, Backed, NEW out, Sound(out), Typed(out), RunCollected(out)
    PROVE  Backed'
<1> DEFINE refused == mem.behind /\ out.events # << >>
           m == [out.mem EXCEPT !.behind = out.mem.behind /\ ~refused]
           c == [out EXCEPT !.mem.behind = @ /\ ~refused]
<1>1. IsSequence(out.events) /\ \A p \in out.called \cap Places : Carries(durable, p)
  BY CallsCarried DEF Sound, PartsSound
<1>2. CASE CrashDuring(out)
  BY <1>1, <1>2, CrashBacked
<1>3. CASE Finish(c) /\ UNCHANGED <<todo, report, budget>>
  <2>1. DOMAIN out = OutcomeFields /\ DOMAIN out.mem = MemFields
    BY DEF Sound, PartsSound, GoodMem
  <2>2. /\ c.mem = m /\ c.events = out.events /\ c.slot = out.slot
        /\ c.broker = out.broker /\ c.called = out.called
    BY <2>1 DEF OutcomeFields
  <2>3. m.orders = out.mem.orders /\ m.view = out.mem.view /\ m.lastUpdate = out.mem.lastUpdate
    BY <2>1 DEF MemFields
  <2>4. Finish(c) /\ todo' = todo /\ report' = report
    BY <1>3
  <2> HIDE DEF m, c, refused
  <2>5. Typed(c)
    BY <2>2, <2>3 DEF Typed, Shape
  <2>6. IsSequence(c.events) /\ \A p \in c.called \cap Places : Carries(durable, p)
    BY <1>1, <2>2
  <2>7. todo' \subseteq Places /\ report' \in Reports
    BY <2>4 DEF Backed
  <2> QED BY <2>4, <2>5, <2>6, <2>7, FinishBacked
<1> QED BY <1>2, <1>3 DEF RunCollected

\* A handler that writes plain records and leaves the orders, the view and the
\* broker as they are.
LEMMA QuietTyped ==
    ASSUME Backed, NEW e, PlainRecords(e), NEW m, m.orders = mem.orders, m.view = mem.view,
           m.lastUpdate = mem.lastUpdate, NEW s, s.intent \in {NoId, slot.intent}
    PROVE  Typed(Outcome(e, m, s))
<1> DEFINE out == Outcome(e, m, s)
<1>1. out.events = e /\ out.mem = m /\ out.slot = s /\ out.broker = broker
  BY OutcomeIs
<1> HIDE DEF out
<1>2. Shape(m, s, broker)
  BY DEF Shape, Backed
<1>3. Typed(out)
  BY <1>1, <1>2, PlainCompletes DEF Typed
<1> QED BY <1>3 DEF out

\* What a handler that moves no order leaves as it is.
SameOrders(m) == m.orders = mem.orders /\ m.view = mem.view /\ m.lastUpdate = mem.lastUpdate

\* The memory of a session that stops has the orders it had.
LEMMA StoppedOrders ==
    ASSUME IInv
    PROVE  /\ SameOrders(SafetyStopped(mem)) /\ SameOrders(mem)
           /\ SameOrders(StopOnce(mem, "other")) /\ SameOrders(StopOnce(mem, "strategy"))
           /\ Live(mem) => SameOrders(SafetyStopped(StopOnce(mem, "other")))
<1> DEFINE other == "other"
           strategy == "strategy"
<1>1. GoodMem(mem)
  BY DEF IInv, Session
<1>2. SameOrders(SafetyStopped(mem)) /\ SameOrders(mem)
  <2> DEFINE n == SafetyStopped(mem)
  <2>1. n = SafetyStopped(mem)
    OBVIOUS
  <2> HIDE DEF n
  <2>2. SameButStopped(mem, n)
    BY <1>1, <2>1, SafetyStoppedIs
  <2> QED BY <2>1, <2>2 DEF SameButStopped, SameOrders
<1>3. ASSUME NEW reason \in Reasons \ {"none"} PROVE SameOrders(StopOnce(mem, reason))
  <2> DEFINE n == StopOnce(mem, reason)
  <2>1. n = StopOnce(mem, reason)
    OBVIOUS
  <2> HIDE DEF n
  <2>2. SameButStopped(mem, n)
    BY <1>1, <2>1, StopOnceIs
  <2> QED BY <2>1, <2>2 DEF SameButStopped, SameOrders
<1>4. other \in Reasons \ {"none"} /\ strategy \in Reasons \ {"none"}
  BY DEF Reasons
<1>5. SameOrders(StopOnce(mem, other)) /\ SameOrders(StopOnce(mem, strategy))
  <2> HIDE DEF other, strategy
  <2> QED BY <1>3, <1>4
<1>6. Live(mem) => SameOrders(SafetyStopped(StopOnce(mem, "other")))
  <2> DEFINE n == SafetyStopped(StopOnce(mem, "other"))
  <2>1. n = SafetyStopped(StopOnce(mem, "other"))
    OBVIOUS
  <2> HIDE DEF n
  <2>2. Live(mem) => SameButStopped(mem, n)
    BY <1>1, <2>1, StoppedTwice
  <2> QED BY <2>1, <2>2 DEF SameButStopped, SameOrders
<1> QED BY <1>2, <1>5, <1>6

\* A record of a quiet type is plain.
LEMMA QuietPlain ==
    ASSUME NEW type \in QuietTypes, NEW i, NEW o, NEW e, e = <<Event(type, i, o)>>
    PROVE  IsSequence(e) /\ PlainRecords(e)
<1> DEFINE a == Event(type, i, o)
<1>1. PlainRecord(a)
  BY QuietRecords
<1> HIDE DEF a
<1> QED BY <1>1, PlainFew, FewRecords DEF a

\* The quiet types, one by one.
LEMMA QuietTypesAre ==
    /\ {"risk_rejected", "risk_approved", "mapping_validated", "mapping_refused",
        "intent_received", "reconciliation_required", "safety_stop", "session_started",
        "session_stopping", "session_stopped", "ledger_repair_recorded",
        "market_observation_accepted"} \subseteq QuietTypes
BY DEF QuietTypes, Mapping, Decisions

\* Another payload for a received intent (Conflict).
LEMMA ConflictTyped ==
    ASSUME IInv, Backed, NEW i
    PROVE  Typed(Conflict(i))
<1> DEFINE a == SafetyStop(i, NoId)
           b == Event("risk_rejected", i, NoId)
           u == SafetyStopped(mem)
           m == [u EXCEPT !.blocked = TRUE]
           e == <<a, b>>
<1>1. Conflict(i) = Outcome(e, m, slot)
  BY DEF Conflict
<1>2. PlainRecord(a) /\ PlainRecord(b)
  BY SafetyStopRecords, QuietRecords, QuietTypesAre
<1>3. SameOrders(u)
  BY StoppedOrders
<1>4. DOMAIN u = MemFields
  <2> HIDE DEF u
  <2>1. GoodMem(u)
    BY SafetyStoppedIs DEF u, IInv, Session
  <2> QED BY <2>1 DEF GoodMem
<1> HIDE DEF a, b, u
<1>5. PlainRecords(e)
  BY <1>2, PlainFew
<1>6. SameOrders(m)
  BY <1>3, <1>4 DEF SameOrders, MemFields
<1> HIDE DEF e, m
<1>7. Typed(Outcome(e, m, slot))
  BY <1>5, <1>6, QuietTyped DEF SameOrders
<1> QED BY <1>1, <1>7

\* A prepared capability without authority (SubmitRevoked).
LEMMA SubmitRevokedTyped ==
    ASSUME IInv, Backed, NEW i
    PROVE  Typed(SubmitRevoked(i))
<1> DEFINE type == "reconciliation_required"
           e == <<Event(type, i, OrderOf(i))>>
           m == [mem EXCEPT !.recon = TRUE, !.safety = TRUE]
<1>1. SubmitRevoked(i) = Outcome(e, m, EmptySlot)
  BY DEF SubmitRevoked
<1>2. type \in QuietTypes
  BY QuietTypesAre
<1>3. DOMAIN mem = MemFields
  BY DEF IInv, Session, GoodMem
<1>4. SameOrders(m)
  BY <1>3 DEF SameOrders, MemFields
<1> HIDE DEF type, m
<1>5. PlainRecords(e)
  BY <1>2, QuietPlain
<1> HIDE DEF e
<1>6. EmptySlot.intent \in {NoId, slot.intent}
  BY EmptySlotGood
<1>7. Typed(Outcome(e, m, EmptySlot))
  BY <1>4, <1>5, <1>6, QuietTyped DEF SameOrders
<1> QED BY <1>1, <1>7

\* An attempt record that is not acknowledged (SubmitUnacknowledged).
LEMMA SubmitUnacknowledgedTyped ==
    ASSUME IInv, Backed, phase \in {"up", "draining"}, NEW i
    PROVE  Typed(SubmitUnacknowledged(i))
<1> DEFINE a == SafetyStop(i, OrderOf(i))
           stops == StopOnceEvents(mem)
           e == Append(stops, a)
           m == SafetyStopped(StopOnce(mem, "other"))
<1>1. SubmitUnacknowledged(i) = Outcome(e, m, EmptySlot)
  BY DEF SubmitUnacknowledged
<1>2. PlainRecord(a)
  BY SafetyStopRecords
<1>3. IsSequence(stops) /\ PlainRecords(stops)
  BY PlainStopOnce
<1>4. SameOrders(m)
  BY StoppedOrders DEF IInv, Session, Fits
<1> HIDE DEF a, stops, m
<1>5. PlainRecords(e)
  BY <1>2, <1>3, PlainAppended
<1> HIDE DEF e
<1>6. EmptySlot.intent \in {NoId, slot.intent}
  BY EmptySlotGood
<1>7. Typed(Outcome(e, m, EmptySlot))
  BY <1>4, <1>5, <1>6, QuietTyped DEF SameOrders
<1> QED BY <1>1, <1>7

\* A fault, a disconnect and the begin of a shutdown (stop_once).
LEMMA StopOnceTyped ==
    ASSUME IInv, Backed, NEW reason \in {"other", "strategy"}, NEW m,
           SameOrders(StopOnce(mem, reason)) => SameOrders(m),
           NEW s, s.intent = slot.intent
    PROVE  Typed(Outcome(StopOnceEvents(mem), m, s))
<1> DEFINE e == StopOnceEvents(mem)
<1>1. PlainRecords(e)
  BY PlainStopOnce
<1>2. SameOrders(m)
  BY StoppedOrders
<1> HIDE DEF e
<1>3. Typed(Outcome(e, m, s))
  BY <1>1, <1>2, QuietTyped DEF SameOrders
<1> QED BY <1>3 DEF e

\* What the handler notes besides the stop moves no order.
LEMMA NotedOrders ==
    ASSUME IInv, NEW reason \in {"other", "strategy"}, NEW u, u = StopOnce(mem, reason)
    PROVE  /\ SameOrders(u)
           /\ SameOrders([u EXCEPT !.behind = TRUE]) /\ SameOrders([u EXCEPT !.behind = FALSE])
           /\ SameOrders([u EXCEPT !.connected = FALSE])
<1>1. SameOrders(u)
  BY StoppedOrders
<1>2. DOMAIN u = MemFields
  <2>1. reason \in Reasons \ {"none"}
    BY DEF Reasons
  <2>2. GoodMem(u)
    BY <2>1, StopOnceIs DEF IInv, Session
  <2> QED BY <2>2 DEF GoodMem
<1> QED BY <1>1, <1>2 DEF SameOrders, MemFields

\* The stage keeps its intent when it is revoked.
LEMMA RevokedIntent ==
    ASSUME IInv
    PROVE  Revoked(slot).intent = slot.intent
<1>1. slot \in [intent : Intents \cup {NoId}, current : BOOLEAN]
  BY DEF IInv, Session, GoodSlot
<1> QED BY <1>1 DEF Revoked

\* A handler that writes plain records.
LEMMA PlainTyped ==
    ASSUME NEW e, PlainRecords(e), NEW m, NEW s, Shape(m, s, broker)
    PROVE  Typed(Outcome(e, m, s))
<1> DEFINE out == Outcome(e, m, s)
<1>1. out.events = e /\ out.mem = m /\ out.slot = s /\ out.broker = broker
  BY OutcomeIs
<1> HIDE DEF out
<1>2. Typed(out)
  BY <1>1, PlainCompletes DEF Typed
<1> QED BY <1>2 DEF out

\* The order of an approved attempt (prepare_intent): a new one whose submission
\* starts, or a known one whose modify or cancel is requested.
AttemptMoves(i, q) ==
    /\ GoodOrder(q)
    /\ i \in Places => Submission(q, Terms[i].quantity, Terms[i].price)
    /\ i \notin Places => Moves(mem.orders[OrderOf(i)], EvidenceKind[AttemptType(i)], q)

\* The transition of an approved attempt gives a good order.
LEMMA TransitionGood ==
    ASSUME IInv, Backed, NEW i \in Intents, i \notin Places => OrderOf(i) \in DOMAIN mem.orders,
           NEW r, r = AttemptTransition(i), ~r.refused
    PROVE  AttemptMoves(i, r.order)
<1> DEFINE o == OrderOf(i)
           type == AttemptType(i)
           e == IntentEvent(type, i)
<1>1. /\ i \in Places => type = "submission_started"
      /\ i \in Modifies => type = "modify_requested"
      /\ i \in Cancels => type = "cancel_requested"
      /\ i \notin Places => type \in DOMAIN EvidenceKind
      /\ type # "reconciliation_completed"
      /\ type \in {"submission_started", "broker_acknowledged", "broker_rejected"} => i \in Places
  BY OrdersOfPlaces, IntentsAssumption DEF AttemptType, EvidenceKind
<1> HIDE DEF type
<1>2. TypedRecord(e)
  BY <1>1, IntentRecords DEF PlainRecord
<1>3. i \in Places => Terms[i].quantity \in Nat \ {0} /\ Terms[i].price \in Nat \ {0}
  BY TermsAssumption
<1> HIDE DEF e
<1>4. CASE i \in Places
  <2> DEFINE kind == "SubmissionStarted"
             u == EvidenceOf(e, kind)
             quantity == Terms[i].quantity
             price == Terms[i].price
  <2>1. r = ApplyOrderUpdate(NewOrder("Buy", quantity, price), u)
    BY <1>4 DEF AttemptTransition, e, type
  <2>2. u.id = NoId /\ u.kind = "SubmissionStarted"
    BY <1>2, RecordEvidence
  <2>3. quantity \in Nat /\ price \in Nat
    BY <1>3, <1>4
  <2> HIDE DEF u, quantity, price
  <2>4. Submission(r.order, quantity, price)
    BY <2>1, <2>2, <2>3, SubmissionMoves
  <2> QED BY <1>4, <2>4 DEF AttemptMoves, Submission, quantity, price
<1>5. CASE i \notin Places
  <2> DEFINE kind == EvidenceKind[type]
             u == EvidenceOf(e, kind)
             q == mem.orders[o]
  <2>1. r = ApplyOrderUpdate(q, u)
    BY <1>5 DEF AttemptTransition, e, type
  <2>2. SessionEvidence(u) /\ u.kind = kind
    BY <1>1, <1>2, <1>5, RecordKinds, RecordEvidence
  <2>3. GoodOrder(q)
    BY <1>5 DEF Backed, Shape, GoodOrders
  <2> HIDE DEF u, q, kind
  <2>4. Moves(q, kind, r.order)
    BY <2>1, <2>2, <2>3, EvidenceMoves
  <2> QED BY <1>5, <2>4 DEF AttemptMoves, Moves, q, kind, type
<1> QED BY <1>4, <1>5

\* What follows an approval (Attempt, Prepared).
LEMMA AttemptTyped ==
    ASSUME IInv, Backed, slot = EmptySlot, NEW i \in Intents, NEW e, IsSequence(e),
           PlainRecords(e), NEW m, GoodMem(m), SameOrders(m), NEW overflow \in BOOLEAN,
           NEW transition, transition = AttemptTransition(i)
    PROVE  Typed(Attempt(i, e, m, transition, overflow))
<1> DEFINE b == IntentEvent(AttemptType(i), i)
           stop == SafetyStop(i, OrderOf(i))
           f == Append(e, b)
           o == OrderOf(i)
           q == transition.order
           n == [m EXCEPT !.orders = Put(@, o, q)]
           out == Attempt(i, e, m, transition, overflow)
           no == (i \notin Places /\ o \notin DOMAIN mem.orders) \/ transition.refused
<1>1. out = IF no THEN Outcome(Append(e, stop), SafetyStopped(m), slot)
            ELSE Prepared(i, f, n, overflow)
  BY DEF Attempt
<1>2. PlainRecord(stop)
  BY SafetyStopRecords
<1>3. PlainRecord(b)
  <2> DEFINE type == AttemptType(i)
  <2>1. /\ type # "reconciliation_completed"
        /\ type \in {"submission_started", "broker_acknowledged", "broker_rejected"} => i \in Places
    BY DEF AttemptType
  <2> HIDE DEF type
  <2> QED BY <2>1, IntentRecords DEF type
<1> HIDE DEF b, stop, out
<1>4. IsSequence(f) /\ PlainRecords(f)
  BY <1>3, PlainAppended
<1> HIDE DEF f
<1>5. slot.intent = NoId
  BY EmptySlotGood
<1>6. CASE no
  <2> DEFINE g == Append(e, stop)
             w == SafetyStopped(m)
  <2>1. PlainRecords(g)
    BY <1>2, PlainAppended
  <2>2. out = Outcome(g, w, slot)
    BY <1>1, <1>6
  <2>3. w = SafetyStopped(m)
    OBVIOUS
  <2> HIDE DEF g, w
  <2>4. SameButStopped(m, w)
    BY <2>3, SafetyStoppedIs
  <2>5. Typed(Outcome(g, w, slot))
    BY <2>1, <2>4, QuietTyped DEF SameButStopped, SameOrders
  <2> QED BY <2>2, <2>5 DEF out
<1>7. CASE ~no
  <2>1. GoodOrder(q) /\ o \in Places
    BY <1>7, TransitionGood, OrdersOfPlaces DEF AttemptMoves
  <2> HIDE DEF q, no
  <2>2. DOMAIN m = MemFields
    BY DEF GoodMem
  <2>3. /\ n.orders = Put(mem.orders, o, q) /\ n.view = mem.view /\ n.lastUpdate = mem.lastUpdate
    BY <2>2 DEF MemFields, SameOrders
  <2>4. /\ DOMAIN n = MemFields /\ n.ready = m.ready /\ n.safety = m.safety /\ n.recon = m.recon
        /\ n.kill = m.kill /\ n.observed = m.observed /\ n.blocked = m.blocked
        /\ n.reason = m.reason /\ n.behind = m.behind /\ n.connected = m.connected
    BY <2>2 DEF MemFields
  <2> HIDE DEF n
  <2>5. /\ DOMAIN n.orders = DOMAIN mem.orders \cup {o} /\ n.orders[o] = q
        /\ \A p \in DOMAIN mem.orders : p # o => n.orders[p] = mem.orders[p]
    BY <2>3 DEF Put
  <2>6. GoodMem(n)
    <3>1. IsFiniteSet(DOMAIN mem.orders)
      BY DEF IInv, Session, GoodMem
    <3>2. IsFiniteSet(DOMAIN n.orders)
      BY <2>5, <3>1, FS_AddElement
    <3> QED BY <2>4, <3>2 DEF GoodMem
  <2>7. ASSUME NEW s, s.intent = NoId \/ OrderOf(s.intent) = o, NEW w,
               w.orders = n.orders, w.view = n.view, w.lastUpdate = n.lastUpdate
        PROVE  Shape(w, s, broker)
    <3>1. GoodOrders(w.orders) /\ DOMAIN w.orders \subseteq Places
      BY <2>1, <2>5, <2>7 DEF GoodOrders, Backed, Shape
    <3> QED BY <2>3, <2>5, <2>7, <3>1 DEF Backed, Shape
  <2>8. CASE overflow
    <3> DEFINE u == StopOnce(n, "other")
               w == [u EXCEPT !.behind = @ \/ n.reason = "none"]
               stops == StopOnceEvents(n)
               g == f \o stops
               other == "other"
    <3>1. out = Outcome(g, w, slot)
      BY <1>1, <1>7, <2>8 DEF Prepared, no, n, q
    <3>2. IsSequence(stops) /\ PlainRecords(stops)
      BY PlainStopOnce
    <3>3. other \in Reasons \ {"none"} /\ u = StopOnce(n, other)
      BY DEF Reasons
    <3> HIDE DEF stops, other, u
    <3>4. PlainRecords(g)
      BY <1>4, <3>2, PlainJoined
    <3> HIDE DEF g
    <3>5. GoodMem(u) /\ SameButStopped(n, u)
      BY <2>6, <3>3, StopOnceIs
    <3>6. w.orders = n.orders /\ w.view = n.view /\ w.lastUpdate = n.lastUpdate
      BY <3>5 DEF GoodMem, MemFields, SameButStopped
    <3> HIDE DEF w
    <3>7. Typed(Outcome(g, w, slot))
      BY <1>5, <2>7, <3>4, <3>6, PlainTyped
    <3> QED BY <3>1, <3>7 DEF out
  <2>9. CASE ~overflow
    <3> DEFINE new == [intent |-> i, current |-> TRUE]
               s == IF n.reason = "none" THEN new ELSE slot
    <3>1. out = Outcome(f, n, s)
      BY <1>1, <1>7, <2>9 DEF Prepared, no, n, q
    <3>2. new.intent = i
      OBVIOUS
    <3> HIDE DEF new
    <3>3. s.intent = NoId \/ OrderOf(s.intent) = o
      BY <1>5, <3>2
    <3> HIDE DEF s
    <3>4. Typed(Outcome(f, n, s))
      BY <1>4, <2>7, <3>3, PlainTyped
    <3> QED BY <3>1, <3>4 DEF out
  <2> QED BY <2>8, <2>9
<1> QED BY <1>6, <1>7

\* A new intent (PrepareNew).
LEMMA PrepareNewTyped ==
    ASSUME IInv, Backed, slot = EmptySlot, NEW i \in Intents, NEW c,
           NEW mapped \in BOOLEAN, NEW within \in BOOLEAN, NEW overflow \in BOOLEAN
    PROVE  Typed(PrepareNew(i, c, mapped, within, overflow))
<1> DEFINE u == Event("intent_received", i, NoId)
           x == [u EXCEPT !.content = c]
           yes == Event("mapping_validated", i, OrderOf(i))
           not == Event("mapping_refused", i, NoId)
           y == IF mapped THEN yes ELSE not
           a == Event("risk_approved", i, OrderOf(i))
           b == Event("risk_rejected", i, NoId)
           p == <<x, y>>
           m == [mem EXCEPT !.received = Put(@, i, c)]
           transition == AttemptTransition(i)
           e == Append(p, a)
           f == Append(p, b)
           out == PrepareNew(i, c, mapped, within, overflow)
<1>1. out = IF Approves(i, mapped, within)
            THEN Attempt(i, e, m, transition, overflow)
            ELSE Outcome(f, m, slot)
  BY DEF PrepareNew
<1>2. /\ PlainRecord(yes) /\ PlainRecord(not) /\ PlainRecord(a) /\ PlainRecord(b)
  BY QuietRecords, QuietTypesAre
<1>3. PlainRecord(x)
  <2>1. PlainRecord(u) /\ DOMAIN u = RecordFields
    BY QuietRecords, QuietTypesAre, EventIs
  <2> HIDE DEF u
  <2>2. /\ x.type = u.type /\ x.side = u.side /\ x.quantity = u.quantity /\ x.price = u.price
        /\ x.cumulative = u.cumulative /\ x.sequence = u.sequence /\ x.order = u.order
        /\ x.intent = u.intent
    BY <2>1 DEF RecordFields
  <2> HIDE DEF x
  <2> QED BY <2>1, <2>2 DEF PlainRecord, TypedRecord
<1>4. GoodMem(m) /\ SameOrders(m)
  <2>1. GoodMem(mem) /\ DOMAIN mem = MemFields
    BY DEF IInv, Session, GoodMem
  <2>2. /\ DOMAIN m = MemFields /\ m.ready = mem.ready /\ m.safety = mem.safety
        /\ m.recon = mem.recon
        /\ m.kill = mem.kill /\ m.observed = mem.observed /\ m.blocked = mem.blocked
        /\ m.reason = mem.reason /\ m.behind = mem.behind /\ m.connected = mem.connected
        /\ m.orders = mem.orders /\ m.view = mem.view /\ m.lastUpdate = mem.lastUpdate
    BY <2>1 DEF MemFields
  <2> HIDE DEF m
  <2> QED BY <2>1, <2>2 DEF GoodMem, SameOrders
<1> HIDE DEF x, yes, not, a, b, m, transition, out
<1>5. PlainRecord(y)
  BY <1>2
<1> HIDE DEF y
<1>6. IsSequence(p) /\ PlainRecords(p)
  BY <1>3, <1>5, PlainFew, TwoRecords
<1> HIDE DEF p
<1>7. /\ IsSequence(e) /\ PlainRecords(e) /\ PlainRecords(f)
  BY <1>2, <1>6, PlainAppended
<1> HIDE DEF e, f
<1>8. Typed(Attempt(i, e, m, transition, overflow))
  BY <1>4, <1>7, AttemptTyped DEF transition
<1>9. Typed(Outcome(f, m, slot))
  BY <1>4, <1>7, QuietTyped DEF SameOrders
<1>10. Typed(out)
  BY <1>1, <1>8, <1>9
<1> QED BY <1>10 DEF out

\* process_next_risk_work() and prepare_intent().
LEMMA PrepareTyped ==
    ASSUME IInv, Backed, slot = EmptySlot, NEW i \in Intents, NEW c,
           NEW outcome \in PrepareOutcomes(i, c)
    PROVE  Typed(outcome)
<1>1. CASE outcome = Conflict(i)
  BY <1>1, ConflictTyped
<1>2. CASE outcome # Conflict(i)
  <2>1. outcome \in NewIntent(i, c)
    BY <1>2 DEF PrepareOutcomes
  <2>2. PICK mapped \in BOOLEAN, within \in BOOLEAN, overflow \in BOOLEAN :
          outcome = PrepareNew(i, c, mapped, within, overflow)
    BY <2>1 DEF NewIntent
  <2> QED BY <2>2, PrepareNewTyped
<1> QED BY <1>1, <1>2

-----------------------------------------------------------------------------
(* What submissions, observations and reconnects leave.                    *)

\* The terms of a modify, and what a modify and a cancel make of snapshots.
ModifiedAt(f, o, terms) == [f EXCEPT ![o].quantity = terms.quantity, ![o].price = terms.price]

\* The snapshots after a cancel of order o.
CancelledAt(f, o) == [f EXCEPT ![o].state = "cancelled"]

\* A snapshot that is put in, changed by a modify or by a cancel leaves snapshots.
LEMMA SnapsPut ==
    ASSUME NEW f, Snapped(f), NEW o, NEW s \in Snapshots
    PROVE  Snapped(Put(f, o, s)) /\ DOMAIN Put(f, o, s) = DOMAIN f \cup {o}
<1> DEFINE g == Put(f, o, s)
<1>1. /\ DOMAIN g = DOMAIN f \cup {o} /\ (o \in DOMAIN g => g[o] = s)
      /\ \A p \in DOMAIN g \ {o} : p \in DOMAIN f /\ g[p] = f[p]
  BY DEF Put
<1> HIDE DEF g
<1> QED BY <1>1 DEF Snapped, g

\* A modify changes quantity and price of one snapshot, and no key.
LEMMA SnapsModified ==
    ASSUME NEW f, Snapped(f), NEW o, NEW t, t.quantity \in Nat, t.price \in Nat
    PROVE  Snapped(ModifiedAt(f, o, t)) /\ DOMAIN ModifiedAt(f, o, t) = DOMAIN f
<1> DEFINE g == ModifiedAt(f, o, t)
           quantity == t.quantity
           price == t.price
<1>1. g = [f EXCEPT ![o].quantity = quantity, ![o].price = price]
  BY DEF ModifiedAt
<1>2. quantity \in Nat /\ price \in Nat
  OBVIOUS
<1> HIDE DEF g, quantity, price
<1>3. DOMAIN g = DOMAIN f /\ \A p \in DOMAIN f \ {o} : g[p] = f[p]
  BY <1>1
<1>4. o \in DOMAIN f => g[o] \in Snapshots
  BY <1>1, <1>2 DEF Snapped, Snapshots
<1>5. Snapped(g)
  BY <1>3, <1>4 DEF Snapped
<1> QED BY <1>3, <1>5 DEF g

\* A cancel changes the state of one snapshot, and no key.
LEMMA SnapsCancelled ==
    ASSUME NEW f, Snapped(f), NEW o
    PROVE  Snapped(CancelledAt(f, o)) /\ DOMAIN CancelledAt(f, o) = DOMAIN f
<1> DEFINE g == CancelledAt(f, o)
<1>1. g = [f EXCEPT ![o].state = "cancelled"]
  BY DEF CancelledAt
<1> HIDE DEF g
<1>2. DOMAIN g = DOMAIN f /\ \A p \in DOMAIN f \ {o} : g[p] = f[p]
  BY <1>1
<1>3. o \in DOMAIN f => g[o] \in Snapshots
  BY <1>1 DEF Snapped, Snapshots, BrokerTerminal
<1>4. Snapped(g)
  BY <1>2, <1>3 DEF Snapped
<1> QED BY <1>2, <1>4 DEF g

\* A placed order.
LEMMA PlacedTyped ==
    ASSUME NEW i \in Places \cup Modifies
    PROVE  /\ Placed(Terms[i]) \in Snapshots
           /\ Terms[i].quantity \in Nat \ {0} /\ Terms[i].price \in Nat \ {0}
<1> DEFINE q == Terms[i].quantity
           p == Terms[i].price
<1>1. q \in Nat \ {0} /\ p \in Nat \ {0}
  BY TermsAssumption
<1> HIDE DEF q, p
<1>2. [quantity |-> q, price |-> p, cumulative |-> 0, state |-> "working"] \in Snapshots
  BY <1>1 DEF Snapshots
<1> QED BY <1>1, <1>2 DEF Placed, q, p

\* What the paper broker answers, and what it then holds.
Replied(i, reply) ==
    LET o == OrderOf(i)
        before == broker.orders
    IN  \/ reply.status = "Ambiguous" /\ broker.health # "Ready" /\ reply.orders = before
        \/ reply.status = "Rejected" /\ broker.health = "Ready" /\ reply.orders = before
        \/ /\ reply.status = "Acknowledged" /\ broker.health = "Ready"
           /\ i \in Places /\ o \notin DOMAIN before
           /\ reply.orders = Put(before, o, Placed(Terms[i]))
        \/ /\ reply.status = "Acknowledged" /\ broker.health = "Ready"
           /\ i \in Modifies /\ o \in DOMAIN before /\ before[o].state \notin BrokerTerminal
           /\ ~(Terms[i].quantity < before[o].cumulative)
           /\ reply.orders = ModifiedAt(before, o, Terms[i])
        \/ /\ reply.status = "Acknowledged" /\ broker.health = "Ready"
           /\ i \in Cancels /\ o \in DOMAIN before
           /\ before[o].state \notin BrokerTerminal \ {"cancelled"}
           /\ reply.orders = CancelledAt(before, o)

\* The paper broker answers in one of these ways (place, modify, cancel).
LEMMA BrokerReplyIs ==
    ASSUME NEW i \in Intents, NEW reply, reply = BrokerReply(i)
    PROVE  Replied(i, reply)
<1> DEFINE o == OrderOf(i)
           before == broker.orders
           known == o \in DOMAIN before
           put == Put(before, o, Placed(Terms[i]))
           modified == ModifiedAt(before, o, Terms[i])
           cancelled == CancelledAt(before, o)
<1>1. CASE broker.health # "Ready"
  BY <1>1 DEF BrokerReply, Reply, Replied
<1>2. CASE broker.health = "Ready" /\ i \in Places
  <2>0. i \notin Modifies /\ i \notin Cancels
    BY <1>2, IntentsAssumption
  <2>1. reply = IF known THEN Reply("Rejected", before) ELSE Reply("Acknowledged", put)
    BY <1>2, <2>0 DEF BrokerReply
  <2> HIDE DEF put
  <2>2. \/ known /\ reply.status = "Rejected" /\ reply.orders = before
        \/ ~known /\ reply.status = "Acknowledged" /\ reply.orders = put
    BY <2>1 DEF Reply
  <2> QED BY <1>2, <2>2 DEF Replied, put
<1>3. CASE broker.health = "Ready" /\ i \in Modifies
  <2> DEFINE refused == \/ ~known
                        \/ before[o].state \in BrokerTerminal
                        \/ Terms[i].quantity < before[o].cumulative
  <2>1. i \notin Places /\ i \notin Cancels
    BY <1>3, IntentsAssumption
  <2>2. reply = IF refused THEN Reply("Rejected", before) ELSE Reply("Acknowledged", modified)
    BY <1>3, <2>1 DEF BrokerReply, ModifiedAt
  <2> HIDE DEF modified
  <2>3. \/ reply.status = "Rejected" /\ reply.orders = before
        \/ ~refused /\ reply.status = "Acknowledged" /\ reply.orders = modified
    BY <2>2 DEF Reply
  <2> QED BY <1>3, <2>3 DEF Replied, modified
<1>4. CASE broker.health = "Ready" /\ i \in Cancels
  <2> DEFINE refused == ~known \/ (before[o].state \in BrokerTerminal \ {"cancelled"})
  <2>1. i \notin Places /\ i \notin Modifies
    BY <1>4, IntentsAssumption
  <2>2. reply = IF refused THEN Reply("Rejected", before) ELSE Reply("Acknowledged", cancelled)
    BY <1>4, <2>1 DEF BrokerReply, CancelledAt
  <2> HIDE DEF cancelled
  <2>3. \/ reply.status = "Rejected" /\ reply.orders = before
        \/ ~refused /\ reply.status = "Acknowledged" /\ reply.orders = cancelled
    BY <2>2 DEF Reply
  <2> QED BY <1>4, <2>3 DEF Replied, cancelled
<1> QED BY <1>1, <1>2, <1>3, <1>4 DEF Intents

\* The broker holds snapshots of places' orders.
LEMMA RepliedTyped ==
    ASSUME Backed, NEW i \in Intents, NEW reply, Replied(i, reply)
    PROVE  /\ Snapped(reply.orders) /\ DOMAIN reply.orders \subseteq Places
           /\ reply.status \in {"Ambiguous", "Rejected", "Acknowledged"}
<1>1. Snapped(broker.orders) /\ DOMAIN broker.orders \subseteq Places /\ OrderOf(i) \in Places
  BY OrdersOfPlaces DEF Backed, Shape
<1>2. i \in Places \cup Modifies =>
        Placed(Terms[i]) \in Snapshots /\ Terms[i].quantity \in Nat /\ Terms[i].price \in Nat
  BY PlacedTyped
<1> DEFINE o == OrderOf(i)
           before == broker.orders
           t == Terms[i]
           s == Placed(t)
<1> HIDE DEF o, before, t, s
<1>3. CASE reply.orders = before /\ reply.status \in {"Ambiguous", "Rejected"}
  BY <1>1, <1>3 DEF before
<1>4. CASE i \in Places /\ reply.status = "Acknowledged" /\ reply.orders = Put(before, o, s)
  <2>1. Snapped(before) /\ s \in Snapshots /\ DOMAIN before \subseteq Places /\ o \in Places
    BY <1>1, <1>2, <1>4 DEF s, t, before, o
  <2>2. Snapped(Put(before, o, s)) /\ DOMAIN Put(before, o, s) = DOMAIN before \cup {o}
    BY <2>1, SnapsPut
  <2> QED BY <1>4, <2>1, <2>2
<1>5. CASE i \in Modifies /\ reply.status = "Acknowledged" /\ reply.orders = ModifiedAt(before, o, t)
  <2>1. Snapped(before) /\ t.quantity \in Nat /\ t.price \in Nat /\ DOMAIN before \subseteq Places
    BY <1>1, <1>2, <1>5 DEF t, before
  <2>2. Snapped(ModifiedAt(before, o, t)) /\ DOMAIN ModifiedAt(before, o, t) = DOMAIN before
    BY <2>1, SnapsModified
  <2> QED BY <1>5, <2>1, <2>2
<1>6. CASE reply.status = "Acknowledged" /\ reply.orders = CancelledAt(before, o)
  <2>1. Snapped(before) /\ DOMAIN before \subseteq Places
    BY <1>1 DEF before
  <2>2. Snapped(CancelledAt(before, o)) /\ DOMAIN CancelledAt(before, o) = DOMAIN before
    BY <2>1, SnapsCancelled
  <2> QED BY <1>6, <2>1, <2>2
<1> QED BY <1>3, <1>4, <1>5, <1>6 DEF Replied, o, before, t, s

\* The record of an answer is one of a session, and evidence for its order.
LEMMA OutcomeRecords ==
    ASSUME NEW i \in Intents, NEW status \in {"Ambiguous", "Rejected", "Acknowledged"},
           NEW type, type = OutcomeType(i, status)
    PROVE  /\ PlainRecord(IntentEvent(type, i)) /\ IntentEvent(type, i).type = type
           /\ type \in DOMAIN EvidenceKind /\ type \in BrokerOutcomes
           /\ type \in {"broker_acknowledged", "broker_rejected"} => i \in Places
           /\ type \in {"modified", "modify_rejected"} => i \in Modifies
           /\ type \in {"cancelled", "cancel_rejected"} => i \in Cancels
           /\ type \in {"broker_acknowledged", "modified", "cancelled"} <=> status = "Acknowledged"
           /\ type = "ambiguous_submission" <=> status = "Ambiguous"
<1>1. /\ i \in Places \/ i \in Modifies \/ i \in Cancels
      /\ i \in Places => i \notin Modifies
  BY OrdersOfPlaces
<1>2. CASE status = "Ambiguous"
  <2>1. type = "ambiguous_submission"
    BY <1>2 DEF OutcomeType
  <2> QED BY <1>2, <2>1, IntentRecords DEF EvidenceKind, BrokerOutcomes
<1>3. CASE status = "Acknowledged"
  <2>1. /\ i \in Places => type = "broker_acknowledged"
        /\ i \notin Places /\ i \in Modifies => type = "modified"
        /\ i \notin Places /\ i \notin Modifies => type = "cancelled"
    BY <1>3 DEF OutcomeType
  <2> QED BY <1>1, <1>3, <2>1, IntentRecords DEF EvidenceKind, BrokerOutcomes
<1>4. CASE status = "Rejected"
  <2>1. /\ i \in Places => type = "broker_rejected"
        /\ i \notin Places /\ i \in Modifies => type = "modify_rejected"
        /\ i \notin Places /\ i \notin Modifies => type = "cancel_rejected"
    BY <1>4 DEF OutcomeType
  <2> QED BY <1>1, <1>4, <2>1, IntentRecords DEF EvidenceKind, BrokerOutcomes
<1> QED BY <1>2, <1>3, <1>4

\* How an answer changes the session's view (ViewAfter).
LEMMA ViewTyped ==
    ASSUME Backed, NEW i \in Intents, OrderOf(i) \in DOMAIN mem.orders, NEW type,
           type = "broker_acknowledged" => i \in Places, type = "modified" => i \in Modifies,
           NEW view, view = ViewAfter(type, i)
    PROVE  Snapped(view) /\ DOMAIN view \subseteq DOMAIN mem.orders
<1> DEFINE o == OrderOf(i)
           before == mem.view
           t == Terms[i]
           s == Placed(t)
<1>1. Snapped(mem.view) /\ DOMAIN mem.view \subseteq DOMAIN mem.orders
  BY DEF Backed, Shape
<1>0. Snapped(before) /\ DOMAIN before \subseteq DOMAIN mem.orders /\ o \in DOMAIN mem.orders
  BY <1>1
<1>2. CASE type = "broker_acknowledged"
  <2>1. view = Put(before, o, s) /\ s \in Snapshots
    BY <1>2, PlacedTyped DEF ViewAfter
  <2> HIDE DEF o, before, s, t
  <2>2. Snapped(Put(before, o, s)) /\ DOMAIN Put(before, o, s) = DOMAIN before \cup {o}
    BY <1>0, <2>1, SnapsPut
  <2> QED BY <1>0, <2>1, <2>2
<1>3. CASE type = "modified"
  <2>1. view = ModifiedAt(before, o, t)
    BY <1>3 DEF ViewAfter, ModifiedAt
  <2>2. t.quantity \in Nat /\ t.price \in Nat
    BY <1>3, PlacedTyped
  <2> HIDE DEF o, before, s, t
  <2>3. Snapped(ModifiedAt(before, o, t)) /\ DOMAIN ModifiedAt(before, o, t) = DOMAIN before
    BY <1>0, <2>2, SnapsModified
  <2> QED BY <1>0, <2>1, <2>3
<1>4. CASE type = "cancelled"
  <2>1. view = CancelledAt(before, o)
    BY <1>4 DEF ViewAfter, CancelledAt
  <2> HIDE DEF o, before, s, t
  <2>2. Snapped(CancelledAt(before, o)) /\ DOMAIN CancelledAt(before, o) = DOMAIN before
    BY <1>0, SnapsCancelled
  <2> QED BY <1>0, <2>1, <2>2
<1>5. CASE type \notin {"broker_acknowledged", "modified", "cancelled"}
  <2>1. view = mem.view
    BY <1>5 DEF ViewAfter
  <2> QED BY <1>1, <2>1
<1> QED BY <1>2, <1>3, <1>4, <1>5

\* The broker is called (SubmitCalled, Answered).
LEMMA SubmitCalledTyped ==
    ASSUME IInv, Backed, phase \in {"up", "draining"}, NEW i \in Intents, i = slot.intent,
           NEW acknowledged \in BOOLEAN
    PROVE  Typed(SubmitCalled(i, acknowledged))
<1> DEFINE o == OrderOf(i)
           reply == BrokerReply(i)
           b == [broker EXCEPT !.orders = reply.orders]
           type == OutcomeType(i, reply.status)
           event == IntentEvent(type, i)
           kind == EvidenceKind[event.type]
           result == ApplyOrderUpdate(mem.orders[o], EvidenceOf(event, kind))
           uncertain == result.refused \/ reply.status = "Ambiguous" \/ ~acknowledged
           a == SafetyStop(i, o)
           refusal == IF result.refused THEN <<a>> ELSE << >>
           told == Append(refusal, event)
           stop == IF acknowledged THEN << >> ELSE StopOnceEvents(mem)
           stops == IF uncertain THEN Append(stop, a) ELSE << >>
           e == told \o stops
           view == ViewAfter(event.type, i)
           applied == [mem EXCEPT !.orders[o] = result.order, !.view = view]
           m == IF uncertain
                THEN SafetyStopped(IF acknowledged THEN mem ELSE StopOnce(mem, "other"))
                ELSE applied
           answered == Outcome(e, m, EmptySlot)
           out == SubmitCalled(i, acknowledged)
<1>1. out = WithCall(answered, i, 0, b)
  BY DEF SubmitCalled, Answered
<1>2. /\ Snapped(reply.orders) /\ DOMAIN reply.orders \subseteq Places
      /\ reply.status \in {"Ambiguous", "Rejected", "Acknowledged"}
  BY BrokerReplyIs, RepliedTyped
<1>3. o \in DOMAIN mem.orders
  BY OrdersOfPlaces DEF Backed, Shape
<1>4. PlainRecord(a)
  BY SafetyStopRecords
<1>5. DOMAIN b = {"health", "orders"} /\ b.health = broker.health /\ b.orders = reply.orders
  <2>1. DOMAIN broker = {"health", "orders"}
    BY DEF IInv, Session, GoodBroker
  <2> HIDE DEF reply
  <2> QED BY <2>1
<1> DEFINE status == reply.status
<1>6. /\ PlainRecord(event) /\ event.type = type
      /\ type \in DOMAIN EvidenceKind
      /\ type = "broker_acknowledged" => i \in Places
      /\ type = "modified" => i \in Modifies
  <2>1. status \in {"Ambiguous", "Rejected", "Acknowledged"} /\ type = OutcomeType(i, status)
    BY <1>2
  <2> HIDE DEF status, type
  <2> QED BY <2>1, OutcomeRecords
<1> HIDE DEF reply, b, type, event, a, status
<1>7. ~result.refused => GoodOrder(result.order)
  <2> DEFINE u == EvidenceOf(event, kind)
             q == mem.orders[o]
  <2>1. SessionEvidence(u) /\ u.kind = kind
    BY <1>6, RecordKinds, RecordEvidence DEF PlainRecord
  <2>2. GoodOrder(q)
    BY <1>3 DEF Backed, Shape, GoodOrders
  <2>3. result = ApplyOrderUpdate(q, u)
    OBVIOUS
  <2> HIDE DEF u, q, result
  <2>4. ~result.refused => Moves(q, u.kind, result.order)
    BY <2>1, <2>2, <2>3, EvidenceMoves
  <2> QED BY <2>4 DEF Moves
<1>8. Snapped(view) /\ DOMAIN view \subseteq DOMAIN mem.orders
  BY <1>3, <1>6, ViewTyped
<1> HIDE DEF result, kind, view
<1>9. IsSequence(refusal) /\ PlainRecords(refusal)
  BY <1>4, PlainFew, FewRecords
<1> HIDE DEF refusal
<1>10. IsSequence(told) /\ PlainRecords(told)
  BY <1>6, <1>9, PlainAppended
<1>11. IsSequence(stop) /\ PlainRecords(stop)
  BY PlainFew, FewRecords, PlainStopOnce
<1> HIDE DEF told, stop
<1>12. IsSequence(stops) /\ PlainRecords(stops)
  <2>1. CASE uncertain
    <3>1. stops = Append(stop, a)
      BY <2>1
    <3> HIDE DEF stops
    <3> QED BY <1>4, <1>11, <3>1, PlainAppended
  <2>2. CASE ~uncertain
    <3>1. stops = << >>
      BY <2>2
    <3> HIDE DEF stops
    <3> QED BY <3>1, PlainFew, FewRecords
  <2> QED BY <2>1, <2>2
<1> HIDE DEF stops
<1>13. PlainRecords(e)
  BY <1>10, <1>12, PlainJoined
<1> HIDE DEF e
<1>14. Shape(m, EmptySlot, b)
  <2>1. CASE uncertain
    <3>1. SameOrders(m)
      <4>1. CASE acknowledged
        BY <2>1, <4>1, StoppedOrders
      <4>2. CASE ~acknowledged
        BY <2>1, <4>2, StoppedOrders DEF IInv, Session, Fits
      <4> QED BY <4>1, <4>2
    <3> HIDE DEF m
    <3> QED BY <1>2, <1>5, <3>1, EmptySlotGood DEF Shape, SameOrders, Backed
  <2>2. CASE ~uncertain
    <3>1. m = [mem EXCEPT !.orders[o] = result.order, !.view = view]
      BY <2>2
    <3>2. DOMAIN mem = MemFields
      BY DEF IInv, Session, GoodMem
    <3>3. /\ m.orders = [mem.orders EXCEPT ![o] = result.order] /\ m.view = view
          /\ m.lastUpdate = mem.lastUpdate
      <4> HIDE DEF m, o
      <4> QED BY <3>1, <3>2 DEF MemFields
    <3> HIDE DEF m, o
    <3>4. DOMAIN m.orders = DOMAIN mem.orders /\ GoodOrders(m.orders)
      BY <1>3, <1>7, <2>2, <3>3 DEF GoodOrders, Backed, Shape
    <3> QED BY <1>2, <1>5, <1>8, <3>3, <3>4, EmptySlotGood DEF Shape, Backed
  <2> QED BY <2>1, <2>2
<1> HIDE DEF m, uncertain
<1>15. /\ DOMAIN answered = OutcomeFields /\ answered.events = e /\ answered.mem = m
       /\ answered.slot = EmptySlot
  BY DEF Outcome, OutcomeFields
<1> HIDE DEF answered
<1>16. out.events = e /\ out.mem = m /\ out.slot = EmptySlot /\ out.broker = b
  BY <1>1, <1>15 DEF WithCall, OutcomeFields
<1> HIDE DEF out
<1>17. Typed(out)
  BY <1>13, <1>14, <1>16, PlainCompletes DEF Typed
<1> QED BY <1>17 DEF out

\* process_next_broker_submission() and submit_prepared().
LEMMA SubmitTyped ==
    ASSUME IInv, Backed, phase \in {"up", "draining"}, slot # EmptySlot,
           NEW outcome \in SubmitOutcomes(slot.intent)
    PROVE  Typed(outcome)
<1> DEFINE i == slot.intent
<1>1. i \in Intents
  BY DEF IInv, Session, GoodSlot
<1>2. \/ outcome = SubmitRevoked(i) \/ outcome = SubmitUnacknowledged(i)
      \/ \E acknowledged \in BOOLEAN : outcome = SubmitCalled(i, acknowledged)
  BY DEF SubmitOutcomes
<1>3. CASE outcome = SubmitRevoked(i)
  BY <1>3, SubmitRevokedTyped
<1>4. CASE outcome = SubmitUnacknowledged(i)
  BY <1>4, SubmitUnacknowledgedTyped
<1>5. ASSUME NEW acknowledged \in BOOLEAN, outcome = SubmitCalled(i, acknowledged)
      PROVE  Typed(outcome)
  BY <1>1, <1>5, SubmitCalledTyped
<1> QED BY <1>2, <1>3, <1>4, <1>5

-----------------------------------------------------------------------------
(* What the fills of an observation leave.                                 *)

\* Orders are places', and the view names only orders the session has.
MemShape(m) ==
    /\ DOMAIN m = MemFields
    /\ GoodOrders(m.orders) /\ DOMAIN m.orders \subseteq Places /\ m.lastUpdate \in Nat
    /\ DOMAIN m.view \subseteq DOMAIN m.orders /\ Snapped(m.view)

\* What drain_broker_updates() has recorded and applied.
DrainedShape(acc) ==
    /\ IsSequence(acc.events) /\ PlainRecords(acc.events) /\ MemShape(acc.mem)

\* The session has that shape, and keeps it when it stops.
LEMMA MemShaped ==
    ASSUME IInv, Backed, NEW m, DOMAIN m = MemFields, SameOrders(m)
    PROVE  MemShape(m)
BY DEF Backed, Shape, MemShape, SameOrders

\* The record of a fill (FillEvent).
LEMMA FillRecord ==
    ASSUME Backed, NEW o \in DOMAIN broker.orders, NEW n \in Nat, NEW e, e = FillEvent(o, n + 1)
    PROVE  /\ PlainRecord(e) /\ e.type = "filled" /\ e.order = o /\ e.intent = o
           /\ e.sequence = n + 1 /\ e.cumulative = broker.orders[o].quantity
<1> DEFINE u == Event("filled", o, o)
           quantity == broker.orders[o].quantity
           sequence == n + 1
<1>1. /\ DOMAIN u = RecordFields /\ u.type = "filled" /\ u.intent = o /\ u.order = o
      /\ u.side = "Buy" /\ u.quantity = 0 /\ u.price = 0
  BY EventIs
<1>2. e = [u EXCEPT !.cumulative = quantity, !.sequence = sequence]
  BY DEF FillEvent
<1>3. quantity \in Nat /\ sequence \in Nat
  BY DEF Backed, Shape, Snapped, Snapshots
<1>4. o \in Places /\ o # NoId
  BY IntentsAssumption DEF Backed, Shape, Intents
<1> HIDE DEF u, quantity, sequence
<1>5. /\ DOMAIN e = RecordFields /\ e.type = "filled" /\ e.intent = o /\ e.order = o
      /\ e.side = "Buy" /\ e.quantity = 0 /\ e.price = 0 /\ e.cumulative = quantity
      /\ e.sequence = sequence
  BY <1>1, <1>2 DEF RecordFields
<1>6. PlainRecord(e)
  BY <1>3, <1>4, <1>5 DEF PlainRecord, TypedRecord
<1> QED BY <1>5, <1>6 DEF quantity, sequence

\* What an applied fill makes of the session.
LEMMA FillShape ==
    ASSUME NEW m, MemShape(m), NEW o, NEW u, SessionEvidence(u), u.kind = "FillUpdate",
           NEW r, r = ApplyOrderUpdate(m.orders[o], u), ~r.refused,
           NEW snapshot, snapshot = Snapshot(r.order), NEW sequence \in Nat,
           NEW n, n = [m EXCEPT !.orders[o] = r.order, !.view[o] = snapshot,
                                !.lastUpdate = sequence]
    PROVE  MemShape(n)
<1> DEFINE order == r.order
<1>1. o \in DOMAIN m.orders => GoodOrder(order) /\ snapshot \in Snapshots
  <2> SUFFICES ASSUME o \in DOMAIN m.orders PROVE GoodOrder(order) /\ snapshot \in Snapshots
    OBVIOUS
  <2> DEFINE q == m.orders[o]
  <2>1. GoodOrder(q)
    BY DEF MemShape, GoodOrders
  <2>2. r = OnFillUpdate(q, u)
    BY <2>1, EvidenceIs
  <2> HIDE DEF q
  <2>3. Moves(q, "FillUpdate", order) /\ order.state \in Working \cup {"Filled"}
    BY <2>1, <2>2, FillMoves
  <2> HIDE DEF order
  <2>4. GoodOrder(order) /\ order.state \in DOMAIN RecoveredState
    BY <2>3, RecoveredStates DEF Moves, Terminal
  <2> QED BY <2>4, SnapshotTyped DEF order
<1> HIDE DEF order
<1>2. DOMAIN m = MemFields
  BY DEF MemShape
<1>3. /\ DOMAIN n = MemFields /\ n.orders = [m.orders EXCEPT ![o] = order]
      /\ n.view = [m.view EXCEPT ![o] = snapshot] /\ n.lastUpdate = sequence
  BY <1>2 DEF MemFields, order
<1>4. GoodOrders(n.orders) /\ DOMAIN n.orders = DOMAIN m.orders
  BY <1>1, <1>3 DEF MemShape, GoodOrders
<1>5. Snapped(n.view) /\ DOMAIN n.view = DOMAIN m.view
  BY <1>1, <1>3 DEF MemShape, Snapped
<1> QED BY <1>3, <1>4, <1>5 DEF MemShape

\* One fill is applied, or it ends the drain with a stop on record.
LEMMA DrainFillTyped ==
    ASSUME Backed, NEW acc, DrainedShape(acc), NEW o \in DOMAIN broker.orders
    PROVE  DrainedShape(DrainFill(acc, o))
<1> DEFINE event == FillEvent(o, acc.mem.lastUpdate + 1)
           u == EvidenceOf(event, "FillUpdate")
           result == ApplyOrderUpdate(acc.mem.orders[o], u)
           a == SafetyStop(NoId, NoId)
           w == SafetyStopped(acc.mem)
           snapshot == Snapshot(result.order)
           sequence == event.sequence
           n == [acc.mem EXCEPT !.orders[o] = result.order, !.view[o] = snapshot,
                                !.lastUpdate = sequence]
           stopped == [events |-> Append(acc.events, a), mem |-> w, draining |-> FALSE]
           filled == [events |-> Append(acc.events, event), mem |-> n, draining |-> TRUE]
<1>1. /\ ~acc.draining => DrainFill(acc, o) = acc
      /\ acc.draining /\ result.refused => DrainFill(acc, o) = stopped
      /\ acc.draining /\ ~result.refused => DrainFill(acc, o) = filled
  BY DEF DrainFill, Drained
<1>2. IsSequence(acc.events) /\ PlainRecords(acc.events) /\ MemShape(acc.mem)
  BY DEF DrainedShape
<1>3. PlainRecord(a)
  BY SafetyStopRecords
<1>4. PlainRecord(event) /\ sequence \in Nat
  <2> DEFINE before == acc.mem.lastUpdate
  <2>1. before \in Nat /\ event = FillEvent(o, before + 1)
    BY <1>2 DEF MemShape
  <2> HIDE DEF before, event
  <2>2. PlainRecord(event) /\ event.sequence = before + 1
    BY <2>1, FillRecord
  <2> QED BY <2>1, <2>2
<1>5. SessionEvidence(u) /\ u.kind = "FillUpdate"
  <2> HIDE DEF event
  <2> QED BY <1>4, RecordEvidence DEF PlainRecord, SessionKinds
<1> HIDE DEF event, a, u, sequence
<1>6. IsSequence(Append(acc.events, a)) /\ PlainRecords(Append(acc.events, a))
  BY <1>2, <1>3, PlainAppended
<1>7. IsSequence(Append(acc.events, event)) /\ PlainRecords(Append(acc.events, event))
  BY <1>2, <1>4, PlainAppended
<1>8. MemShape(w)
  <2> DEFINE m == acc.mem
  <2>1. DOMAIN m = MemFields /\ MemShape(m)
    BY <1>2 DEF MemShape
  <2>2. w = [m EXCEPT !.ready = FALSE, !.safety = TRUE, !.recon = TRUE, !.kill = TRUE]
    BY DEF SafetyStopped
  <2> HIDE DEF m, w
  <2>3. /\ DOMAIN w = MemFields /\ w.orders = m.orders /\ w.view = m.view
        /\ w.lastUpdate = m.lastUpdate
    BY <2>1, <2>2 DEF MemFields
  <2> QED BY <2>1, <2>3 DEF MemShape
<1>9. ~result.refused => MemShape(n)
  <2> DEFINE m == acc.mem
  <2>1. MemShape(m) /\ result = ApplyOrderUpdate(m.orders[o], u) /\ snapshot = Snapshot(result.order)
        /\ n = [m EXCEPT !.orders[o] = result.order, !.view[o] = snapshot,
                         !.lastUpdate = sequence]
    BY <1>2
  <2> HIDE DEF m, n, result, snapshot
  <2> QED BY <1>4, <1>5, <2>1, FillShape
<1> HIDE DEF w, n, result
<1>10. DrainedShape(stopped)
  BY <1>6, <1>8 DEF DrainedShape
<1>11. ~result.refused => DrainedShape(filled)
  BY <1>7, <1>9 DEF DrainedShape
<1> HIDE DEF stopped, filled
<1> QED BY <1>1, <1>10, <1>11

\* The whole drain.
LEMMA DrainTyped ==
    ASSUME Backed, NEW m, MemShape(m), NEW events, IsSequence(events), PlainRecords(events),
           NEW fills, Len(fills) \in Nat, \A k \in 1..Len(fills) : fills[k] \in DOMAIN broker.orders
    PROVE  DrainedShape(Drain(events, m, fills))
<1> DEFINE N == Len(fills)
           P(acc) == DrainedShape(acc)
<1>1. PICK r : IsDrain(r, events, m, fills)
  BY DrainSteps
<1> DEFINE T == {n \in Nat : n <= N => P(r[n])}
           start == [events |-> events, mem |-> m, draining |-> TRUE]
<1>2. 0 \in T
  <2>1. r[0] = start
    BY <1>1 DEF IsDrain
  <2>2. start.events = events /\ start.mem = m
    OBVIOUS
  <2> HIDE DEF start
  <2>3. P(start)
    BY <2>2 DEF DrainedShape
  <2> HIDE DEF P
  <2> QED BY <2>1, <2>3
<1>3. ASSUME NEW n \in T PROVE n + 1 \in T
  <2> SUFFICES ASSUME n + 1 <= N PROVE P(r[n + 1])
    BY <1>3
  <2>1. n \in Nat /\ n + 1 \in 1..N /\ (n + 1) - 1 = n /\ P(r[n])
    BY <1>3
  <2> DEFINE acc == r[n]
             o == fills[n + 1]
  <2>2. r[n + 1] = DrainFill(acc, o) /\ o \in DOMAIN broker.orders /\ DrainedShape(acc)
    BY <1>1, <2>1 DEF IsDrain
  <2> HIDE DEF o, acc
  <2> QED BY <2>2, DrainFillTyped
<1>4. P(r[N])
  <2> HIDE DEF P
  <2>1. T = Nat
    BY <1>2, <1>3, NatSetInduction
  <2> QED BY <2>1
<1>5. Drain(events, m, fills) = r[N]
  BY <1>1 DEF IsDrain
<1> QED BY <1>4, <1>5

\* The observation is accepted, and the session is stopped by an overrun,
\* activated, or left as it is.
StartedShape(events, m) == IsSequence(events) /\ PlainRecords(events) /\ MemShape(m)

\* The three ways an observation starts, with their records.
LEMMA StartedTyped ==
    ASSUME IInv, Backed
    PROVE  LET accepted == <<Event("market_observation_accepted", NoId, NoId)>>
               seen == [mem EXCEPT !.observed = TRUE]
           IN  /\ StartedShape(accepted \o StopOnceEvents(seen), StopOnce(seen, "other"))
               /\ StartedShape(Append(accepted, Event("session_started", NoId, NoId)),
                               [seen EXCEPT !.ready = TRUE])
               /\ StartedShape(accepted, seen)
<1> DEFINE a == Event("market_observation_accepted", NoId, NoId)
           b == Event("session_started", NoId, NoId)
           accepted == <<a>>
           seen == [mem EXCEPT !.observed = TRUE]
           stops == StopOnceEvents(seen)
           u == SafetyStopped(seen)
           stopped == StopOnce(seen, "other")
           active == [seen EXCEPT !.ready = TRUE]
           e == accepted \o stops
           f == Append(accepted, b)
<1>1. PlainRecord(a) /\ PlainRecord(b)
  BY QuietRecords, QuietTypesAre
<1>2. DOMAIN mem = MemFields
  BY DEF IInv, Session, GoodMem
<1>3. DOMAIN seen = MemFields /\ SameOrders(seen)
  BY <1>2 DEF MemFields, SameOrders
<1> HIDE DEF seen, a, b
<1>4. DOMAIN u = MemFields /\ SameOrders(u)
  BY <1>3 DEF MemFields, SameOrders, SafetyStopped
<1>5. DOMAIN active = MemFields /\ SameOrders(active)
  BY <1>3 DEF MemFields, SameOrders
<1> HIDE DEF u
<1>6. DOMAIN stopped = MemFields /\ SameOrders(stopped)
  <2>1. stopped = IF seen.reason = "none" THEN [u EXCEPT !.reason = "other"] ELSE seen
    BY DEF StopOnce, u
  <2> HIDE DEF stopped
  <2>2. CASE seen.reason = "none"
    <3>1. stopped = [u EXCEPT !.reason = "other"]
      BY <2>1, <2>2
    <3> QED BY <1>4, <3>1 DEF MemFields, SameOrders
  <2> QED BY <1>3, <2>1, <2>2
<1> HIDE DEF stopped, active
<1>7. MemShape(seen) /\ MemShape(stopped) /\ MemShape(active)
  BY <1>3, <1>5, <1>6, MemShaped
<1>8. IsSequence(accepted) /\ PlainRecords(accepted)
  BY <1>1, PlainFew, FewRecords
<1>9. IsSequence(stops) /\ PlainRecords(stops)
  BY PlainStopOnce
<1> HIDE DEF accepted, stops
<1>10. IsSequence(e) /\ PlainRecords(e) /\ IsSequence(f) /\ PlainRecords(f)
  BY <1>1, <1>8, <1>9, PlainJoined, PlainAppended
<1> HIDE DEF e, f
<1>11. StartedShape(e, stopped) /\ StartedShape(f, active) /\ StartedShape(accepted, seen)
  BY <1>7, <1>8, <1>10 DEF StartedShape
<1> QED BY <1>11 DEF e, f, accepted, stops, stopped, active, seen, a, b

\* Fills of an observation are of orders the broker holds, and as many as crossed.
LEMMA FillsOf ==
    ASSUME IInv, NEW crossed \in SUBSET Fillable, NEW fills \in Orderings(crossed)
    PROVE  /\ IsSequence(fills) /\ Len(fills) \in Nat
           /\ \A k \in 1..Len(fills) : fills[k] \in DOMAIN broker.orders
           /\ PossibleUpdates \in Nat
<1>1. IsSequence(fills) /\ Len(fills) \in Nat /\ \A k \in 1..Len(fills) : fills[k] \in crossed
  <2> DEFINE n == Cardinality(crossed)
  <2>1. crossed \subseteq DOMAIN broker.orders
    BY DEF Fillable, WorkingAt
  <2>2. IsFiniteSet(crossed)
    BY <2>1, FS_Subset DEF IInv, Session, GoodBroker
  <2>3. n \in Nat
    BY <2>2, FS_CardinalityType
  <2>4. fills \in [1..n -> crossed]
    BY DEF Orderings
  <2> HIDE DEF n
  <2>5. fills \in Seq(crossed) /\ Len(fills) = n
    BY <2>3, <2>4
  <2> QED BY <2>3, <2>4, <2>5 DEF IsSequence
<1>2. crossed \subseteq DOMAIN broker.orders
  BY DEF Fillable, WorkingAt
<1>3. PossibleUpdates \in Nat
  <2> DEFINE S == {o \in DOMAIN mem.orders : mem.orders[o].state \in Working}
  <2>1. S \subseteq DOMAIN mem.orders /\ IsFiniteSet(DOMAIN mem.orders)
    BY DEF IInv, Session, GoodMem
  <2> HIDE DEF S
  <2>2. IsFiniteSet(S)
    BY <2>1, FS_Subset
  <2>3. Cardinality(S) \in Nat
    BY <2>2, FS_CardinalityType
  <2> QED BY <2>3 DEF PossibleUpdates, S
<1> QED BY <1>1, <1>2, <1>3

\* What the paper broker has after the fills.
LEMMA FilledTyped ==
    ASSUME Backed, NEW fills,
           NEW orders, orders = [o \in DOMAIN broker.orders |->
                                   IF \E k \in DOMAIN fills : fills[k] = o
                                   THEN Filled(broker.orders[o]) ELSE broker.orders[o]]
    PROVE  Snapped(orders) /\ DOMAIN orders = DOMAIN broker.orders
<1>1. ASSUME NEW o \in DOMAIN orders PROVE orders[o] \in Snapshots
  <2> DEFINE s == broker.orders[o]
             f == Filled(s)
  <2>1. s \in Snapshots
    BY DEF Backed, Shape, Snapped
  <2>2. f = [s EXCEPT !.cumulative = s.quantity, !.state = "filled"]
    BY DEF Filled
  <2>3. orders[o] = f \/ orders[o] = s
    OBVIOUS
  <2> HIDE DEF s, f
  <2>4. f \in Snapshots
    BY <2>1, <2>2 DEF Snapshots, BrokerTerminal
  <2> QED BY <2>1, <2>3, <2>4
<1> QED BY <1>1 DEF Snapped

\* process_next_market(): the observation, the activation and the fills.
LEMMA ObservedTyped ==
    ASSUME IInv, Backed, slot = EmptySlot, NEW crossed \in SUBSET Fillable,
           NEW fills \in Orderings(crossed)
    PROVE  Typed(Observed(fills))
<1> DEFINE overrun == Len(fills) > PossibleUpdates
           dispatched == IF overrun THEN SubSeq(fills, 1, PossibleUpdates) ELSE fills
           accepted == <<Event("market_observation_accepted", NoId, NoId)>>
           seen == [mem EXCEPT !.observed = TRUE]
           started == IF overrun
                      THEN [events |-> accepted \o StopOnceEvents(seen),
                            mem |-> StopOnce(seen, "other")]
                      ELSE IF MayActivate(seen)
                      THEN [events |-> Append(accepted, Event("session_started", NoId, NoId)),
                            mem |-> [seen EXCEPT !.ready = TRUE]]
                      ELSE [events |-> accepted, mem |-> seen]
           acc == Drain(started.events, started.mem, dispatched)
           orders == [o \in DOMAIN broker.orders |->
                        IF \E k \in DOMAIN fills : fills[k] = o
                        THEN Filled(broker.orders[o]) ELSE broker.orders[o]]
           quiet == Outcome(acc.events, acc.mem, slot)
           out == Observed(fills)
<1>1. out = [quiet EXCEPT !.broker.orders = orders]
  BY DEF Observed, AfterDrain
<1>2. Snapped(orders) /\ DOMAIN orders = DOMAIN broker.orders
  BY FilledTyped
<1> HIDE DEF orders
<1>3. /\ IsSequence(fills) /\ Len(fills) \in Nat /\ PossibleUpdates \in Nat
      /\ \A k \in 1..Len(fills) : fills[k] \in DOMAIN broker.orders
  BY FillsOf
<1>4. /\ Len(dispatched) \in Nat
      /\ \A k \in 1..Len(dispatched) : dispatched[k] \in DOMAIN broker.orders
  <2>1. CASE overrun
    <3> DEFINE n == PossibleUpdates
    <3>1. n \in 0..Len(fills) /\ dispatched = SubSeq(fills, 1, n)
      BY <1>3, <2>1
    <3> HIDE DEF n, dispatched
    <3>2. Len(dispatched) = n /\ \A k \in 1..n : dispatched[k] = fills[k]
      BY <1>3, <3>1, Prefixes
    <3> QED BY <1>3, <3>1, <3>2
  <2>2. CASE ~overrun
    <3>1. dispatched = fills
      BY <2>2
    <3> HIDE DEF dispatched
    <3> QED BY <1>3, <3>1
  <2> QED BY <2>1, <2>2
<1> DEFINE e == started.events
           m == started.mem
<1>5. StartedShape(e, m) /\ acc = Drain(e, m, dispatched)
  <2> HIDE DEF overrun, dispatched
  <2> QED BY StartedTyped
<1> HIDE DEF overrun, dispatched, e, m, acc
<1>6. DrainedShape(acc)
  BY <1>4, <1>5, DrainTyped DEF StartedShape
<1> DEFINE g == acc.events
           n == acc.mem
<1>7. PlainRecords(g) /\ MemShape(n) /\ quiet = Outcome(g, n, slot)
  BY <1>6 DEF DrainedShape
<1> HIDE DEF g, n, quiet
<1>8. /\ DOMAIN quiet = OutcomeFields /\ quiet.events = g /\ quiet.mem = n /\ quiet.slot = slot
      /\ quiet.broker = broker
  BY <1>7 DEF Outcome, OutcomeFields
<1> HIDE DEF out
<1>9. DOMAIN broker = {"health", "orders"}
  BY DEF IInv, Session, GoodBroker
<1>10. /\ out.events = g /\ out.mem = n /\ out.slot = slot
       /\ out.broker.orders = orders /\ out.broker.health = broker.health
  BY <1>1, <1>8, <1>9 DEF OutcomeFields
<1>11. slot.intent = NoId
  BY EmptySlotGood
<1>12. TypedRecords(out.events) /\ Completes(durable, out.events)
  BY <1>7, <1>10, PlainCompletes
<1>13. Shape(out.mem, out.slot, out.broker)
  BY <1>2, <1>7, <1>10, <1>11 DEF Shape, Backed, MemShape
<1>14. Typed(out)
  BY <1>12, <1>13 DEF Typed
<1> QED BY <1>14 DEF out

-----------------------------------------------------------------------------
(* Records that complete a reconciliation.                                 *)

\* A completed reconciliation, as preflight() and a reconnect record it.
Reconciled == Event("reconciliation_completed", NoId, NoId)

\* It is a record of a session, alone, followed by plain ones, or with one more
\* record at its end.
LEMMA ReconciledRecords ==
    /\ TypedRecord(Reconciled)
    /\ IsSequence(<<Reconciled>>) /\ Len(<<Reconciled>>) = 1 /\ TypedRecords(<<Reconciled>>)
    /\ \A s : ~s.recon => Completes(s, <<Reconciled>>)
<1> DEFINE a == Reconciled
           q == <<a>>
<1>1. TypedRecord(a)
  <2> DEFINE type == "reconciliation_completed"
  <2>1. a = Event(type, NoId, NoId) /\ type \notin DOMAIN EvidenceKind
        /\ type \notin {"submission_started", "broker_acknowledged", "broker_rejected"}
    BY DEF Reconciled, EvidenceKind
  <2> HIDE DEF a, type
  <2>2. /\ a.type = type /\ a.side = "Buy" /\ a.quantity = 0 /\ a.price = 0 /\ a.order = NoId
        /\ a.cumulative = Absent /\ a.sequence = 0
    BY <2>1, EventIs
  <2> QED BY <2>1, <2>2 DEF TypedRecord, Absent
<1> HIDE DEF a
<1>2. Len(q) = 1 /\ q[1] = a /\ IsSequence(q)
  BY FewRecords
<1> HIDE DEF q
<1>3. TypedRecords(q)
  BY <1>1, <1>2 DEF TypedRecords
<1>4. \A s : ~s.recon => Completes(s, q)
  BY <1>2 DEF Completes
<1> QED BY <1>1, <1>2, <1>3, <1>4 DEF a, q

\* One record followed by records that complete nothing.
LEMMA TypedJoined ==
    ASSUME NEW a, TypedRecord(a), NEW t, IsSequence(t), PlainRecords(t)
    PROVE  IsSequence(<<a>> \o t) /\ TypedRecords(<<a>> \o t)
<1>1. ASSUME NEW s, IsSequence(s), TypedRecords(s)
      PROVE  IsSequence(s \o t) /\ TypedRecords(s \o t)
  <2> DEFINE q == s \o t
             n == Len(s)
             m == Len(t)
  <2>1. /\ IsSequence(q) /\ Len(q) = n + m
        /\ \A k \in 1..n : q[k] = s[k]
        /\ \A k \in 1..m : q[n + k] = t[k]
    BY <1>1, JoinedSequences
  <2>2. n \in Nat /\ m \in Nat
    BY <1>1, AppendedSequences
  <2> HIDE DEF q, n, m
  <2>3. \A k \in 1..(n + m) : k \in 1..n \/ (k - n \in 1..m /\ n + (k - n) = k)
    BY <2>2
  <2>4. TypedRecords(q)
    <3> SUFFICES ASSUME NEW k \in 1..(n + m) PROVE TypedRecord(q[k])
      BY <2>1 DEF TypedRecords
    <3>1. CASE k \in 1..n
      BY <1>1, <2>1, <3>1 DEF TypedRecords, n
    <3>2. CASE k - n \in 1..m /\ n + (k - n) = k
      <4>1. q[k] = t[k - n]
        BY <2>1, <3>2
      <4> QED BY <3>2, <4>1 DEF PlainRecords, PlainRecord, m
    <3> QED BY <2>3, <3>1, <3>2
  <2> QED BY <2>1, <2>4 DEF q
<1> DEFINE first == <<a>>
<1>2. IsSequence(first) /\ Len(first) = 1 /\ first[1] = a
  BY FewRecords
<1> HIDE DEF first
<1>3. TypedRecords(first)
  BY <1>2 DEF TypedRecords
<1> QED BY <1>1, <1>2, <1>3 DEF first

\* Records of a session with one more appended.
LEMMA TypedAppended ==
    ASSUME NEW s, IsSequence(s), TypedRecords(s), NEW a, TypedRecord(a)
    PROVE  IsSequence(Append(s, a)) /\ TypedRecords(Append(s, a))
<1> DEFINE q == Append(s, a)
           n == Len(s)
<1>1. /\ IsSequence(q) /\ Len(q) = n + 1 /\ n \in Nat
      /\ q[n + 1] = a /\ \A k \in 1..n : q[k] = s[k]
  BY AppendedSequences
<1> HIDE DEF q, n
<1>2. \A k \in 1..(n + 1) : k = n + 1 \/ k \in 1..n
  BY <1>1
<1>3. TypedRecords(q)
  BY <1>1, <1>2 DEF TypedRecords, n
<1> QED BY <1>1, <1>3 DEF q

\* A handler that moves no order, in a session whose ledger has a stop.
LEMMA StoppedTyped ==
    ASSUME Backed, Stopped(durable), NEW e, TypedRecords(e), NEW m, SameOrders(m)
    PROVE  Typed(Outcome(e, m, slot))
<1> DEFINE out == Outcome(e, m, slot)
<1>1. out.events = e /\ out.mem = m /\ out.slot = slot /\ out.broker = broker
  BY OutcomeIs
<1> HIDE DEF out
<1>2. Shape(m, slot, broker)
  BY DEF Shape, Backed, SameOrders
<1>3. Completes(durable, e)
  BY DEF Completes
<1>4. Typed(out)
  BY <1>1, <1>2, <1>3 DEF Typed
<1> QED BY <1>4 DEF out

\* reconcile_after_strategy_reconnect() completes a reconciliation only after
\* the disconnect put a stop on record, and moves no order.
LEMMA RestoredTyped ==
    ASSUME IInv, Backed, NEW fresh \in BOOLEAN
    PROVE  Typed(Restored(fresh))
<1> DEFINE back == [mem EXCEPT !.connected = TRUE]
           clear == [back EXCEPT !.kill = FALSE, !.safety = FALSE, !.recon = FALSE,
                                 !.ready = mem.observed]
           a == Event("reconciliation_completed", NoId, NoId)
           b == Event("session_started", NoId, NoId)
           stop == SafetyStop(NoId, NoId)
           started == IF mem.observed THEN <<b>> ELSE << >>
           e == <<a>> \o started
           f == Append(e, stop)
           one == <<stop>>
           u == SafetyStopped(back)
           w == SafetyStopped(clear)
           failed == [u EXCEPT !.behind = TRUE]
           cured == [clear EXCEPT !.reason = "none"]
           stale == [w EXCEPT !.reason = "other"]
           none == << >>
<1>1. Restored(fresh) =
        IF mem.reason # "strategy" THEN Outcome(none, back, slot)
        ELSE IF ~ExactAgreement \/ broker.health # "Ready" THEN Outcome(one, failed, slot)
        ELSE IF fresh THEN Outcome(e, cured, slot)
        ELSE Outcome(f, stale, slot)
  BY DEF Restored
<1>2. TypedRecord(a) /\ PlainRecord(b) /\ PlainRecord(stop)
  BY ReconciledRecords, QuietRecords, QuietTypesAre, SafetyStopRecords DEF Reconciled
<1>3. TypedRecord(stop)
  BY <1>2 DEF PlainRecord
<1> HIDE DEF a, b, stop
<1>4. IsSequence(started) /\ PlainRecords(started)
  BY <1>2, PlainFew, FewRecords
<1> HIDE DEF started
<1>5. IsSequence(e) /\ TypedRecords(e)
  BY <1>2, <1>4, TypedJoined
<1> HIDE DEF e
<1>6. TypedRecords(f)
  BY <1>3, <1>5, TypedAppended
<1>7. PlainRecords(one) /\ PlainRecords(none)
  BY <1>2, PlainFew
<1> HIDE DEF f, one, none
<1>8. DOMAIN mem = MemFields
  BY DEF IInv, Session, GoodMem
<1>9. DOMAIN back = MemFields /\ SameOrders(back)
  BY <1>8 DEF MemFields, SameOrders
<1> HIDE DEF back
<1>10. /\ DOMAIN clear = MemFields /\ SameOrders(clear)
       /\ DOMAIN u = MemFields /\ SameOrders(u)
  BY <1>9 DEF MemFields, SameOrders, SafetyStopped
<1> HIDE DEF clear, u
<1>11. /\ DOMAIN w = MemFields /\ SameOrders(w)
       /\ SameOrders(failed) /\ SameOrders(cured)
  BY <1>10 DEF MemFields, SameOrders, SafetyStopped
<1> HIDE DEF w, failed, cured
<1>12. SameOrders(stale)
  BY <1>11 DEF MemFields, SameOrders
<1> HIDE DEF stale
<1>13. mem.reason = "strategy" => Stopped(durable)
  BY DEF IInv, Session, GoodMem, Recorded, Marked
<1>14. slot.intent \in {NoId, slot.intent}
  OBVIOUS
<1>15. Typed(Outcome(none, back, slot)) /\ Typed(Outcome(one, failed, slot))
  BY <1>7, <1>9, <1>11, <1>14, QuietTyped DEF SameOrders
<1>16. mem.reason = "strategy" => Typed(Outcome(e, cured, slot)) /\ Typed(Outcome(f, stale, slot))
  BY <1>5, <1>6, <1>11, <1>12, <1>13, StoppedTyped
<1> QED BY <1>1, <1>15, <1>16

-----------------------------------------------------------------------------
(* What each action that is not a handler of the loop leaves.              *)

\* An answer or a request that names no terms.
LEMMA EvidenceRecord ==
    ASSUME NEW type, type \in DOMAIN EvidenceKind \ {"broker_acknowledged", "broker_rejected"},
           NEW i, i # NoId, NEW o, NEW e, e = Event(type, i, o)
    PROVE  PlainRecord(e)
<1>1. /\ type # "reconciliation_completed"
      /\ type \notin {"submission_started", "broker_acknowledged", "broker_rejected"}
  BY DEF EvidenceKind
<1>2. /\ e.type = type /\ e.intent = i /\ e.side = "Buy" /\ e.quantity = 0 /\ e.price = 0
      /\ e.cumulative = Absent /\ e.sequence = 0
  BY EventIs
<1> QED BY <1>1, <1>2 DEF PlainRecord, TypedRecord, Absent

\* The records of a shutdown cancel (CancelRecords).
LEMMA CancelPlain ==
    ASSUME NEW o \in Places, NEW r, r = CancelRecords(o)
    PROVE  /\ IsSequence(r) /\ PlainRecords(r)
           /\ IsSequence(SubSeq(r, 1, 2)) /\ PlainRecords(SubSeq(r, 1, 2))
<1> DEFINE i == ShutdownIntent(o)
           a == Event("intent_received", i, NoId)
           b == Event("mapping_validated", i, o)
           c == Event("risk_approved", i, o)
           type == "cancel_requested"
           d == Event(type, i, o)
<1>1. r = <<a, b, c, d>>
  BY DEF CancelRecords
<1>2. PlainRecord(a) /\ PlainRecord(b) /\ PlainRecord(c)
  BY QuietRecords, QuietTypesAre
<1>3. PlainRecord(d)
  <2>1. i # NoId
    BY ShutdownAssumption
  <2>2. type \in DOMAIN EvidenceKind \ {"broker_acknowledged", "broker_rejected"}
    BY DEF EvidenceKind
  <2> HIDE DEF type, i
  <2> QED BY <2>1, <2>2, EvidenceRecord
<1> HIDE DEF a, b, c, d
<1>4. /\ r \in Seq({a, b, c, d}) /\ Len(r) = 4
      /\ r[1] = a /\ r[2] = b /\ r[3] = c /\ r[4] = d
  BY <1>1
<1>5. IsSequence(r)
  BY <1>4 DEF IsSequence
<1>6. PlainRecords(r)
  <2>1. \A k \in 1..4 : k = 1 \/ k = 2 \/ k = 3 \/ k = 4
    OBVIOUS
  <2> QED BY <1>2, <1>3, <1>4, <2>1 DEF PlainRecords
<1> DEFINE two == SubSeq(r, 1, 2)
<1>7. IsSequence(two) /\ Len(two) = 2 /\ \A k \in 1..2 : two[k] = r[k] /\ k \in 1..Len(r)
  <2>1. 2 \in 0..Len(r)
    BY <1>4
  <2>2. IsSequence(two) /\ Len(two) = 2 /\ \A k \in 1..2 : two[k] = r[k]
    BY <1>5, <2>1, Prefixes
  <2> HIDE DEF two
  <2> QED BY <1>4, <2>2
<1> HIDE DEF two
<1>8. PlainRecords(two)
  BY <1>6, <1>7 DEF PlainRecords
<1> QED BY <1>5, <1>6, <1>7, <1>8 DEF two

\* An order that stop() does not attempt, or not to the end: no call.
LEMMA UnattemptedTyped ==
    ASSUME IInv, Backed, NEW o \in Places, NEW r, IsSequence(r), PlainRecords(r),
           NEW out, out = Outcome(r \o CancelUnattempted(o).events, CancelUnattempted(o).mem, slot)
    PROVE  IsSequence(out.events) /\ Typed(out) /\ out.called \cap Places = {}
<1> DEFINE type == "reconciliation_required"
           last == <<Event(type, ShutdownIntent(o), o)>>
           m == [mem EXCEPT !.recon = TRUE, !.safety = TRUE]
           e == r \o last
<1>1. CancelUnattempted(o).events = last /\ CancelUnattempted(o).mem = m
  BY DEF CancelUnattempted, Outcome
<1>2. type \in QuietTypes
  BY QuietTypesAre
<1>3. DOMAIN mem = MemFields
  BY DEF IInv, Session, GoodMem
<1>4. SameOrders(m)
  BY <1>3 DEF SameOrders, MemFields
<1> HIDE DEF type, m
<1>5. IsSequence(last) /\ PlainRecords(last)
  BY <1>2, QuietPlain
<1> HIDE DEF last
<1>6. IsSequence(e) /\ PlainRecords(e) /\ out = Outcome(e, m, slot)
  BY <1>1, <1>5, PlainJoined
<1> HIDE DEF e
<1>7. slot.intent \in {NoId, slot.intent}
  OBVIOUS
<1>8. Typed(Outcome(e, m, slot))
  BY <1>4, <1>6, <1>7, QuietTyped DEF SameOrders
<1>9. out.events = e /\ out.called = {}
  BY <1>6, OutcomeIs
<1> QED BY <1>6, <1>8, <1>9

\* A shutdown cancel that is called (CancelAttempted).
LEMMA AttemptedTyped ==
    ASSUME IInv, Backed, NEW o \in Places, NEW acknowledged \in BOOLEAN,
           NEW out, out = CancelAttempted(o, acknowledged)
    PROVE  IsSequence(out.events) /\ Typed(out) /\ out.called \cap Places = {}
<1> DEFINE i == ShutdownIntent(o)
           r == CancelRecords(o)
           confirmed == broker.health = "Ready"
           type == IF confirmed THEN "cancelled" ELSE "ambiguous_submission"
           answer == Event(type, i, o)
           e == Append(r, answer)
           flagged == [mem EXCEPT !.recon = TRUE, !.safety = TRUE]
           view == CancelledAt(mem.view, o)
           viewed == [mem EXCEPT !.view[o].state = "cancelled"]
           m == IF ~confirmed \/ ~acknowledged THEN flagged
                ELSE IF o \in DOMAIN mem.view THEN viewed ELSE mem
           orders == CancelledAt(broker.orders, o)
           called == [broker EXCEPT !.orders[o].state = "cancelled"]
           b == IF confirmed THEN called ELSE broker
           quiet == Outcome(e, m, slot)
<1>1. out = WithCall(quiet, i, 4, b)
  BY DEF CancelAttempted
<1>2. type \in DOMAIN EvidenceKind \ {"broker_acknowledged", "broker_rejected"} /\ i # NoId
  BY ShutdownAssumption DEF EvidenceKind
<1> HIDE DEF type
<1>3. PlainRecord(answer)
  <2> HIDE DEF i
  <2> QED BY <1>2, EvidenceRecord
<1> HIDE DEF answer
<1>4. IsSequence(r) /\ PlainRecords(r)
  BY CancelPlain
<1> HIDE DEF r
<1>5. IsSequence(e) /\ PlainRecords(e)
  BY <1>3, <1>4, PlainAppended
<1> HIDE DEF e
<1>6. DOMAIN mem = MemFields /\ DOMAIN broker = {"health", "orders"}
  BY DEF IInv, Session, GoodMem, GoodBroker
<1>7. /\ Snapped(mem.view) /\ DOMAIN mem.view \subseteq DOMAIN mem.orders
      /\ Snapped(broker.orders) /\ DOMAIN broker.orders \subseteq Places
  BY DEF Backed, Shape
<1>8. Snapped(view) /\ DOMAIN view = DOMAIN mem.view
  <2> DEFINE f == mem.view
  <2>1. Snapped(f)
    BY <1>7
  <2> HIDE DEF f
  <2>2. Snapped(CancelledAt(f, o)) /\ DOMAIN CancelledAt(f, o) = DOMAIN f
    BY <2>1, SnapsCancelled
  <2> QED BY <2>2 DEF f
<1>9. Snapped(orders) /\ DOMAIN orders = DOMAIN broker.orders
  <2> DEFINE f == broker.orders
  <2>1. Snapped(f)
    BY <1>7
  <2> HIDE DEF f
  <2>2. Snapped(CancelledAt(f, o)) /\ DOMAIN CancelledAt(f, o) = DOMAIN f
    BY <2>1, SnapsCancelled
  <2> QED BY <2>2 DEF f
<1>10. SameOrders(flagged)
  BY <1>6 DEF SameOrders, MemFields
<1>11. viewed.orders = mem.orders /\ viewed.view = view /\ viewed.lastUpdate = mem.lastUpdate
  BY <1>6 DEF MemFields, CancelledAt
<1>12. called.orders = orders /\ called.health = broker.health
  BY <1>6 DEF CancelledAt
<1> HIDE DEF flagged, view, viewed, orders, called, confirmed
<1>13. /\ m.orders = mem.orders /\ m.view \in {mem.view, view} /\ m.lastUpdate = mem.lastUpdate
       /\ b.orders \in {broker.orders, orders} /\ b.health = broker.health
  BY <1>10, <1>11, <1>12 DEF SameOrders
<1> HIDE DEF m, b
<1>14. Shape(m, slot, b)
  BY <1>7, <1>8, <1>9, <1>13 DEF Shape, Backed
<1> HIDE DEF quiet
<1>15. /\ DOMAIN quiet = OutcomeFields /\ quiet.events = e /\ quiet.mem = m
       /\ quiet.slot = slot
  BY OutcomeIs DEF quiet
<1>16. /\ out.events = e /\ out.mem = m /\ out.slot = slot /\ out.broker = b
       /\ out.called = {i}
  BY <1>1, <1>15 DEF WithCall, OutcomeFields
<1>17. Typed(out)
  BY <1>5, <1>14, <1>16, PlainCompletes DEF Typed
<1>18. i \notin Places
  BY ShutdownAssumption DEF Intents
<1> QED BY <1>5, <1>16, <1>17, <1>18

\* What preflight() knows of a ledger it starts from: it replays, has no stop,
\* and every place that was ever attempted has its broker answer.
LEMMA LaunchedFrom ==
    ASSUME IInv, Backed, Launch
    PROVE  /\ GoodOrders(durable.orders) /\ DOMAIN durable.orders \subseteq Places
           /\ durable.lastUpdate \in Nat /\ ~durable.recon /\ ~durable.stopped
           /\ \A o \in DOMAIN durable.orders : durable.orders[o].state \in DOMAIN RecoveredState
           /\ \A p \in Places : attempts[p] > 0 =>
                p \in DOMAIN durable.orders /\ durable.intents[p].outcome
<1>1. ~durable.faulty /\ ~durable.stopped /\ ~durable.recon
  BY DEF Launch, LedgerRefused, StartupAuthority
<1>2. \A o \in DOMAIN durable.orders : durable.orders[o].state \in DOMAIN RecoveredState
  BY DEF Launch, LedgerRefused, RecoveryIncomplete
<1>3. "SubmissionStarted" \notin DOMAIN RecoveredState
  BY DEF RecoveredState
<1>4. \A o \in DOMAIN durable.orders : durable.intents[o].outcome = TRUE
  BY <1>1, <1>2, <1>3 DEF Backed, Restartable
<1>5. \A p \in Places : attempts[p] > 0 => p \in DOMAIN durable.orders
  BY <1>1 DEF Backed, Carries
<1> QED BY <1>1, <1>2, <1>4, <1>5 DEF Backed, GoodLedger

\* serve() begins: a session of what is on record (Launch).
LEMMA LaunchBacked ==
    ASSUME IInv, Backed, Launch
    PROVE  Backed'
<1> DEFINE e == <<Reconciled>>
           snapshots == [o \in DOMAIN durable.orders |-> Snapshot(durable.orders[o])]
           received == [i \in DOMAIN durable.intents |-> durable.intents[i].content]
           m == [NoMemory EXCEPT !.received = received, !.orders = durable.orders,
                                 !.view = snapshots, !.lastUpdate = durable.lastUpdate]
           b == [health |-> "Ready", orders |-> snapshots]
           quiet == Outcome(e, m, EmptySlot)
           out == Recovered
<1>1. out = [quiet EXCEPT !.broker = b]
  BY DEF Recovered, Reconciled
<1>2. /\ GoodOrders(durable.orders) /\ DOMAIN durable.orders \subseteq Places
      /\ durable.lastUpdate \in Nat /\ ~durable.recon
      /\ \A o \in DOMAIN durable.orders : durable.orders[o].state \in DOMAIN RecoveredState
  BY LaunchedFrom
<1>3. DOMAIN snapshots = DOMAIN durable.orders /\ Snapped(snapshots)
  <2>1. ASSUME NEW o \in DOMAIN durable.orders PROVE Snapshot(durable.orders[o]) \in Snapshots
    <3> DEFINE q == durable.orders[o]
    <3>1. GoodOrder(q) /\ q.state \in DOMAIN RecoveredState
      BY <1>2 DEF GoodOrders
    <3> HIDE DEF q
    <3>2. Snapshot(q) \in Snapshots
      BY <3>1, SnapshotTyped
    <3> QED BY <3>2 DEF q
  <2> QED BY <2>1 DEF Snapped
<1>4. IsSequence(e) /\ TypedRecords(e) /\ Completes(durable, e)
  BY <1>2, ReconciledRecords
<1>5. b.health = "Ready" /\ b.orders = snapshots
  OBVIOUS
<1>6. DOMAIN NoMemory = MemFields
  BY NothingRemembered DEF GoodMem
<1> HIDE DEF snapshots, received, e
<1>7. m.orders = durable.orders /\ m.view = snapshots /\ m.lastUpdate = durable.lastUpdate
  BY <1>6 DEF MemFields
<1> HIDE DEF m, b, quiet, out
<1>8. Shape(m, EmptySlot, b)
  BY <1>2, <1>3, <1>5, <1>7, EmptySlotGood DEF Shape, BrokerHealth
<1>9. /\ DOMAIN quiet = OutcomeFields /\ quiet.events = e /\ quiet.mem = m
      /\ quiet.slot = EmptySlot /\ quiet.called = {}
  BY OutcomeIs DEF quiet
<1>10. /\ out.events = e /\ out.mem = m /\ out.slot = EmptySlot /\ out.broker = b
       /\ out.called = {}
  BY <1>1, <1>9 DEF OutcomeFields
<1>11. IsSequence(out.events) /\ Typed(out) /\ \A p \in out.called \cap Places : Carries(durable, p)
  BY <1>4, <1>8, <1>10 DEF Typed
<1>12. CASE CrashDuring(out)
  BY <1>11, <1>12, CrashBacked
<1>13. CASE Finish(out) /\ report' = "none" /\ UNCHANGED todo
  <2>1. todo' \subseteq Places /\ report' \in Reports
    BY <1>13 DEF Backed, Reports
  <2> QED BY <1>11, <1>13, <2>1, FinishBacked
<1> QED BY <1>12, <1>13 DEF Launch, out

\* preflight() refuses and records that it did (LaunchRefused).
LEMMA LaunchRefusedBacked ==
    ASSUME IInv, Backed, LaunchRefused
    PROVE  Backed'
<1> DEFINE type == "safety_stop"
           e == <<Event(type, NoId, NoId)>>
           out == Outcome(e, mem, slot)
<1>1. Run(out)
  BY DEF LaunchRefused, SafetyStop
<1>2. type \in QuietTypes
  BY QuietTypesAre
<1> HIDE DEF type
<1>3. IsSequence(e) /\ PlainRecords(e)
  BY <1>2, QuietPlain
<1> HIDE DEF e
<1>4. Typed(out)
  BY <1>3, PlainTyped DEF Backed
<1> HIDE DEF out
<1>5. out.events = e /\ out.called = {}
  BY OutcomeIs DEF out
<1>6. IsSequence(out.events) /\ \A p \in out.called \cap Places : Carries(durable, p)
  BY <1>3, <1>5
<1>7. CASE CrashDuring(out)
  BY <1>4, <1>6, <1>7, CrashBacked
<1>8. CASE Finish(out) /\ UNCHANGED <<todo, report>>
  <2>1. todo' \subseteq Places /\ report' \in Reports
    BY <1>8 DEF Backed
  <2> QED BY <1>4, <1>6, <1>8, <2>1, FinishBacked
<1> QED BY <1>1, <1>7, <1>8 DEF Run

\* The offline repair adds its incident (Repair).
LEMMA RepairBacked ==
    ASSUME IInv, Backed, Repair
    PROVE  Backed'
<1> DEFINE type == "ledger_repair_recorded"
           e == <<Event(type, NoId, NoId)>>
           none == {}
<1>1. durable' = Replay(durable, e)
  BY DEF Repair
<1>2. type \in QuietTypes
  BY QuietTypesAre
<1> HIDE DEF type
<1>3. IsSequence(e) /\ PlainRecords(e)
  BY <1>2, QuietPlain
<1> HIDE DEF e
<1>4. Len(e) \in Nat /\ TypedRecords(e) /\ Completes(durable, e)
  BY <1>3, AppendedSequences, PlainCompletes
<1>5. attempts' = Attempted(none) /\ \A p \in none \cap Places : Carries(durable, p)
  BY NoCall DEF Repair
<1>6. /\ Shape(mem', slot', broker') /\ todo' \subseteq Places /\ report' \in Reports
      /\ torn' \in BOOLEAN
  BY DEF Repair, Backed
<1> HIDE DEF none
<1> QED BY <1>1, <1>4, <1>5, <1>6, StepBacked

\* shutdown() misses its deadline before stop() (ShutdownTimeout).
LEMMA ShutdownTimeoutBacked ==
    ASSUME Backed, ShutdownTimeout
    PROVE  Backed'
<1>1. Shape(mem', slot', broker')
  BY FreshShape DEF ShutdownTimeout
<1> QED BY <1>1 DEF ShutdownTimeout, Backed

\* The broker session degrades (LoseHealth).
LEMMA LoseHealthBacked ==
    ASSUME IInv, Backed, NEW health \in {"Unknown", "Lost"}, LoseHealth(health)
    PROVE  Backed'
<1>1. DOMAIN broker = {"health", "orders"} /\ broker' = [broker EXCEPT !.health = health]
  BY DEF LoseHealth, IInv, Session, GoodBroker
<1>2. broker'.health \in BrokerHealth /\ broker'.orders = broker.orders
  BY <1>1 DEF BrokerHealth
<1>3. Shape(mem', slot', broker')
  BY <1>2 DEF Shape, Backed, LoseHealth
<1> QED BY <1>3 DEF LoseHealth, Backed

\* The strategy is gone (Disconnect).
LEMMA DisconnectBacked ==
    ASSUME IInv, Backed, Disconnect
    PROVE  Backed'
<1> DEFINE strategy == "strategy"
           u == StopOnce(mem, strategy)
           m == [u EXCEPT !.connected = FALSE]
           out == Outcome(StopOnceEvents(mem), m, slot)
<1>1. /\ phase = "up" /\ slot = EmptySlot
      /\ (Finish(out) /\ UNCHANGED <<todo, report>>) \/ CrashDuring(out)
  BY DEF Disconnect
<1>2. Sound(out)
  BY <1>1, DisconnectSound DEF IInv
<1>3. SameOrders(m)
  <2>1. strategy \in {"other", "strategy"}
    OBVIOUS
  <2> HIDE DEF strategy
  <2> QED BY <2>1, NotedOrders
<1>4. Typed(out)
  <2>1. strategy \in {"other", "strategy"}
    OBVIOUS
  <2> HIDE DEF m, strategy
  <2> QED BY <1>3, <2>1, StopOnceTyped
<1> HIDE DEF out
<1>5. IsSequence(out.events) /\ \A p \in out.called \cap Places : Carries(durable, p)
  BY <1>2, CallsCarried DEF Sound, PartsSound
<1>6. CASE CrashDuring(out)
  BY <1>4, <1>5, <1>6, CrashBacked
<1>7. CASE Finish(out) /\ UNCHANGED <<todo, report>>
  <2>1. todo' \subseteq Places /\ report' \in Reports
    BY <1>7 DEF Backed
  <2> QED BY <1>4, <1>5, <1>7, <2>1, FinishBacked
<1> QED BY <1>1, <1>6, <1>7

\* shutdown() begins with a stop (ShutdownBegin).
LEMMA ShutdownBeginBacked ==
    ASSUME IInv, Backed, ShutdownBegin
    PROVE  Backed'
<1> DEFINE other == "other"
           u == StopOnce(mem, other)
           m == [u EXCEPT !.behind = FALSE]
           s == Revoked(slot)
           out == Outcome(StopOnceEvents(mem), m, s)
<1>1. phase = "up" /\ ((Finish(out) /\ UNCHANGED <<todo, report>>) \/ CrashDuring(out))
  BY DEF ShutdownBegin
<1>2. Sound(out)
  BY <1>1, ShutdownBeginSound DEF IInv
<1>3. SameOrders(m) /\ s.intent = slot.intent
  <2>1. other \in {"other", "strategy"}
    OBVIOUS
  <2> HIDE DEF other
  <2> QED BY <2>1, NotedOrders, RevokedIntent
<1>4. Typed(out)
  <2>1. other \in {"other", "strategy"}
    OBVIOUS
  <2> HIDE DEF m, other, s
  <2> QED BY <1>3, <2>1, StopOnceTyped
<1> HIDE DEF out
<1>5. IsSequence(out.events) /\ \A p \in out.called \cap Places : Carries(durable, p)
  BY <1>2, CallsCarried DEF Sound, PartsSound
<1>6. CASE CrashDuring(out)
  BY <1>4, <1>5, <1>6, CrashBacked
<1>7. CASE Finish(out) /\ UNCHANGED <<todo, report>>
  <2>1. todo' \subseteq Places /\ report' \in Reports
    BY <1>7 DEF Backed
  <2> QED BY <1>4, <1>5, <1>7, <2>1, FinishBacked
<1> QED BY <1>1, <1>6, <1>7

\* stop() begins (StopBegin).
LEMMA StopBeginBacked ==
    ASSUME IInv, Backed, StopBegin
    PROVE  Backed'
<1> DEFINE uncertain == broker.health = "Lost"
           type == "session_stopping"
           e == <<Event(type, NoId, NoId)>>
           m == [mem EXCEPT !.ready = FALSE, !.kill = TRUE,
                            !.recon = @ \/ uncertain, !.safety = @ \/ uncertain]
           out == Outcome(e, m, slot)
<1>1. \/ Finish(out) /\ todo' = WorkingAt(broker) /\ report' \in {"incomplete", "complete"}
      \/ CrashDuring(out)
  BY DEF StopBegin
<1>2. type \in QuietTypes
  BY QuietTypesAre
<1> HIDE DEF type
<1>3. IsSequence(e) /\ PlainRecords(e)
  BY <1>2, QuietPlain
<1>4. DOMAIN mem = MemFields
  BY DEF IInv, Session, GoodMem
<1>5. SameOrders(m)
  BY <1>4 DEF SameOrders, MemFields
<1> HIDE DEF e, m
<1>6. slot.intent \in {NoId, slot.intent}
  OBVIOUS
<1>7. Typed(out)
  BY <1>3, <1>5, <1>6, QuietTyped DEF SameOrders
<1>8. out.events = e /\ out.called = {}
  BY OutcomeIs
<1> HIDE DEF out
<1>9. IsSequence(out.events) /\ \A p \in out.called \cap Places : Carries(durable, p)
  BY <1>3, <1>8
<1>10. CASE CrashDuring(out)
  BY <1>7, <1>9, <1>10, CrashBacked
<1>11. CASE Finish(out) /\ todo' = WorkingAt(broker) /\ report' \in {"incomplete", "complete"}
  <2>1. todo' \subseteq Places /\ report' \in Reports
    BY <1>11 DEF WorkingAt, Backed, Shape, Reports
  <2> QED BY <1>7, <1>9, <1>11, <2>1, FinishBacked
<1> QED BY <1>1, <1>10, <1>11

\* One iteration of the loop over the working orders (CancelOnStop).
LEMMA CancelOnStopBacked ==
    ASSUME IInv, Backed, NEW o \in Places, CancelOnStop(o)
    PROVE  Backed'
<1> DEFINE r == CancelRecords(o)
           two == SubSeq(r, 1, 2)
           none == << >>
           alone == CancelUnattempted(o)
           lost == Outcome(two \o alone.events, alone.mem, slot)
<1>1. PICK out \in {alone} \cup
                   (IF broker.health = "Lost" THEN {lost}
                    ELSE {CancelAttempted(o, TRUE), CancelAttempted(o, FALSE),
                          CancelUnacknowledged(o)}) :
        \/ Finish(out) /\ todo' = todo \ {o} /\ report' \in {report, "incomplete"}
        \/ CrashDuring(out)
  BY DEF CancelOnStop
<1>2. /\ IsSequence(r) /\ PlainRecords(r) /\ IsSequence(two) /\ PlainRecords(two)
      /\ IsSequence(none) /\ PlainRecords(none)
  BY CancelPlain, PlainFew, FewRecords
<1>3. /\ alone = Outcome(alone.events, alone.mem, slot)
      /\ alone.events = none \o alone.events
      /\ CancelUnacknowledged(o) = Outcome(r \o alone.events, alone.mem, slot)
  <2> DEFINE last == <<Event("reconciliation_required", ShutdownIntent(o), o)>>
  <2>1. alone.events = last /\ alone = Outcome(alone.events, alone.mem, slot)
    BY DEF CancelUnattempted, Outcome
  <2>2. last = none \o last
    OBVIOUS
  <2>3. CancelUnacknowledged(o) = Outcome(r \o alone.events, alone.mem, slot)
    BY DEF CancelUnacknowledged
  <2> HIDE DEF last, alone
  <2> QED BY <2>1, <2>2, <2>3
<1> HIDE DEF r, two, none
<1>4. IsSequence(out.events) /\ Typed(out) /\ out.called \cap Places = {}
  <2>1. CASE out = alone
    <3>1. out = Outcome(none \o CancelUnattempted(o).events, CancelUnattempted(o).mem, slot)
      BY <1>3, <2>1
    <3> QED BY <1>2, <3>1, UnattemptedTyped
  <2>2. CASE out = lost
    BY <1>2, <2>2, UnattemptedTyped
  <2>3. CASE out = CancelUnacknowledged(o)
    <3>1. out = Outcome(r \o CancelUnattempted(o).events, CancelUnattempted(o).mem, slot)
      BY <1>3, <2>3
    <3> QED BY <1>2, <3>1, UnattemptedTyped
  <2>4. ASSUME NEW acknowledged \in BOOLEAN, out = CancelAttempted(o, acknowledged)
        PROVE  IsSequence(out.events) /\ Typed(out) /\ out.called \cap Places = {}
    BY <2>4, AttemptedTyped
  <2> QED BY <1>1, <2>1, <2>2, <2>3, <2>4
<1>5. \A p \in out.called \cap Places : Carries(durable, p)
  BY <1>4
<1>6. CASE CrashDuring(out)
  BY <1>4, <1>5, <1>6, CrashBacked
<1>7. CASE Finish(out) /\ todo' = todo \ {o} /\ report' \in {report, "incomplete"}
  <2>1. todo' \subseteq Places /\ report' \in Reports
    BY <1>7 DEF Backed, Reports
  <2> QED BY <1>4, <1>5, <1>7, <2>1, FinishBacked
<1> QED BY <1>1, <1>6, <1>7

\* stop() has accounted for every order (StopEnd).
LEMMA StopEndBacked ==
    ASSUME IInv, Backed, StopEnd
    PROVE  Backed'
<1>1. PICK inTime \in BOOLEAN :
        LET ended == Outcome(StopRecords(inTime), NoMemory, EmptySlot)
        IN  \/ /\ Finish([ended EXCEPT !.broker = EmptyBroker])
               /\ report' \in {"reconciled", "uncertain"} /\ UNCHANGED todo
            \/ CrashDuring(ended)
  BY DEF StopEnd
<1> DEFINE stop == SafetyStop(NoId, NoId)
           last == Event("session_stopped", NoId, NoId)
           first == IF inTime /\ broker.health # "Ready" THEN <<stop>> ELSE << >>
           final == <<last>>
           e == StopRecords(inTime)
           ended == Outcome(e, NoMemory, EmptySlot)
           out == [ended EXCEPT !.broker = EmptyBroker]
<1>2. \/ Finish(out) /\ report' \in {"reconciled", "uncertain"} /\ UNCHANGED todo
      \/ CrashDuring(ended)
  BY <1>1
<1>3. PlainRecord(stop) /\ PlainRecord(last)
  BY SafetyStopRecords, QuietRecords, QuietTypesAre
<1>4. e = first \o final
  BY DEF StopRecords
<1> HIDE DEF stop, last, e
<1>5. IsSequence(first) /\ PlainRecords(first)
  BY <1>3, PlainFew, FewRecords
<1>6. IsSequence(final) /\ PlainRecords(final)
  BY <1>3, PlainFew, FewRecords
<1> HIDE DEF first, final
<1>7. IsSequence(e) /\ PlainRecords(e)
  BY <1>4, <1>5, <1>6, PlainJoined
<1> HIDE DEF ended
<1>8. /\ DOMAIN ended = OutcomeFields /\ ended.events = e /\ ended.mem = NoMemory
      /\ ended.slot = EmptySlot /\ ended.called = {} /\ ended.broker = broker
  BY OutcomeIs DEF ended
<1>9. Shape(NoMemory, EmptySlot, EmptyBroker) /\ Shape(NoMemory, EmptySlot, broker)
  BY FreshShape DEF Backed, Shape
<1>10. TypedRecords(e) /\ Completes(durable, e)
  BY <1>7, PlainCompletes
<1>11. CASE CrashDuring(ended)
  <2>1. Typed(ended) /\ IsSequence(ended.events)
    BY <1>7, <1>8, <1>9, <1>10 DEF Typed
  <2>2. \A p \in ended.called \cap Places : Carries(durable, p)
    BY <1>8
  <2> QED BY <1>11, <2>1, <2>2, CrashBacked
<1>12. CASE Finish(out) /\ report' \in {"reconciled", "uncertain"} /\ UNCHANGED todo
  <2>1. /\ out.events = e /\ out.mem = NoMemory /\ out.slot = EmptySlot
        /\ out.called = {} /\ out.broker = EmptyBroker
    BY <1>8 DEF OutcomeFields
  <2> HIDE DEF out
  <2>2. Typed(out) /\ IsSequence(out.events)
    BY <1>7, <1>9, <1>10, <2>1 DEF Typed
  <2>3. \A p \in out.called \cap Places : Carries(durable, p)
    BY <2>1
  <2>4. todo' \subseteq Places /\ report' \in Reports
    BY <1>12 DEF Backed, Reports
  <2> QED BY <1>12, <2>2, <2>3, <2>4, FinishBacked
<1> QED BY <1>2, <1>11, <1>12

\* Every step keeps the second half of the invariant.
LEMMA NextBacked ==
    ASSUME IInv, Backed, [Next]_vars
    PROVE  Backed'
<1>1. CASE Launch
  BY <1>1, LaunchBacked
<1>2. CASE LaunchRefused
  BY <1>2, LaunchRefusedBacked
<1>3. CASE LaunchFailed \/ UNCHANGED vars
  BY <1>3 DEF LaunchFailed, vars, Backed
<1>4. CASE Repair
  BY <1>4, RepairBacked
<1>5. ASSUME NEW i \in Intents, NEW c \in Contents, Prepare(i, c) PROVE Backed'
  <2>1. PICK out \in PrepareOutcomes(i, c) : RunCollected(out)
    BY <1>5 DEF Prepare
  <2>2. phase \in {"up", "draining"} /\ (phase = "up" => mem.connected) /\ slot = EmptySlot
    BY <1>5 DEF Prepare
  <2>3. Sound(out)
    BY <2>2, PrepareSound DEF IInv
  <2>4. Typed(out)
    BY <2>2, PrepareTyped
  <2> QED BY <2>1, <2>3, <2>4, RunCollectedBacked
<1>6. CASE Submit
  <2>1. PICK out \in SubmitOutcomes(slot.intent) : RunCollected(out)
    BY <1>6 DEF Submit
  <2>2. phase \in {"up", "draining"} /\ slot # EmptySlot
    BY <1>6 DEF Submit
  <2>3. Sound(out)
    BY <2>2, SubmitSound DEF IInv
  <2>4. Typed(out)
    BY <2>2, SubmitTyped
  <2> QED BY <2>1, <2>3, <2>4, RunCollectedBacked
<1>7. CASE Observe
  <2>1. PICK crossed \in SUBSET Fillable :
          \E fills \in Orderings(crossed) : RunCollected(Observed(fills))
    BY <1>7 DEF Observe
  <2>2. PICK fills \in Orderings(crossed) : RunCollected(Observed(fills))
    BY <2>1
  <2>3. phase = "up" /\ mem.connected /\ slot = EmptySlot
    BY <1>7 DEF Observe
  <2>4. Sound(Observed(fills))
    BY <2>3, ObservedSound DEF IInv
  <2>5. Typed(Observed(fills))
    BY <2>3, ObservedTyped
  <2> QED BY <2>2, <2>4, <2>5, RunCollectedBacked
<1>8. CASE Fault
  <2> DEFINE other == "other"
             u == StopOnce(mem, other)
             m == [u EXCEPT !.behind = TRUE]
             s == Revoked(slot)
             out == Outcome(StopOnceEvents(mem), m, s)
  <2>1. phase = "up" /\ mem.connected /\ Run(out)
    BY <1>8 DEF Fault
  <2>2. Sound(out)
    BY <2>1, FaultSound DEF IInv
  <2>3. SameOrders(m) /\ s.intent = slot.intent /\ other \in {"other", "strategy"}
    <3>1. other \in {"other", "strategy"}
      OBVIOUS
    <3> HIDE DEF other
    <3> QED BY <3>1, NotedOrders, RevokedIntent
  <2>4. Typed(out)
    <3> HIDE DEF m, other, s
    <3> QED BY <2>3, StopOnceTyped
  <2> HIDE DEF out
  <2> QED BY <2>1, <2>2, <2>4, RunBacked
<1>9. ASSUME NEW health \in {"Unknown", "Lost"}, LoseHealth(health) PROVE Backed'
  BY <1>9, LoseHealthBacked
<1>10. CASE Disconnect
  BY <1>10, DisconnectBacked
<1>11. CASE Reconnect
  <2>1. PICK fresh \in BOOLEAN : Run(Restored(fresh))
    BY <1>11 DEF Reconnect
  <2>2. phase = "up" /\ ~mem.connected
    BY <1>11 DEF Reconnect
  <2>3. Sound(Restored(fresh))
    BY <2>2, RestoredSound DEF IInv
  <2>4. Typed(Restored(fresh))
    BY RestoredTyped
  <2> QED BY <2>1, <2>3, <2>4, RunBacked
<1>12. CASE ShutdownBegin
  BY <1>12, ShutdownBeginBacked
<1>13. CASE StopBegin
  BY <1>13, StopBeginBacked
<1>14. ASSUME NEW o \in Places, CancelOnStop(o) PROVE Backed'
  BY <1>14, CancelOnStopBacked
<1>15. CASE StopEnd
  BY <1>15, StopEndBacked
<1>16. CASE ShutdownTimeout
  BY <1>16, ShutdownTimeoutBacked
<1> QED
  BY <1>1, <1>2, <1>3, <1>4, <1>5, <1>6, <1>7, <1>8, <1>9, <1>10, <1>11, <1>12, <1>13, <1>14,
     <1>15, <1>16 DEF Next

\* A new ledger and a process that has not started.
LEMMA InitBacked ==
    ASSUME Init
    PROVE  Backed
<1>1. DOMAIN EmptyReplay.orders = {} /\ EmptyReplay.lastUpdate = 0
  BY DEF EmptyReplay
<1>2. GoodLedger(EmptyReplay) /\ Restartable(EmptyReplay)
  BY <1>1 DEF GoodLedger, Restartable, GoodOrders
<1>3. \A p \in Places : attempts[p] = 0
  BY ShutdownIntents DEF Init
<1>4. durable = EmptyReplay /\ Shape(mem, slot, broker)
  BY FreshShape DEF Init
<1>5. todo \subseteq Places /\ report \in Reports /\ torn \in BOOLEAN
  BY DEF Init, Reports
<1> QED BY <1>2, <1>3, <1>4, <1>5 DEF Init, Backed

\* Only serve() starts a process.
LEMMA OnlyLaunchStarts ==
    ASSUME [Next]_vars, phase = "down", phase' = "up"
    PROVE  Launch
<1>1. ~LaunchFailed /\ ~Repair /\ ~UNCHANGED vars
  BY DEF LaunchFailed, Repair, vars
<1>2. ~LaunchRefused
  BY DEF LaunchRefused, Run, CrashDuring
<1>3. /\ \A i \in Intents, c \in Contents : ~Prepare(i, c)
      /\ ~Submit /\ ~Observe /\ ~Fault /\ ~Disconnect /\ ~Reconnect
      /\ \A health \in {"Unknown", "Lost"} : ~LoseHealth(health)
  BY DEF Prepare, Submit, Observe, Fault, LoseHealth, Disconnect, Reconnect
<1>4. /\ ~ShutdownBegin /\ ~StopBegin /\ ~StopEnd /\ ~ShutdownTimeout
      /\ \A o \in Places : ~CancelOnStop(o)
  BY DEF ShutdownBegin, StopBegin, StopEnd, ShutdownTimeout, CancelOnStop
<1> QED BY <1>1, <1>2, <1>3, <1>4 DEF Next

\* The two halves of the invariant hold of every behaviour of the session.
THEOREM SessionIsBacked ==
    Spec => []Backed
<1>1. Init => Backed
  BY InitBacked
<1>2. IInv /\ Backed /\ [Next]_vars => Backed'
  BY NextBacked
<1> QED BY <1>1, <1>2, SessionIsSound, PTL DEF Spec

\* Every variable keeps its type: the orders of memory, view and broker are
\* places' and hold snapshots, whatever sequence of calls and crashes led there.
THEOREM SessionIsTyped ==
    Spec => []TypeOK
<1>1. IInv /\ Backed => TypeOK
  <2> SUFFICES ASSUME IInv, Backed PROVE TypeOK
    OBVIOUS
  <2>1. mem.reason \in Reasons /\ slot \in [intent : Intents \cup {NoId}, current : BOOLEAN]
    BY DEF IInv, Session, GoodMem, GoodSlot
  <2>2. phase \in {"down", "up", "draining", "stopping"} /\ attempts \in [AllIntents -> Nat]
    BY DEF IInv, Session
  <2> QED BY <2>1, <2>2 DEF TypeOK, Backed, Shape, Snapped, BrokerHealth, Reports
<1> QED BY <1>1, SessionIsSound, SessionIsBacked, PTL

\* A process starts to serve only from a ledger without a stop and with a broker
\* answer on record for every place that was ever attempted (preflight() and
\* recover_paper_state()).
THEOREM RestartsFailClosed ==
    Spec => RestartFailsClosed
<1> DEFINE Closed == phase = "down" /\ phase' = "up" =>
                       /\ ~durable.stopped
                       /\ \A p \in Places : attempts[p] > 0 =>
                            p \in DOMAIN durable.orders /\ durable.intents[p].outcome
<1>1. IInv /\ Backed /\ [Next]_vars => [Closed]_vars
  BY OnlyLaunchStarts, LaunchedFrom
<1>2. Spec => [][Closed]_vars
  <2> HIDE DEF Closed
  <2> QED BY <1>1, SessionIsSound, SessionIsBacked, PTL DEF Spec
<1> QED BY <1>2 DEF RestartFailsClosed

-----------------------------------------------------------------------------
(* Replay, one record after another.                                       *)

\* Replay goes on where it ended.
LEMMA ReplayAppended ==
    ASSUME NEW s, NEW q, IsSequence(q), NEW e
    PROVE  Replay(s, Append(q, e)) = ReplayRecord(Replay(s, q), e)
<1> DEFINE f == Append(q, e)
           N == Len(q)
<1>1. N \in Nat /\ Len(f) = N + 1 /\ f[N + 1] = e /\ \A k \in 1..N : f[k] = q[k]
  BY AppendedSequences
<1> HIDE DEF f, N
<1>2. PICK r : IsReplay(r, s, q)
  <2>1. Len(q) \in Nat
    BY <1>1 DEF N
  <2> QED BY <2>1, ReplaySteps
<1>3. PICK g : IsReplay(g, s, f)
  <2>1. Len(f) \in Nat
    BY <1>1
  <2> QED BY <2>1, ReplaySteps
<1> DEFINE T == {n \in Nat : n <= N => g[n] = r[n]}
<1>4. 0 \in T
  BY <1>2, <1>3 DEF IsReplay
<1>5. ASSUME NEW n \in T PROVE n + 1 \in T
  <2> SUFFICES ASSUME n + 1 <= N PROVE g[n + 1] = r[n + 1]
    BY <1>5
  <2>1. n \in Nat /\ n + 1 \in 1..N /\ n + 1 \in 1..Len(f) /\ (n + 1) - 1 = n /\ g[n] = r[n]
    BY <1>1, <1>5
  <2>2. g[n + 1] = ReplayRecord(g[n], f[n + 1])
    BY <1>3, <2>1 DEF IsReplay
  <2>3. r[n + 1] = ReplayRecord(r[n], q[n + 1])
    BY <1>2, <2>1 DEF IsReplay, N
  <2> QED BY <1>1, <2>1, <2>2, <2>3
<1>6. T = Nat
  <2> HIDE DEF T
  <2> QED BY <1>4, <1>5, NatSetInduction DEF T
<1>7. g[N] = r[N]
  BY <1>1, <1>6
<1>8. Replay(s, f) = ReplayRecord(g[N], e)
  <2>1. N + 1 \in 1..Len(f) /\ (N + 1) - 1 = N
    BY <1>1
  <2> QED BY <1>1, <1>3, <2>1 DEF IsReplay
<1>9. Replay(s, q) = r[N]
  BY <1>2 DEF IsReplay, N
<1> QED BY <1>7, <1>8, <1>9 DEF f

\* No record, one record and two.
LEMMA ReplayFew ==
    ASSUME NEW s
    PROVE  /\ Replay(s, << >>) = s
           /\ \A a : Replay(s, <<a>>) = ReplayRecord(s, a)
           /\ \A a, b : Replay(s, <<a, b>>) = ReplayRecord(ReplayRecord(s, a), b)
<1> DEFINE none == << >>
<1>1. IsSequence(none) /\ Len(none) = 0
  BY AppendedSequences
<1>2. Replay(s, none) = s
  <2>2. Len(none) \in Nat
    BY <1>1
  <2> HIDE DEF none
  <2>1. PICK r : IsReplay(r, s, none)
    BY <2>2, ReplaySteps
  <2> QED BY <1>1, <2>1 DEF IsReplay
<1>3. ASSUME NEW a PROVE Replay(s, <<a>>) = ReplayRecord(s, a)
  <2>1. <<a>> = Append(none, a)
    OBVIOUS
  <2>2. IsSequence(none)
    BY <1>1
  <2> HIDE DEF none
  <2>3. Replay(s, Append(none, a)) = ReplayRecord(Replay(s, none), a)
    BY <2>2, ReplayAppended
  <2> QED BY <1>2, <2>1, <2>3
<1>4. ASSUME NEW a, NEW b PROVE Replay(s, <<a, b>>) = ReplayRecord(ReplayRecord(s, a), b)
  <2> DEFINE one == <<a>>
  <2>1. <<a, b>> = Append(one, b) /\ IsSequence(one)
    BY FewRecords
  <2>2. Replay(s, one) = ReplayRecord(s, a)
    BY <1>3
  <2> HIDE DEF one
  <2>3. IsSequence(one)
    BY <2>1
  <2>4. Replay(s, Append(one, b)) = ReplayRecord(Replay(s, one), b)
    BY <2>3, ReplayAppended
  <2> QED BY <2>1, <2>2, <2>4
<1> QED BY <1>2, <1>3, <1>4

\* Two records, named.
LEMMA ReplayTwo ==
    ASSUME NEW s, NEW a, NEW b, NEW q, q = <<a, b>>
    PROVE  Replay(s, q) = ReplayRecord(ReplayRecord(s, a), b)
BY ReplayFew

\* A sequence that is followed by none, or by one record.
LEMMA JoinedFew ==
    ASSUME NEW q, IsSequence(q)
    PROVE  q \o << >> = q /\ \A a : q \o <<a>> = Append(q, a)
<1>1. PICK S : q \in Seq(S)
  BY DEF IsSequence
<1>2. q \o << >> = q
  BY <1>1
<1>3. ASSUME NEW a PROVE q \o <<a>> = Append(q, a)
  <2>1. q \in Seq(S \cup {a}) /\ a \in S \cup {a}
    BY <1>1
  <2> QED BY <2>1
<1> QED BY <1>2, <1>3

-----------------------------------------------------------------------------
(* What the broker answers is what the order expects.                      *)

\* The acknowledgement of a submission is taken.
LEMMA AcknowledgedTaken ==
    ASSUME NEW o, o.state = "SubmissionStarted", NEW u, u.brokerOrderId # NoId
    PROVE  ~OnBrokerAcknowledged(o, u).refused
BY DEF OnBrokerAcknowledged, ApplyEvidence

\* The acceptance of the modify in flight is taken.
LEMMA ModifyTaken ==
    ASSUME NEW o, o.pending = "Modify", NEW u, u.quantity = o.pendingQuantity,
           u.price = o.pendingPrice, u.quantity \in Nat \ {0}, u.price \in Nat \ {0},
           o.cumulative \in Nat, u.quantity > o.cumulative
    PROVE  ~OnModifyAccepted(o, u).refused
<1>1. ~(u.quantity < o.cumulative)
  OBVIOUS
<1> QED BY <1>1 DEF OnModifyAccepted, ApplyEvidence

\* The acceptance of the cancel in flight is taken.
LEMMA CancelTaken ==
    ASSUME NEW o, o.pending = "Cancel", o.state \in Working, NEW u
    PROVE  ~OnCancelAccepted(o, u).refused
<1>1. o.state \notin {"Filled", "Cancelled"}
  BY DEF Working
<1> QED BY <1>1 DEF OnCancelAccepted, ApplyEvidence

\* A fill of the whole order is taken.
LEMMA FillTaken ==
    ASSUME NEW o, GoodOrder(o), o.state \in Working, NEW u, u.cumulative = o.effective
    PROVE  ~OnFillUpdate(o, u).refused
<1>1. o.cumulative \in Nat /\ o.effective \in Nat /\ o.cumulative < o.effective
  BY DEF GoodOrder
<1>2. ~(u.cumulative - o.cumulative < 0 \/ u.cumulative > o.effective)
  BY <1>1
<1> QED BY <1>2 DEF OnFillUpdate, ApplyEvidence

\* The snapshot of an order in each of its states.
LEMMA SnapshotIs ==
    ASSUME NEW o, NEW s, s = Snapshot(o)
    PROVE  /\ DOMAIN s = {"quantity", "price", "cumulative", "state"}
           /\ s.quantity = o.effective /\ s.price = o.price /\ s.cumulative = o.cumulative
           /\ o.state = "Acknowledged" => s.state = "working"
           /\ o.state = "PartiallyFilled" => s.state = "partially_filled"
           /\ o.state = "Filled" => s.state = "filled"
           /\ o.state = "Cancelled" => s.state = "cancelled"
           /\ o.state = "Rejected" => s.state = "rejected"
           /\ s = [quantity |-> s.quantity, price |-> s.price, cumulative |-> s.cumulative,
                   state |-> s.state]
BY DEF Snapshot, RecoveredState

\* Snapshots with the same fields are the same.
LEMMA SameSnapshot ==
    ASSUME NEW o, NEW q, q.state = o.state, q.effective = o.effective, q.price = o.price,
           q.cumulative = o.cumulative
    PROVE  Snapshot(q) = Snapshot(o)
BY DEF Snapshot

-----------------------------------------------------------------------------
(* The ledger and the memory of the session agree.                         *)

\* What replay of the ledger makes of the orders, the last update of the broker
\* and the intents that are known.
Matches(d, orders, last, known) ==
    /\ ~d.faulty /\ d.orders = orders /\ d.lastUpdate = last
    /\ DOMAIN orders \subseteq DOMAIN d.intents
    /\ Intents \cap DOMAIN d.intents \subseteq known

\* A ledger that replays, replays what the session holds; the other blocked it.
Same(m, d) ==
    IF d.faulty THEN m.blocked
    ELSE Matches(d, m.orders, m.lastUpdate, DOMAIN m.received)

\* A record that moves no order and names no intent.
Idle(e) == TypedRecord(e) /\ e.type \notin Named \cup {"intent_received"} /\ e.sequence = 0

\* A sequence of such records.
IdleRecords(q) == \A k \in 1..Len(q) : Idle(q[k])

\* A ledger that does not replay stays so.
LEMMA FaultyStays ==
    ASSUME NEW s, s.faulty, NEW e
    PROVE  ReplayRecord(s, e) = s
BY DEF ReplayRecord

\* A record that replays moves the orders as the session moved its own.
LEMMA RecordMatches ==
    ASSUME NEW s, GoodReplay(s), NEW orders, NEW last, NEW known, Matches(s, orders, last, known),
           NEW e, TypedRecord(e), Clean(s, e), ~SourceFault(s, e), NEW t, t = ReplayRecord(s, e),
           DOMAIN OrdersAfter(s, e) \subseteq DOMAIN s.intents,
           NEW wider, known \subseteq wider, e.type = "intent_received" => e.intent \in wider
    PROVE  /\ GoodReplay(t) /\ IntentsAfter(s, e, t)
           /\ Matches(t, OrdersAfter(s, e), IF e.sequence = 0 THEN last ELSE e.sequence, wider)
<1>1. GoodReplay(t)
  BY ReplayRecordSound DEF RecordSound
<1>2. RecordEffect(s, e, t)
  BY ReplayRecordEffect DEF Matches
<1>3. ~t.faulty /\ t.orders = OrdersAfter(s, e) /\ IntentsAfter(s, e, t)
      /\ t.lastUpdate = IF e.sequence = 0 THEN s.lastUpdate ELSE e.sequence
  BY <1>2 DEF RecordEffect
<1>4. DOMAIN t.intents =
        DOMAIN s.intents \cup (IF e.type = "intent_received" THEN {e.intent} ELSE {})
  BY <1>3 DEF IntentsAfter
<1>5. Matches(t, OrdersAfter(s, e), IF e.sequence = 0 THEN last ELSE e.sequence, wider)
  BY <1>3, <1>4 DEF Matches
<1> QED BY <1>1, <1>3, <1>5

\* A record that moves no order keeps the agreement.
LEMMA StillMatches ==
    ASSUME NEW s, GoodReplay(s), NEW orders, NEW last, NEW known, Matches(s, orders, last, known),
           NEW e, TypedRecord(e), e.sequence = 0, Clean(s, e), NEW t, t = ReplayRecord(s, e),
           e.type # "submission_started", e.type \notin DOMAIN EvidenceKind,
           NEW wider, known \subseteq wider, e.type = "intent_received" => e.intent \in wider
    PROVE  GoodReplay(t) /\ Matches(t, orders, last, wider) /\ IntentsAfter(s, e, t)
<1>1. OrdersAfter(s, e) = orders /\ DOMAIN OrdersAfter(s, e) \subseteq DOMAIN s.intents
  BY DEF OrdersAfter, Matches
<1>2. ~SourceFault(s, e)
  BY DEF SourceFault
<1> QED BY <1>1, <1>2, RecordMatches

\* A record that names no intent keeps the agreement.
LEMMA IdleMatches ==
    ASSUME NEW s, GoodReplay(s), NEW orders, NEW last, NEW known, Matches(s, orders, last, known),
           NEW e, Idle(e), NEW t, t = ReplayRecord(s, e)
    PROVE  GoodReplay(t) /\ Matches(t, orders, last, known)
<1>1. /\ TypedRecord(e) /\ e.sequence = 0 /\ e.type # "submission_started"
      /\ e.type \notin DOMAIN EvidenceKind /\ e.type # "intent_received"
      /\ e.type \notin Named /\ e.type \notin Decisions
  BY DEF Idle, Named
<1>2. Clean(s, e)
  BY <1>1 DEF Clean, Legal
<1> QED BY <1>1, <1>2, StillMatches

\* So do records that name none.
LEMMA IdleReplay ==
    ASSUME NEW s, GoodReplay(s), NEW q, Len(q) \in Nat, IdleRecords(q), NEW m, Same(m, s)
    PROVE  Same(m, Replay(s, q))
<1> DEFINE N == Len(q)
<1>1. PICK r : IsReplay(r, s, q)
  BY ReplaySteps
<1>2. N \in Nat /\ r[0] = s /\ Replay(s, q) = r[N]
      /\ \A n \in 1..N : r[n] = ReplayRecord(r[n - 1], q[n]) /\ Idle(q[n])
  BY <1>1 DEF IsReplay, IdleRecords
<1> HIDE DEF N
<1> DEFINE T == {n \in Nat : n <= N => GoodReplay(r[n]) /\ Same(m, r[n])}
<1>3. 0 \in T
  BY <1>2
<1>4. ASSUME NEW n \in T PROVE n + 1 \in T
  <2> SUFFICES ASSUME n + 1 <= N PROVE GoodReplay(r[n + 1]) /\ Same(m, r[n + 1])
    BY <1>4
  <2>1. n \in Nat /\ n + 1 \in 1..N /\ (n + 1) - 1 = n /\ GoodReplay(r[n]) /\ Same(m, r[n])
    BY <1>2, <1>4
  <2>2. r[n + 1] = ReplayRecord(r[n], q[n + 1]) /\ Idle(q[n + 1])
    BY <1>2, <2>1
  <2> HIDE DEF T
  <2>3. CASE r[n].faulty
    BY <2>1, <2>2, <2>3, FaultyStays
  <2>4. CASE ~r[n].faulty
    <3>1. Matches(r[n], m.orders, m.lastUpdate, DOMAIN m.received)
      BY <2>1, <2>4 DEF Same
    <3>2. GoodReplay(r[n + 1]) /\ Matches(r[n + 1], m.orders, m.lastUpdate, DOMAIN m.received)
      BY <2>1, <2>2, <3>1, IdleMatches
    <3>3. ~r[n + 1].faulty
      BY <3>2 DEF Matches
    <3> QED BY <3>2, <3>3 DEF Same
  <2> QED BY <2>3, <2>4
<1>5. T = Nat
  <2> HIDE DEF T
  <2> QED BY <1>3, <1>4, NatSetInduction DEF T
<1> QED BY <1>2, <1>5

\* The decision about a new intent, with the two records that come before it.
LEMMA DecidedMatches ==
    ASSUME NEW s, GoodReplay(s), NEW orders, NEW last, NEW known, Matches(s, orders, last, known),
           NEW i, i # NoId, i \notin DOMAIN s.intents,
           NEW a, TypedRecord(a), a.type = "intent_received", a.intent = i, a.sequence = 0,
           NEW b, TypedRecord(b), b.type \in Mapping, b.intent = i, b.sequence = 0,
           NEW c, TypedRecord(c), c.type \in Decisions, c.intent = i, c.sequence = 0,
           NEW t, t = Replay(s, <<a, b>>), NEW u, u = ReplayRecord(t, c),
           NEW wider, wider = known \cup {i}
    PROVE  GoodReplay(u) /\ Matches(u, orders, last, wider) /\ i \in DOMAIN u.intents
<1> DEFINE r == ReplayRecord(s, a)
<1>1. /\ Mapping \cap DOMAIN EvidenceKind = {} /\ Decisions \cap DOMAIN EvidenceKind = {}
      /\ "intent_received" \notin DOMAIN EvidenceKind
      /\ "intent_received" \notin Named /\ "intent_received" \notin Decisions
      /\ Mapping \cap Decisions = {} /\ "submission_started" \notin Mapping \cup Decisions
      /\ "intent_received" \notin Mapping
  BY RecordTypes DEF Named, Decisions, Mapping
<1>2. Clean(s, a)
  BY <1>1 DEF Clean, Legal
<1>3. known \subseteq wider /\ i \in wider
  OBVIOUS
<1>4. t = ReplayRecord(r, b)
  BY ReplayFew
<1>5. GoodReplay(r) /\ Matches(r, orders, last, wider) /\ IntentsAfter(s, a, r)
  BY <1>1, <1>2, <1>3, StillMatches
<1> HIDE DEF r
<1>6. i \in DOMAIN r.intents /\ ~r.intents[i].decided
  BY <1>5 DEF IntentsAfter
<1>7. Clean(r, b)
  BY <1>1, <1>6 DEF Clean, Legal
<1>8. GoodReplay(t) /\ Matches(t, orders, last, wider) /\ IntentsAfter(r, b, t)
  <2>1. b.type # "submission_started" /\ b.type \notin DOMAIN EvidenceKind
        /\ b.type # "intent_received"
    BY <1>1
  <2> QED BY <1>4, <1>5, <1>7, <2>1, StillMatches
<1>9. i \in DOMAIN t.intents /\ ~t.intents[i].decided
  BY <1>1, <1>6, <1>8 DEF IntentsAfter
<1>10. Clean(t, c)
  BY <1>1, <1>9 DEF Clean, Legal
<1>11. c.type # "submission_started" /\ c.type \notin DOMAIN EvidenceKind
       /\ c.type # "intent_received"
  BY <1>1 DEF Decisions
<1>12. GoodReplay(u) /\ Matches(u, orders, last, wider) /\ IntentsAfter(t, c, u)
  BY <1>8, <1>10, <1>11, StillMatches
<1>13. i \in DOMAIN u.intents
  BY <1>9, <1>12 DEF IntentsAfter
<1> QED BY <1>12, <1>13

-----------------------------------------------------------------------------
(* What the session believes.                                              *)

\* The session sees the orders the broker holds: all of its own but those that
\* are on their way, and none whose state waits for a reconciliation.
Seen(m, held) ==
    /\ m.view = held /\ held = [o \in DOMAIN held |-> held[o]]
    /\ DOMAIN held = {o \in DOMAIN m.orders : m.orders[o].state # "SubmissionStarted"}
    /\ \A o \in DOMAIN held :
         m.orders[o].state \notin Unresolved /\ held[o] = Snapshot(m.orders[o])

\* The order waits for the attempt of an intent.
Awaits(order, i) ==
    /\ i \in Places => /\ order.state = "SubmissionStarted"
                       /\ order.effective = Terms[i].quantity /\ order.price = Terms[i].price
    /\ i \in Modifies => /\ order.pending = "Modify"
                         /\ order.pendingQuantity = Terms[i].quantity
                         /\ order.pendingPrice = Terms[i].price
                         /\ Terms[i].quantity > order.cumulative
    /\ i \in Cancels => order.pending = "Cancel"

\* What waits in the stage is on record and awaited by its order.
Staged(m, s, d) ==
    s.intent # NoId =>
       /\ m.reason # "strategy"
       /\ OrderOf(s.intent) \in DOMAIN m.orders
       /\ d.faulty \/ s.intent \in DOMAIN d.intents
       /\ Awaits(m.orders[OrderOf(s.intent)], s.intent)

\* Session, broker and ledger agree, and so does what waits in the slot.
Agrees(m, s, b, d) == Same(m, d) /\ Seen(m, b.orders) /\ Staged(m, s, d)

\* A session that does not agree with its broker and its ledger has stopped for
\* good, or until the broker it lost is back, which is never.
Judged(m, s, b, d) ==
    m.reason = "other" \/ (m.safety /\ b.health # "Ready") \/ Agrees(m, s, b, d)

\* The same of what a handler leaves.
Judges(out) == Judged(out.mem, out.slot, out.broker, Replay(durable, out.events))

\* The invariant: while the server runs, the session may be believed.
Believes == phase \in {"up", "draining"} => Judged(mem, slot, broker, durable)

\* The members of the session that are not judged do not matter.
LEMMA JudgedAlike ==
    ASSUME NEW m, NEW s, NEW b, NEW d, Judged(m, s, b, d), NEW n,
           n.reason = m.reason, n.safety = m.safety, n.blocked = m.blocked,
           n.orders = m.orders, n.view = m.view, n.lastUpdate = m.lastUpdate,
           n.received = m.received
    PROVE  Judged(n, s, b, d)
<1>1. Same(m, d) => Same(n, d)
  BY DEF Same
<1>2. Seen(m, b.orders) => Seen(n, b.orders)
  BY DEF Seen
<1>3. Staged(m, s, d) => Staged(n, s, d)
  BY DEF Staged
<1> QED BY <1>1, <1>2, <1>3 DEF Judged, Agrees

\* A handler that runs to its end.
LEMMA RunJudged ==
    ASSUME NEW out, Judges(out), Run(out)
    PROVE  Believes'
<1>1. CASE Finish(out)
  BY <1>1 DEF Finish, Judges, Believes
<1>2. CASE CrashDuring(out)
  BY <1>2 DEF CrashDuring, Believes
<1> QED BY <1>1, <1>2 DEF Run

\* A handler whose records are collected.
LEMMA RunCollectedJudged ==
    ASSUME NEW out, Sound(out), Judges(out), RunCollected(out)
    PROVE  Believes'
<1> DEFINE refused == mem.behind /\ out.events # << >>
           m == [out.mem EXCEPT !.behind = out.mem.behind /\ ~refused]
           c == [out EXCEPT !.mem.behind = @ /\ ~refused]
<1>1. CASE CrashDuring(out)
  BY <1>1 DEF CrashDuring, Believes
<1>2. CASE Finish(c)
  <2>1. DOMAIN out = OutcomeFields /\ DOMAIN out.mem = MemFields
    BY DEF Sound, PartsSound, GoodMem
  <2>2. /\ c.mem = m /\ c.events = out.events /\ c.slot = out.slot /\ c.broker = out.broker
    BY <2>1 DEF OutcomeFields
  <2>3. /\ m.reason = out.mem.reason /\ m.safety = out.mem.safety /\ m.blocked = out.mem.blocked
        /\ m.orders = out.mem.orders /\ m.view = out.mem.view
        /\ m.lastUpdate = out.mem.lastUpdate /\ m.received = out.mem.received
    BY <2>1 DEF MemFields
  <2>4. /\ mem' = c.mem /\ slot' = c.slot /\ broker' = c.broker
        /\ durable' = Replay(durable, c.events)
    BY <1>2 DEF Finish
  <2> HIDE DEF m, c
  <2>5. Judged(m, out.slot, out.broker, Replay(durable, out.events))
    BY <2>3, JudgedAlike DEF Judges
  <2> QED BY <2>2, <2>4, <2>5 DEF Believes
<1> QED BY <1>1, <1>2 DEF RunCollected

\* Records that move nothing and a memory with the same orders.
LEMMA AgreesStill ==
    ASSUME IInv, Agrees(mem, slot, broker, durable), NEW m, SameOrders(m), KeepsStops(mem, m),
           NEW q, IsSequence(q), IdleRecords(q),
           NEW s, s.intent # NoId => s.intent = slot.intent,
           s.intent # NoId /\ m.reason = "strategy" => mem.reason = "strategy"
    PROVE  Agrees(m, s, broker, Replay(durable, q))
<1> DEFINE t == Replay(durable, q)
<1>1. GoodReplay(durable) /\ Len(q) \in Nat
  BY AppendedSequences DEF IInv, Recorded
<1>2. Follows(durable, t)
  BY <1>1, ReplayIsSound DEF ReplaySound
<1>3. Same(mem, t)
  BY <1>1, IdleReplay DEF Agrees
<1> HIDE DEF t
<1>4. Same(m, t)
  BY <1>3 DEF Same, Matches, SameOrders, KeepsStops
<1>5. Seen(m, broker.orders)
  BY DEF Agrees, Seen, SameOrders
<1>6. Staged(m, s, t)
  BY <1>2 DEF Agrees, Staged, SameOrders, Follows
<1> QED BY <1>4, <1>5, <1>6 DEF Agrees, t

\* A handler that moves nothing.
LEMMA IdleJudged ==
    ASSUME IInv, Judged(mem, slot, broker, durable), NEW m, SameOrders(m), KeepsStops(mem, m),
           mem.safety => m.safety,
           NEW q, IsSequence(q), IdleRecords(q),
           NEW s, s.intent # NoId => s.intent = slot.intent,
           s.intent # NoId /\ m.reason = "strategy" => mem.reason = "strategy"
    PROVE  Judges(Outcome(q, m, s))
<1> DEFINE out == Outcome(q, m, s)
<1>1. out.events = q /\ out.mem = m /\ out.slot = s /\ out.broker = broker
  BY OutcomeIs
<1> HIDE DEF out
<1>2. Judged(m, s, broker, Replay(durable, q))
  BY AgreesStill DEF Judged, KeepsStops
<1> QED BY <1>1, <1>2 DEF Judges, out

\* A handler that stops the session for good.
LEMMA StoppedJudged ==
    ASSUME NEW out, out.mem.reason = "other"
    PROVE  Judges(out)
BY DEF Judges, Judged

\* Idle records, none, one or two.
LEMMA IdleFew ==
    /\ IdleRecords(<< >>)
    /\ \A a : Idle(a) => IdleRecords(<<a>>)
<1>1. ASSUME NEW a, Idle(a) PROVE IdleRecords(<<a>>)
  <2> DEFINE q == <<a>>
  <2>1. Len(q) = 1 /\ q[1] = a
    OBVIOUS
  <2> HIDE DEF q
  <2>2. IdleRecords(q)
    BY <1>1, <2>1 DEF IdleRecords
  <2> QED BY <2>2 DEF q
<1> QED BY <1>1 DEF IdleRecords

\* Idle records with one more appended.
LEMMA IdleAppended ==
    ASSUME NEW s, IsSequence(s), IdleRecords(s), NEW a, Idle(a)
    PROVE  IsSequence(Append(s, a)) /\ IdleRecords(Append(s, a))
<1> DEFINE q == Append(s, a)
           n == Len(s)
<1>1. /\ IsSequence(q) /\ Len(q) = n + 1 /\ n \in Nat
      /\ q[n + 1] = a /\ \A k \in 1..n : q[k] = s[k]
  BY AppendedSequences
<1> HIDE DEF q, n
<1>2. \A k \in 1..(n + 1) : k = n + 1 \/ k \in 1..n
  BY <1>1
<1>3. IdleRecords(q)
  BY <1>1, <1>2 DEF IdleRecords, n
<1> QED BY <1>1, <1>3 DEF q

\* The records that are idle.
LEMMA IdleTypes ==
    /\ Idle(Reconciled)
    /\ \A type \in {"safety_stop", "session_started", "market_observation_accepted"} :
         \A i, o : Idle(Event(type, i, o))
    /\ \A i, o : Idle(SafetyStop(i, o))
<1> DEFINE types == {"safety_stop", "session_started", "market_observation_accepted"}
<1>1. /\ types \subseteq QuietTypes
      /\ \A type \in types : type \notin Named \cup {"intent_received"}
      /\ "reconciliation_completed" \notin Named \cup {"intent_received"}
  <2>1. \A type \in types : type \notin DOMAIN EvidenceKind
    BY DEF EvidenceKind
  <2>2. "reconciliation_completed" \notin DOMAIN EvidenceKind
    BY DEF EvidenceKind
  <2>3. types \subseteq QuietTypes
    BY DEF QuietTypes
  <2> QED BY <2>1, <2>2, <2>3 DEF Named, Mapping, Decisions
<1> HIDE DEF types
<1>2. ASSUME NEW type \in types, NEW i, NEW o, NEW e, e = Event(type, i, o) PROVE Idle(e)
  <2>1. e.type = type /\ e.sequence = 0
    BY <1>2, EventIs
  <2>2. TypedRecord(e)
    BY <1>1, <1>2, QuietRecords DEF PlainRecord
  <2> QED BY <1>1, <2>1, <2>2 DEF Idle
<1>3. Idle(Reconciled)
  <2> DEFINE e == Reconciled
             type == "reconciliation_completed"
  <2>1. e = Event(type, NoId, NoId)
    BY DEF Reconciled
  <2>2. type \notin Named \cup {"intent_received"}
    BY <1>1
  <2>3. TypedRecord(e)
    BY ReconciledRecords
  <2> HIDE DEF e, type
  <2>4. e.type = type /\ e.sequence = 0
    BY <2>1, EventIs
  <2>5. Idle(e)
    BY <2>2, <2>3, <2>4 DEF Idle
  <2> QED BY <2>5 DEF e
<1>4. ASSUME NEW i, NEW o PROVE Idle(SafetyStop(i, o))
  <2> DEFINE type == "safety_stop"
  <2>1. type \in types
    BY DEF types
  <2>2. SafetyStop(i, o) = Event(type, i, o)
    BY DEF SafetyStop
  <2> HIDE DEF type
  <2> QED BY <1>2, <2>1, <2>2
<1> QED BY <1>2, <1>3, <1>4 DEF types

\* So are those of stop_once().
LEMMA IdleStopOnce ==
    ASSUME NEW m
    PROVE  IsSequence(StopOnceEvents(m)) /\ IdleRecords(StopOnceEvents(m))
<1>1. CASE m.reason = "none"
  <2> DEFINE a == SafetyStop(NoId, NoId)
  <2>1. StopOnceEvents(m) = <<a>>
    BY <1>1 DEF StopOnceEvents
  <2>2. Idle(a)
    BY IdleTypes
  <2> HIDE DEF a
  <2> QED BY <2>1, <2>2, IdleFew, FewRecords
<1>2. CASE m.reason # "none"
  <2>1. StopOnceEvents(m) = << >>
    BY <1>2 DEF StopOnceEvents
  <2> QED BY <2>1, IdleFew, FewRecords
<1> QED BY <1>1, <1>2

-----------------------------------------------------------------------------
(* Handlers that move no order.                                            *)

\* What stop_once() makes of the memory, with a member noted beside it.
LEMMA NotedReason ==
    ASSUME IInv, NEW reason \in {"other", "strategy"}, NEW u, u = StopOnce(mem, reason),
           NEW m, m \in {[u EXCEPT !.behind = TRUE], [u EXCEPT !.behind = FALSE],
                         [u EXCEPT !.connected = FALSE]}
    PROVE  /\ SameOrders(m) /\ KeepsStops(mem, m) /\ m.safety
           /\ m.reason = IF mem.reason = "none" THEN reason ELSE mem.reason
<1>1. reason \in Reasons \ {"none"} /\ GoodMem(mem)
  BY DEF Reasons, IInv, Session
<1>2. /\ GoodMem(u) /\ u.safety /\ SameButStopped(mem, u)
      /\ u.reason = (IF mem.reason = "none" THEN reason ELSE mem.reason)
  BY <1>1, StopOnceIs
<1>3. DOMAIN u = MemFields
  BY <1>2 DEF GoodMem
<1>4. /\ m.reason = u.reason /\ m.safety = u.safety /\ m.blocked = u.blocked
      /\ m.received = u.received /\ m.orders = u.orders /\ m.view = u.view
      /\ m.lastUpdate = u.lastUpdate
  BY <1>3 DEF MemFields
<1> QED BY <1>2, <1>4 DEF SameButStopped, SameOrders, KeepsStops

\* A risk or broker fault (fault_stop) closes the session for good.
LEMMA FaultBelieves ==
    ASSUME IInv, Fault
    PROVE  Believes'
<1> DEFINE u == StopOnce(mem, "other")
           m == [u EXCEPT !.behind = TRUE]
           q == StopOnceEvents(mem)
           s == Revoked(slot)
           out == Outcome(q, m, s)
<1>1. Run(out) /\ mem.reason = "none"
  BY DEF Fault
<1>2. out.mem = m
  BY OutcomeIs
<1>3. m.reason = IF mem.reason = "none" THEN "other" ELSE mem.reason
  BY NotedReason
<1> HIDE DEF m, out
<1>4. Judges(out)
  BY <1>1, <1>2, <1>3, StoppedJudged
<1> QED BY <1>1, <1>4, RunJudged

\* A strategy that disconnects stops the session and changes no order.
LEMMA DisconnectBelieves ==
    ASSUME IInv, Believes, Disconnect
    PROVE  Believes'
<1> DEFINE u == StopOnce(mem, "strategy")
           m == [u EXCEPT !.connected = FALSE]
           q == StopOnceEvents(mem)
           out == Outcome(q, m, slot)
<1>1. /\ phase = "up" /\ slot = EmptySlot
      /\ (Finish(out) \/ CrashDuring(out))
  BY DEF Disconnect
<1>2. SameOrders(m) /\ KeepsStops(mem, m) /\ m.safety
  BY NotedReason
<1>3. IsSequence(q) /\ IdleRecords(q)
  BY IdleStopOnce
<1>4. Judged(mem, slot, broker, durable) /\ slot.intent = NoId
  BY <1>1 DEF Believes, EmptySlot
<1> HIDE DEF u, m, q
<1>5. Judges(out)
  BY <1>2, <1>3, <1>4, IdleJudged
<1> HIDE DEF out
<1>6. CASE Finish(out)
  BY <1>5, <1>6 DEF Finish, Judges, Believes
<1>7. CASE CrashDuring(out)
  BY <1>7 DEF CrashDuring, Believes
<1> QED BY <1>1, <1>6, <1>7

\* The start of shutdown() stops the session and revokes the slot.
LEMMA ShutdownBeginBelieves ==
    ASSUME IInv, Believes, ShutdownBegin
    PROVE  Believes'
<1> DEFINE u == StopOnce(mem, "other")
           m == [u EXCEPT !.behind = FALSE]
           q == StopOnceEvents(mem)
           s == Revoked(slot)
           out == Outcome(q, m, s)
<1>1. phase = "up" /\ (Finish(out) \/ CrashDuring(out))
  BY DEF ShutdownBegin
<1>2. /\ SameOrders(m) /\ KeepsStops(mem, m) /\ m.safety
      /\ m.reason = IF mem.reason = "none" THEN "other" ELSE mem.reason
  BY NotedReason
<1>3. IsSequence(q) /\ IdleRecords(q)
  BY IdleStopOnce
<1>4. Judged(mem, slot, broker, durable) /\ s.intent = slot.intent
  BY <1>1, RevokedIntent DEF Believes
<1> HIDE DEF u, m, q, s
<1>5. Judges(out)
  BY <1>2, <1>3, <1>4, IdleJudged
<1> HIDE DEF out
<1>6. CASE Finish(out)
  BY <1>5, <1>6 DEF Finish, Judges, Believes
<1>7. CASE CrashDuring(out)
  BY <1>7 DEF CrashDuring, Believes
<1> QED BY <1>1, <1>6, <1>7

\* A broker that loses its health keeps its orders.
LEMMA LoseHealthBelieves ==
    ASSUME IInv, Believes, NEW health \in {"Unknown", "Lost"}, LoseHealth(health)
    PROVE  Believes'
<1> DEFINE b == [broker EXCEPT !.health = health]
<1>1. /\ broker' = b /\ phase' = phase /\ mem' = mem /\ slot' = slot /\ durable' = durable
  BY DEF LoseHealth
<1>2. DOMAIN broker = {"health", "orders"}
  BY DEF IInv, Session, GoodBroker
<1>3. b.health # "Ready" /\ b.orders = broker.orders
  BY <1>2
<1> HIDE DEF b
<1>4. Judged(mem, slot, broker, durable) => Judged(mem, slot, b, durable)
  BY <1>3 DEF Judged, Agrees
<1> QED BY <1>1, <1>4 DEF Believes

\* The authority is restored only to a session that agrees.
LEMMA RestoredJudged ==
    ASSUME IInv, Judged(mem, slot, broker, durable), slot = EmptySlot, NEW fresh \in BOOLEAN
    PROVE  Judges(Restored(fresh))
<1> DEFINE back == [mem EXCEPT !.connected = TRUE]
           clear == [back EXCEPT !.kill = FALSE, !.safety = FALSE, !.recon = FALSE,
                                 !.ready = mem.observed]
           a == Event("reconciliation_completed", NoId, NoId)
           b == Event("session_started", NoId, NoId)
           stop == SafetyStop(NoId, NoId)
           started == IF mem.observed THEN <<b>> ELSE << >>
           first == <<a>>
           e == first \o started
           f == Append(e, stop)
           one == <<stop>>
           u == SafetyStopped(back)
           w == SafetyStopped(clear)
           failed == [u EXCEPT !.behind = TRUE]
           cured == [clear EXCEPT !.reason = "none"]
           stale == [w EXCEPT !.reason = "other"]
           none == << >>
<1>1. Restored(fresh) =
        IF mem.reason # "strategy" THEN Outcome(none, back, slot)
        ELSE IF ~ExactAgreement \/ broker.health # "Ready" THEN Outcome(one, failed, slot)
        ELSE IF fresh THEN Outcome(e, cured, slot)
        ELSE Outcome(f, stale, slot)
  BY DEF Restored
<1>2. Idle(a) /\ Idle(b) /\ Idle(stop)
  BY IdleTypes DEF Reconciled
<1> HIDE DEF a, b, stop
<1>3. IsSequence(first) /\ IdleRecords(first)
  BY <1>2, IdleFew, FewRecords
<1>4. IsSequence(e) /\ IdleRecords(e)
  <2> HIDE DEF first
  <2>1. CASE mem.observed
    <3>1. e = Append(first, b)
      BY <1>3, <2>1, JoinedFew
    <3> HIDE DEF e
    <3> QED BY <1>2, <1>3, <3>1, IdleAppended
  <2>2. CASE ~mem.observed
    <3>1. e = first
      BY <1>3, <2>2, JoinedFew
    <3> HIDE DEF e
    <3> QED BY <1>3, <3>1
  <2> QED BY <2>1, <2>2
<1> HIDE DEF first, started, e
<1>5. IsSequence(one) /\ IdleRecords(one) /\ IsSequence(none) /\ IdleRecords(none)
  BY <1>2, IdleFew, FewRecords
<1> HIDE DEF f, one, none
<1>6. DOMAIN mem = MemFields
  BY DEF IInv, Session, GoodMem
<1>7. /\ DOMAIN back = MemFields /\ SameOrders(back) /\ back.reason = mem.reason
      /\ back.safety = mem.safety /\ back.blocked = mem.blocked /\ back.received = mem.received
  BY <1>6 DEF MemFields, SameOrders
<1> HIDE DEF back
<1>8. /\ DOMAIN clear = MemFields /\ SameOrders(clear)
      /\ clear.blocked = mem.blocked /\ clear.received = mem.received
      /\ DOMAIN u = MemFields /\ SameOrders(u) /\ u.reason = mem.reason
      /\ u.safety = TRUE /\ u.blocked = mem.blocked /\ u.received = mem.received
  BY <1>7 DEF MemFields, SameOrders, SafetyStopped
<1> HIDE DEF clear, u
<1>9. /\ DOMAIN w = MemFields
      /\ SameOrders(failed) /\ failed.reason = mem.reason /\ failed.safety = TRUE
      /\ failed.blocked = mem.blocked /\ failed.received = mem.received
      /\ SameOrders(cured) /\ cured.reason = "none"
      /\ cured.blocked = mem.blocked /\ cured.received = mem.received
  BY <1>8 DEF MemFields, SameOrders, SafetyStopped
<1> HIDE DEF w, failed, cured
<1>10. stale.reason = "other"
  BY <1>9 DEF MemFields
<1> HIDE DEF stale
<1>11. slot.intent = NoId
  BY DEF EmptySlot
<1>12. Judges(Outcome(none, back, slot)) /\ Judges(Outcome(one, failed, slot))
  <2>1. KeepsStops(mem, back) /\ KeepsStops(mem, failed)
    BY <1>7, <1>9 DEF KeepsStops
  <2>2. Judges(Outcome(none, back, slot))
    BY <1>5, <1>7, <1>11, <2>1, IdleJudged
  <2>3. Judges(Outcome(one, failed, slot))
    BY <1>5, <1>9, <1>11, <2>1, IdleJudged
  <2> QED BY <2>2, <2>3
<1>13. mem.reason = "strategy" /\ broker.health = "Ready" => Judges(Outcome(e, cured, slot))
  <2> SUFFICES ASSUME mem.reason = "strategy", broker.health = "Ready"
               PROVE  Judges(Outcome(e, cured, slot))
    OBVIOUS
  <2>1. Agrees(mem, slot, broker, durable)
    BY DEF Judged
  <2>2. KeepsStops(mem, cured)
    BY <1>9 DEF KeepsStops
  <2>3. Agrees(cured, slot, broker, Replay(durable, e))
    BY <1>4, <1>9, <1>11, <2>1, <2>2, AgreesStill
  <2> DEFINE out == Outcome(e, cured, slot)
  <2>4. out.events = e /\ out.mem = cured /\ out.slot = slot /\ out.broker = broker
    BY OutcomeIs
  <2> HIDE DEF out
  <2> QED BY <2>3, <2>4 DEF Judges, Judged, out
<1>14. Judges(Outcome(f, stale, slot))
  <2> DEFINE out == Outcome(f, stale, slot)
  <2>1. out.mem = stale
    BY OutcomeIs
  <2> HIDE DEF out
  <2>2. Judges(out)
    BY <1>10, <2>1, StoppedJudged
  <2> QED BY <2>2 DEF out
<1> QED BY <1>1, <1>12, <1>13, <1>14

\* The strategy is back, and authority is restored only on agreement.
LEMMA ReconnectBelieves ==
    ASSUME IInv, Believes, Reconnect
    PROVE  Believes'
<1>1. PICK fresh \in BOOLEAN : Run(Restored(fresh))
  BY DEF Reconnect
<1>2. slot = EmptySlot /\ Judged(mem, slot, broker, durable)
  BY DEF Reconnect, IInv, Session, Fits, Believes
<1>3. Judges(Restored(fresh))
  BY <1>2, RestoredJudged
<1> QED BY <1>1, <1>3, RunJudged

-----------------------------------------------------------------------------
(* A new process, a conflict, and an attempt that is not made.             *)

\* A process starts with what the ledger replays, and so does its broker.
LEMMA LaunchBelieves ==
    ASSUME IInv, Backed, Launch
    PROVE  Believes'
<1> DEFINE e == <<Reconciled>>
           snapshots == [o \in DOMAIN durable.orders |-> Snapshot(durable.orders[o])]
           received == [i \in DOMAIN durable.intents |-> durable.intents[i].content]
           m == [NoMemory EXCEPT !.received = received, !.orders = durable.orders,
                                 !.view = snapshots, !.lastUpdate = durable.lastUpdate]
           b == [health |-> "Ready", orders |-> snapshots]
           quiet == Outcome(e, m, EmptySlot)
           out == Recovered
<1>1. out = [quiet EXCEPT !.broker = b]
  BY DEF Recovered, Reconciled
<1>2. /\ ~durable.recon /\ ~durable.stopped /\ ~durable.faulty
      /\ \A o \in DOMAIN durable.orders : durable.orders[o].state \in DOMAIN RecoveredState
  BY LaunchedFrom DEF Launch, LedgerRefused
<1>3. /\ DOMAIN snapshots = DOMAIN durable.orders
      /\ snapshots = [o \in DOMAIN snapshots |-> snapshots[o]]
      /\ \A o \in DOMAIN snapshots : snapshots[o] = Snapshot(durable.orders[o])
  OBVIOUS
<1>4. /\ DOMAIN received = DOMAIN durable.intents
      /\ b.orders = snapshots /\ DOMAIN NoMemory = MemFields
  BY NothingRemembered DEF GoodMem
<1> HIDE DEF snapshots, received, e
<1>5. m.orders = durable.orders /\ m.view = snapshots /\ m.lastUpdate = durable.lastUpdate
      /\ m.received = received
  BY <1>4 DEF MemFields
<1> HIDE DEF m, b, quiet, out
<1>6. /\ DOMAIN quiet = OutcomeFields /\ quiet.events = e /\ quiet.mem = m
      /\ quiet.slot = EmptySlot
  BY OutcomeIs DEF quiet
<1>7. out.events = e /\ out.mem = m /\ out.slot = EmptySlot /\ out.broker = b
  BY <1>1, <1>6 DEF OutcomeFields
<1>8. "SubmissionStarted" \notin DOMAIN RecoveredState
  BY DEF RecoveredState
<1>9. \A o \in DOMAIN durable.orders :
        /\ durable.orders[o].state \notin Unresolved /\ o \in DOMAIN durable.intents
        /\ durable.orders[o].state # "SubmissionStarted"
  BY <1>2, <1>8 DEF Backed, Restartable
<1>10. Same(m, durable)
  BY <1>2, <1>4, <1>5, <1>9 DEF Same, Matches
<1>11. Seen(m, b.orders)
  BY <1>3, <1>4, <1>5, <1>9 DEF Seen
<1>12. Same(m, Replay(durable, e))
  <2>1. IsSequence(e) /\ IdleRecords(e)
    BY IdleFew, IdleTypes, FewRecords DEF e
  <2>2. GoodReplay(durable) /\ Len(e) \in Nat
    BY <2>1, AppendedSequences DEF IInv, Recorded
  <2> QED BY <1>10, <2>1, <2>2, IdleReplay
<1>13. EmptySlot.intent = NoId
  BY DEF EmptySlot
<1>14. Judges(out)
  BY <1>7, <1>11, <1>12, <1>13 DEF Judges, Judged, Agrees, Staged
<1>15. CASE CrashDuring(out)
  BY <1>15 DEF CrashDuring, Believes
<1>16. CASE Finish(out)
  BY <1>14, <1>16 DEF Finish, Judges, Believes
<1> QED BY <1>15, <1>16 DEF Launch, out

\* A record that moves no order, and that replays.
LEMMA UnmovedMatches ==
    ASSUME NEW s, GoodReplay(s), NEW m, Same(m, s), NEW e, TypedRecord(e), e.sequence = 0,
           e.type # "submission_started", e.type \notin DOMAIN EvidenceKind,
           e.type # "intent_received", NEW t, t = ReplayRecord(s, e), t.faulty => m.blocked
    PROVE  Same(m, t)
<1>1. CASE t.faulty
  BY <1>1 DEF Same
<1>2. CASE ~t.faulty
  <2>1. ~s.faulty
    BY <1>2, FaultyStays
  <2>2. Matches(s, m.orders, m.lastUpdate, DOMAIN m.received)
    BY <2>1 DEF Same
  <2>3. RecordEffect(s, e, t)
    BY <2>1, ReplayRecordEffect
  <2>4. t.orders = s.orders /\ t.lastUpdate = s.lastUpdate /\ DOMAIN t.intents = DOMAIN s.intents
    BY <1>2, <2>3 DEF RecordEffect, OrdersAfter, IntentsAfter
  <2> QED BY <1>2, <2>2, <2>4 DEF Same, Matches
<1> QED BY <1>1, <1>2

\* The second record of a conflict may be one that does not replay.
LEMMA ConflictJudged ==
    ASSUME IInv, Judged(mem, slot, broker, durable), slot = EmptySlot, NEW i
    PROVE  Judges(Conflict(i))
<1> DEFINE a == SafetyStop(i, NoId)
           b == Event("risk_rejected", i, NoId)
           u == SafetyStopped(mem)
           m == [u EXCEPT !.blocked = TRUE]
           e == <<a, b>>
           out == Outcome(e, m, slot)
           r == ReplayRecord(durable, a)
           t == ReplayRecord(r, b)
<1>1. Conflict(i) = out
  BY DEF Conflict
<1>2. out.events = e /\ out.mem = m /\ out.slot = slot /\ out.broker = broker
  BY OutcomeIs
<1>3. Idle(a)
  BY IdleTypes
<1>4. /\ TypedRecord(b) /\ b.sequence = 0 /\ b.type # "submission_started"
      /\ b.type \notin DOMAIN EvidenceKind /\ b.type # "intent_received"
  <2> DEFINE type == "risk_rejected"
  <2>1. /\ type \in QuietTypes /\ type # "submission_started" /\ type \notin DOMAIN EvidenceKind
        /\ type # "intent_received"
    BY QuietTypesAre DEF EvidenceKind
  <2>2. b = Event(type, i, NoId)
    OBVIOUS
  <2> HIDE DEF type, b
  <2>3. PlainRecord(b)
    BY <2>1, <2>2, QuietRecords
  <2>4. b.type = type /\ b.sequence = 0
    BY <2>2, EventIs
  <2> QED BY <2>1, <2>3, <2>4 DEF PlainRecord
<1> HIDE DEF a, b
<1>5. Replay(durable, e) = t
  BY ReplayTwo
<1> HIDE DEF e
<1>6. DOMAIN u = MemFields /\ SameOrders(u) /\ u.reason = mem.reason /\ u.safety
      /\ u.blocked = mem.blocked /\ u.received = mem.received
  <2>1. GoodMem(mem) /\ u = SafetyStopped(mem)
    BY DEF IInv, Session
  <2> HIDE DEF u
  <2>2. GoodMem(u) /\ u.safety /\ SameButStopped(mem, u) /\ u.reason = mem.reason
    BY <2>1, SafetyStoppedIs
  <2> QED BY <2>2 DEF GoodMem, SameButStopped, SameOrders
<1> HIDE DEF u
<1>7. /\ SameOrders(m) /\ m.reason = mem.reason /\ m.safety = u.safety
      /\ m.blocked = TRUE /\ m.received = mem.received
  BY <1>6 DEF MemFields, SameOrders
<1> HIDE DEF m, out
<1>8. GoodReplay(durable)
  BY DEF IInv, Recorded
<1>9. /\ a.type # "submission_started" /\ a.type \notin DOMAIN EvidenceKind
      /\ a.type # "intent_received" /\ TypedRecord(a) /\ a.sequence = 0
  BY <1>3 DEF Idle, Named
<1>10. GoodReplay(r)
  BY <1>8, ReplayRecordSound DEF RecordSound
<1> HIDE DEF r
<1>11. Agrees(mem, slot, broker, durable) => Agrees(m, slot, broker, t)
  <2> SUFFICES ASSUME Agrees(mem, slot, broker, durable) PROVE Agrees(m, slot, broker, t)
    OBVIOUS
  <2>1. Same(m, durable)
    BY <1>7 DEF Agrees, Same, SameOrders
  <2>2. Same(m, r)
    BY <1>7, <1>8, <1>9, <2>1, UnmovedMatches DEF r
  <2>3. Same(m, t)
    BY <1>4, <1>7, <1>10, <2>2, UnmovedMatches
  <2>4. Seen(m, broker.orders) /\ slot.intent = NoId
    BY <1>7 DEF Agrees, Seen, SameOrders, EmptySlot
  <2> QED BY <2>3, <2>4 DEF Agrees, Staged
<1>12. Judged(m, slot, broker, t)
  BY <1>6, <1>7, <1>11 DEF Judged
<1> QED BY <1>1, <1>2, <1>5, <1>12 DEF Judges

\* A strategy that left while an intent waited for the broker.
LEMMA StagedReason ==
    ASSUME Judged(mem, slot, broker, durable), slot.intent # NoId, mem.reason = "strategy"
    PROVE  mem.safety /\ broker.health # "Ready"
BY DEF Judged, Agrees, Staged

\* The capability is revoked (SubmitRevoked).
LEMMA SubmitRevokedJudged ==
    ASSUME IInv, Judged(mem, slot, broker, durable), slot.intent # NoId, NEW i,
           mem.reason # "none"
    PROVE  Judges(SubmitRevoked(i))
<1> DEFINE e == <<Event("reconciliation_required", i, OrderOf(i))>>
           m == [mem EXCEPT !.recon = TRUE, !.safety = TRUE]
           out == Outcome(e, m, EmptySlot)
<1>1. SubmitRevoked(i) = out
  BY DEF SubmitRevoked
<1>2. out.mem = m /\ out.broker = broker
  BY OutcomeIs
<1>3. DOMAIN mem = MemFields /\ mem.reason \in Reasons
  BY DEF IInv, Session, GoodMem
<1>4. m.reason = mem.reason /\ m.safety = TRUE
  BY <1>3 DEF MemFields
<1> HIDE DEF m, out
<1>5. mem.reason = "other" \/ mem.reason = "strategy"
  BY <1>3 DEF Reasons
<1>6. mem.reason = "strategy" => broker.health # "Ready"
  BY StagedReason
<1> QED BY <1>1, <1>2, <1>4, <1>5, <1>6 DEF Judges, Judged

\* A stop that the ledger worker brings about, whatever was staged.
LEMMA StoppedTwiceJudged ==
    ASSUME IInv, phase \in {"up", "draining"}, Judged(mem, slot, broker, durable),
           slot.intent # NoId, NEW out, out.mem = SafetyStopped(StopOnce(mem, "other")),
           out.broker.health = broker.health
    PROVE  Judges(out)
<1> DEFINE u == StopOnce(mem, "other")
           n == SafetyStopped(u)
<1>1. GoodMem(mem) /\ mem.reason \in Reasons
  BY DEF IInv, Session, GoodMem
<1>2. GoodMem(u) /\ u.reason = (IF mem.reason = "none" THEN "other" ELSE mem.reason)
  <2> DEFINE other == "other"
  <2>1. other \in Reasons \ {"none"} /\ u = StopOnce(mem, other)
    BY DEF Reasons
  <2> HIDE DEF u, other
  <2>2. GoodMem(u) /\ u.reason = (IF mem.reason = "none" THEN other ELSE mem.reason)
    BY <1>1, <2>1, StopOnceIs
  <2> QED BY <2>2 DEF other
<1> HIDE DEF u
<1>3. n.safety /\ n.reason = u.reason
  BY <1>2, SafetyStoppedIs
<1> HIDE DEF n
<1>4. out.mem = n
  BY DEF n, u
<1>5. mem.reason = "strategy" => broker.health # "Ready"
  BY StagedReason
<1>6. n.reason = "other" \/ mem.reason = "strategy"
  BY <1>1, <1>2, <1>3 DEF Reasons
<1> QED BY <1>3, <1>4, <1>5, <1>6 DEF Judges, Judged

-----------------------------------------------------------------------------
(* The broker answers what its order awaits.                               *)

\* An order that awaits a modify or a cancel is working.
LEMMA AwaitedIsWorking ==
    ASSUME NEW order, GoodOrder(order), order.state \notin Unresolved,
           NEW i \in Modifies \cup Cancels, Awaits(order, i)
    PROVE  order.state \in Working
<1>1. order.pending # "None"
  BY DEF Awaits
<1> QED BY <1>1 DEF GoodOrder

\* A working order works at the broker, and only it does.
LEMMA WorkingSnapshot ==
    ASSUME NEW order, GoodOrder(order), order.state \notin Unresolved \cup {"SubmissionStarted"},
           NEW s, s = Snapshot(order)
    PROVE  s.state \notin BrokerTerminal <=> order.state \in Working
<1>1. /\ order.state = "Acknowledged" => s.state = "working"
      /\ order.state = "PartiallyFilled" => s.state = "partially_filled"
      /\ order.state = "Filled" => s.state = "filled"
      /\ order.state = "Cancelled" => s.state = "cancelled"
      /\ order.state = "Rejected" => s.state = "rejected"
  BY SnapshotIs
<1>2. order.state \in OrderStates \ {"Prepared"}
  BY DEF GoodOrder
<1> QED BY <1>1, <1>2 DEF OrderStates, Unresolved, Working, BrokerTerminal

\* The acknowledgement of a place.
LEMMA PlaceAnswer ==
    ASSUME NEW order, GoodOrder(order), NEW i \in Places, Awaits(order, i),
           NEW e, e = IntentEvent("broker_acknowledged", i), NEW u,
           u = EvidenceOf(e, "BrokerAcknowledged"), NEW r, r = ApplyOrderUpdate(order, u)
    PROVE  /\ ~r.refused /\ GoodOrder(r.order)
           /\ r.order.state \notin Unresolved \cup {"SubmissionStarted"}
           /\ Snapshot(r.order) = Placed(Terms[i])
<1> DEFINE type == "broker_acknowledged"
           kind == "BrokerAcknowledged"
<1>1. i \in Intents /\ i # NoId /\ OrderOf(i) = i
  BY OrdersOfPlaces DEF Intents
<1>2. PlainRecord(e) /\ e.order = i
  <2>1. type # "reconciliation_completed" /\ e = IntentEvent(type, i)
    OBVIOUS
  <2> HIDE DEF type
  <2> QED BY <1>1, <2>1, IntentRecords
<1>3. /\ SessionEvidence(u) /\ u.kind = kind /\ u.brokerOrderId = i
  <2>1. kind \in SessionKinds /\ u = EvidenceOf(e, kind)
    BY DEF SessionKinds
  <2> HIDE DEF kind
  <2> QED BY <1>2, <2>1, RecordEvidence DEF PlainRecord
<1>4. r = OnBrokerAcknowledged(order, u)
  BY <1>3, EvidenceIs
<1>5. order.state = "SubmissionStarted" /\ order.effective = Terms[i].quantity
      /\ order.price = Terms[i].price
  BY DEF Awaits
<1>6. ~r.refused
  BY <1>1, <1>3, <1>4, <1>5, AcknowledgedTaken
<1>7. r.order.state = "Acknowledged" /\ r.order.cumulative = 0 /\ Moves(order, kind, r.order)
  BY <1>3, <1>4, <1>6, AcknowledgedMoves
<1>8. GoodOrder(r.order) /\ r.order.effective = order.effective /\ r.order.price = order.price
  BY <1>7 DEF Moves
<1>9. Snapshot(r.order) = Placed(Terms[i])
  <2> DEFINE q == r.order
             s == Snapshot(q)
  <2>1. s = [quantity |-> s.quantity, price |-> s.price, cumulative |-> s.cumulative,
             state |-> s.state]
    BY SnapshotIs
  <2>2. s.quantity = q.effective /\ s.price = q.price /\ s.cumulative = q.cumulative
        /\ (q.state = "Acknowledged" => s.state = "working")
    BY SnapshotIs
  <2> HIDE DEF s
  <2>3. s = Placed(Terms[i])
    BY <1>5, <1>7, <1>8, <2>1, <2>2 DEF Placed
  <2> QED BY <2>3 DEF s
<1> QED BY <1>6, <1>7, <1>8, <1>9 DEF Unresolved

\* A snapshot under the terms of a modify.
Retermed(s, terms) == [s EXCEPT !.quantity = terms.quantity, !.price = terms.price]

\* The acceptance of a modify.
LEMMA ModifyAnswer ==
    ASSUME NEW order, GoodOrder(order), order.state \notin Unresolved,
           NEW i \in Modifies, Awaits(order, i),
           NEW e, e = IntentEvent("modified", i), NEW u, u = EvidenceOf(e, "ModifyAccepted"),
           NEW r, r = ApplyOrderUpdate(order, u), NEW s, s = Snapshot(order)
    PROVE  /\ ~r.refused /\ GoodOrder(r.order) /\ r.order.state \in Working
           /\ Snapshot(r.order) = Retermed(s, Terms[i])
<1> DEFINE type == "modified"
           kind == "ModifyAccepted"
<1>1. i \in Intents /\ i \notin Cancels
  BY IntentsAssumption DEF Intents
<1>2. /\ PlainRecord(e) /\ e.quantity = Terms[i].quantity /\ e.price = Terms[i].price
      /\ e.quantity \in Nat \ {0} /\ e.price \in Nat \ {0}
  <2>1. type # "reconciliation_completed" /\ e = IntentEvent(type, i)
        /\ type \notin {"submission_started", "broker_acknowledged", "broker_rejected"}
    OBVIOUS
  <2> HIDE DEF type
  <2> QED BY <1>1, <2>1, IntentRecords
<1>3. /\ SessionEvidence(u) /\ u.kind = kind /\ u.quantity = e.quantity /\ u.price = e.price
  <2>1. kind \in SessionKinds /\ u = EvidenceOf(e, kind)
    BY DEF SessionKinds
  <2> HIDE DEF kind
  <2> QED BY <1>2, <2>1, RecordEvidence DEF PlainRecord
<1>4. r = OnModifyAccepted(order, u)
  BY <1>3, EvidenceIs
<1>5. order.pending = "Modify" /\ order.pendingQuantity = u.quantity
      /\ order.pendingPrice = u.price /\ u.quantity > order.cumulative /\ order.cumulative \in Nat
  BY <1>2, <1>3 DEF Awaits, GoodOrder
<1>6. ~r.refused
  BY <1>2, <1>3, <1>4, <1>5, ModifyTaken
<1>7. /\ Moves(order, kind, r.order) /\ r.order.cumulative = order.cumulative
      /\ r.order.effective = u.quantity /\ r.order.price = u.price
      /\ r.order.state = WorkingState(order)
  <2>1. order.cumulative < u.quantity
    BY <1>2, <1>3, <1>5
  <2> QED BY <1>3, <1>4, <1>6, <2>1, ModifyAcceptedMoves
<1>8. order.state \in Working
  BY AwaitedIsWorking
<1>9. r.order.state = order.state
  BY <1>5, <1>7, <1>8 DEF WorkingState, Working, GoodOrder
<1>10. Snapshot(r.order) = Retermed(s, Terms[i])
  <2> DEFINE quantity == Terms[i].quantity
             price == Terms[i].price
  <2>1. r.order.effective = quantity /\ r.order.price = price
    BY <1>2, <1>3, <1>7
  <2> HIDE DEF quantity, price
  <2> DEFINE state == RecoveredState[order.state]
             g == [s EXCEPT !.quantity = quantity, !.price = price]
  <2>2. s = [quantity |-> order.effective, price |-> order.price,
             cumulative |-> order.cumulative, state |-> state]
    BY DEF Snapshot
  <2>3. Snapshot(r.order) = [quantity |-> quantity, price |-> price,
                             cumulative |-> order.cumulative, state |-> state]
    BY <1>7, <1>9, <2>1 DEF Snapshot
  <2> HIDE DEF state
  <2>4. g = [quantity |-> quantity, price |-> price,
             cumulative |-> order.cumulative, state |-> state]
    <3> DEFINE h == [s EXCEPT !.quantity = quantity]
    <3>1. g = [h EXCEPT !.price = price]
      OBVIOUS
    <3>2. h = [quantity |-> quantity, price |-> order.price,
               cumulative |-> order.cumulative, state |-> state]
      BY <2>2
    <3> HIDE DEF g, h
    <3> QED BY <3>1, <3>2
  <2> QED BY <2>3, <2>4 DEF quantity, price, Retermed
<1> QED BY <1>6, <1>7, <1>8, <1>9, <1>10 DEF Moves

\* The acceptance of a cancel.
LEMMA CancelAnswer ==
    ASSUME NEW order, GoodOrder(order), order.state \notin Unresolved,
           NEW i \in Cancels, Awaits(order, i),
           NEW e, e = IntentEvent("cancelled", i), NEW u, u = EvidenceOf(e, "CancelAccepted"),
           NEW r, r = ApplyOrderUpdate(order, u), NEW s, s = Snapshot(order)
    PROVE  /\ ~r.refused /\ GoodOrder(r.order) /\ r.order.state = "Cancelled"
           /\ Snapshot(r.order) = [s EXCEPT !.state = "cancelled"]
<1> DEFINE type == "cancelled"
           kind == "CancelAccepted"
<1>1. i \in Intents
  BY DEF Intents
<1>2. PlainRecord(e)
  <2>1. type # "reconciliation_completed" /\ e = IntentEvent(type, i)
        /\ type \notin {"submission_started", "broker_acknowledged", "broker_rejected"}
    OBVIOUS
  <2> HIDE DEF type
  <2> QED BY <1>1, <2>1, IntentRecords
<1>3. SessionEvidence(u) /\ u.kind = kind
  <2>1. kind \in SessionKinds /\ u = EvidenceOf(e, kind)
    BY DEF SessionKinds
  <2> HIDE DEF kind
  <2> QED BY <1>2, <2>1, RecordEvidence DEF PlainRecord
<1>4. r = OnCancelAccepted(order, u)
  BY <1>3, EvidenceIs
<1>5. order.pending = "Cancel" /\ order.state \in Working
  BY AwaitedIsWorking DEF Awaits
<1>6. ~r.refused
  BY <1>4, <1>5, CancelTaken
<1>7. /\ Moves(order, kind, r.order) /\ r.order.state = "Cancelled"
      /\ r.order.cumulative = order.cumulative
  BY <1>3, <1>4, <1>5, <1>6, CancelAcceptedMoves
<1>8. GoodOrder(r.order) /\ r.order.effective = order.effective /\ r.order.price = order.price
  BY <1>7 DEF Moves
<1>9. RecoveredState["Cancelled"] = "cancelled"
  BY DEF RecoveredState
<1>10. Snapshot(r.order) = [s EXCEPT !.state = "cancelled"]
  BY <1>7, <1>8, <1>9 DEF Snapshot
<1> QED BY <1>6, <1>7, <1>8, <1>10

-----------------------------------------------------------------------------
(* An answer that is taken.                                                *)

\* The session and the broker put the same snapshot in the place of an order.
LEMMA SeenPut ==
    ASSUME NEW m, NEW held, Seen(m, held), NEW o \in DOMAIN m.orders, NEW q,
           q.state \notin Unresolved \cup {"SubmissionStarted"},
           NEW s, s = Snapshot(q), NEW f, f = Put(held, o, s),
           NEW n, n.orders = [m.orders EXCEPT ![o] = q], n.view = f
    PROVE  Seen(n, f)
<1>1. /\ DOMAIN f = DOMAIN held \cup {o} /\ f[o] = s
      /\ \A p \in DOMAIN held \ {o} : f[p] = held[p]
      /\ f = [p \in DOMAIN f |-> f[p]]
  BY DEF Put
<1>2. /\ DOMAIN n.orders = DOMAIN m.orders /\ n.orders[o] = q
      /\ \A p \in DOMAIN m.orders \ {o} : n.orders[p] = m.orders[p]
  OBVIOUS
<1>3. /\ DOMAIN held = {p \in DOMAIN m.orders : m.orders[p].state # "SubmissionStarted"}
      /\ \A p \in DOMAIN held :
           m.orders[p].state \notin Unresolved /\ held[p] = Snapshot(m.orders[p])
  BY DEF Seen
<1>4. DOMAIN f = {p \in DOMAIN n.orders : n.orders[p].state # "SubmissionStarted"}
  BY <1>1, <1>2, <1>3
<1>5. \A p \in DOMAIN f : n.orders[p].state \notin Unresolved /\ f[p] = Snapshot(n.orders[p])
  BY <1>1, <1>2, <1>3
<1> QED BY <1>1, <1>4, <1>5 DEF Seen

\* What the answer to an intent makes of the orders at the broker.
AnsweredOrders(i, held) ==
    IF i \in Places THEN Put(held, OrderOf(i), Placed(Terms[i]))
    ELSE IF i \in Modifies THEN ModifiedAt(held, OrderOf(i), Terms[i])
    ELSE CancelledAt(held, OrderOf(i))

\* A function whose value changes at one key.
LEMMA PutInstead ==
    ASSUME NEW f, f = [p \in DOMAIN f |-> f[p]], NEW o \in DOMAIN f, NEW v,
           NEW g, DOMAIN g = DOMAIN f, g = [p \in DOMAIN g |-> g[p]], g[o] = v,
           \A p \in DOMAIN f \ {o} : g[p] = f[p]
    PROVE  g = Put(f, o, v)
<1> DEFINE h == Put(f, o, v)
<1>1. h = [p \in DOMAIN f |-> IF p = o THEN v ELSE f[p]]
  BY DEF Put
<1> HIDE DEF h
<1>2. DOMAIN h = DOMAIN g /\ \A p \in DOMAIN g : h[p] = g[p]
  BY <1>1
<1>3. h = [p \in DOMAIN g |-> g[p]]
  BY <1>1, <1>2
<1> QED BY <1>3 DEF h

\* The broker's modification of an order replaces its snapshot.
LEMMA ModifiedIsPut ==
    ASSUME NEW f, f = [p \in DOMAIN f |-> f[p]], NEW o \in DOMAIN f, NEW t, NEW s, s = f[o],
           DOMAIN s = {"quantity", "price", "cumulative", "state"}
    PROVE  ModifiedAt(f, o, t) = Put(f, o, Retermed(s, t))
<1> DEFINE quantity == t.quantity
           price == t.price
           one == [s EXCEPT !.quantity = quantity]
           v == [one EXCEPT !.price = price]
           first == [f EXCEPT ![o] = one]
           g == [first EXCEPT ![o] = v]
<1>1. ModifiedAt(f, o, t) = g
  <2>1. ModifiedAt(f, o, t) = [f EXCEPT ![o].quantity = quantity, ![o].price = price]
    BY DEF ModifiedAt
  <2>2. [f EXCEPT ![o].quantity = quantity] = first
    OBVIOUS
  <2>3. first[o] = one
    OBVIOUS
  <2> HIDE DEF quantity, price
  <2>4. [f EXCEPT ![o].quantity = quantity, ![o].price = price] = [first EXCEPT ![o].price = price]
    BY <2>2
  <2>5. [first EXCEPT ![o].price = price] = g
    <3> HIDE DEF first, one
    <3> QED BY <2>3
  <2> QED BY <2>1, <2>4, <2>5
<1> HIDE DEF v, one, quantity, price
<1>2. /\ DOMAIN g = DOMAIN f /\ g = [p \in DOMAIN g |-> g[p]] /\ g[o] = v
      /\ \A p \in DOMAIN f \ {o} : g[p] = f[p]
  OBVIOUS
<1> HIDE DEF g, first
<1>3. g = Put(f, o, v)
  BY <1>2, PutInstead
<1>4. v = Retermed(s, t)
  BY DEF v, one, quantity, price, Retermed
<1> QED BY <1>1, <1>3, <1>4

\* The broker's cancellation of an order replaces its snapshot.
LEMMA CancelledIsPut ==
    ASSUME NEW f, f = [p \in DOMAIN f |-> f[p]], NEW o \in DOMAIN f, NEW s, s = f[o]
    PROVE  CancelledAt(f, o) = Put(f, o, [s EXCEPT !.state = "cancelled"])
<1> DEFINE v == [s EXCEPT !.state = "cancelled"]
           g == [f EXCEPT ![o] = v]
<1>1. CancelledAt(f, o) = g
  BY DEF CancelledAt
<1> HIDE DEF v
<1>2. /\ DOMAIN g = DOMAIN f /\ g = [p \in DOMAIN g |-> g[p]] /\ g[o] = v
      /\ \A p \in DOMAIN f \ {o} : g[p] = f[p]
  OBVIOUS
<1> HIDE DEF g
<1>3. g = Put(f, o, v)
  BY <1>2, PutInstead
<1> QED BY <1>1, <1>3 DEF v

\* The answer to an awaited intent is acknowledged by the order, and leaves the
\* snapshot of it in the place of the order.
LEMMA AnswerTaken ==
    ASSUME NEW m, GoodOrders(m.orders), NEW held, Seen(m, held), NEW i \in Intents,
           NEW o, o = OrderOf(i), o \in DOMAIN m.orders, NEW order, order = m.orders[o],
           Awaits(order, i),
           NEW type, type = OutcomeType(i, "Acknowledged"),
           NEW r, r = ApplyOrderUpdate(order, EvidenceOf(IntentEvent(type, i), EvidenceKind[type]))
    PROVE  /\ ~r.refused /\ GoodOrder(r.order)
           /\ r.order.state \notin Unresolved \cup {"SubmissionStarted"}
           /\ AnsweredOrders(i, held) = Put(held, o, Snapshot(r.order))
<1>1. GoodOrder(order)
  BY DEF GoodOrders
<1>2. CASE i \in Places
  <2>1. type = "broker_acknowledged" /\ EvidenceKind[type] = "BrokerAcknowledged"
    BY <1>2 DEF OutcomeType, EvidenceKind
  <2>2. /\ ~r.refused /\ GoodOrder(r.order)
        /\ r.order.state \notin Unresolved \cup {"SubmissionStarted"}
        /\ Snapshot(r.order) = Placed(Terms[i])
    BY <1>1, <1>2, <2>1, PlaceAnswer
  <2> QED BY <1>2, <2>2 DEF AnsweredOrders
<1>3. CASE i \in Modifies \cup Cancels
  <2> DEFINE s == Snapshot(order)
  <2>1. order.state # "SubmissionStarted"
    BY <1>1, <1>3 DEF GoodOrder, Awaits, Working, Unresolved
  <2>2. o \in DOMAIN held /\ held[o] = s /\ order.state \notin Unresolved
        /\ held = [p \in DOMAIN held |-> held[p]]
    BY <2>1 DEF Seen
  <2>3. DOMAIN s = {"quantity", "price", "cumulative", "state"}
    BY DEF Snapshot
  <2>4. i \notin Places
    BY <1>3, IntentsAssumption
  <2>5. CASE i \in Modifies
    <3>1. type = "modified" /\ EvidenceKind[type] = "ModifyAccepted"
      BY <2>4, <2>5 DEF OutcomeType, EvidenceKind
    <3> DEFINE v == Retermed(s, Terms[i])
    <3>2. /\ ~r.refused /\ GoodOrder(r.order) /\ r.order.state \in Working /\ Snapshot(r.order) = v
      BY <1>1, <2>2, <2>5, <3>1, ModifyAnswer
    <3>3. ModifiedAt(held, o, Terms[i]) = Put(held, o, v)
      <4> HIDE DEF s
      <4> QED BY <2>2, <2>3, ModifiedIsPut
    <3>4. r.order.state \notin Unresolved \cup {"SubmissionStarted"}
      BY <3>2 DEF Working, Unresolved
    <3> HIDE DEF v
    <3> QED BY <2>4, <2>5, <3>2, <3>3, <3>4 DEF AnsweredOrders
  <2>6. CASE i \in Cancels
    <3>1. i \notin Modifies
      BY <2>6, IntentsAssumption
    <3>2. type = "cancelled" /\ EvidenceKind[type] = "CancelAccepted"
      BY <2>4, <3>1 DEF OutcomeType, EvidenceKind
    <3> DEFINE v == [s EXCEPT !.state = "cancelled"]
    <3>3. /\ ~r.refused /\ GoodOrder(r.order) /\ r.order.state = "Cancelled" /\ Snapshot(r.order) = v
      BY <1>1, <2>2, <2>6, <3>2, CancelAnswer
    <3>4. CancelledAt(held, o) = Put(held, o, v)
      <4> HIDE DEF s
      <4> QED BY <2>2, CancelledIsPut
    <3>5. r.order.state \notin Unresolved \cup {"SubmissionStarted"}
      BY <3>3 DEF Unresolved
    <3> HIDE DEF v
    <3> QED BY <2>4, <3>1, <3>3, <3>4, <3>5 DEF AnsweredOrders
  <2> QED BY <1>3, <2>5, <2>6
<1> QED BY <1>2, <1>3 DEF Intents

\* The broker acknowledges what its order awaits.
LEMMA ReplyAcknowledges ==
    ASSUME Seen(mem, broker.orders), GoodOrders(mem.orders), broker.health = "Ready",
           NEW i \in Intents, NEW o, o = OrderOf(i), o \in DOMAIN mem.orders,
           NEW order, order = mem.orders[o], Awaits(order, i), NEW reply, reply = BrokerReply(i)
    PROVE  reply.status = "Acknowledged" /\ reply.orders = AnsweredOrders(i, broker.orders)
<1> DEFINE before == broker.orders
           known == o \in DOMAIN before
           put == Put(before, o, Placed(Terms[i]))
           modified == ModifiedAt(before, o, Terms[i])
           cancelled == CancelledAt(before, o)
           s == Snapshot(order)
<1>1. GoodOrder(order)
  BY DEF GoodOrders
<1>2. /\ known <=> order.state # "SubmissionStarted"
      /\ known => before[o] = s /\ order.state \notin Unresolved
  BY DEF Seen
<1>3. i \in Modifies \cup Cancels =>
        /\ known /\ before[o] = s /\ s.state \notin BrokerTerminal /\ s.cumulative = order.cumulative
  <2> SUFFICES ASSUME i \in Modifies \cup Cancels
               PROVE  /\ known /\ before[o] = s /\ s.state \notin BrokerTerminal
                      /\ s.cumulative = order.cumulative
    OBVIOUS
  <2>1. order.state # "SubmissionStarted"
    BY <1>1 DEF GoodOrder, Awaits, Working, Unresolved
  <2>2. known /\ before[o] = s /\ order.state \notin Unresolved
    BY <1>2, <2>1
  <2>3. order.state \in Working
    BY <1>1, <2>2, AwaitedIsWorking
  <2>4. s.state \notin BrokerTerminal
    <3>1. order.state \notin Unresolved \cup {"SubmissionStarted"}
      BY <2>1, <2>2
    <3> QED BY <1>1, <2>3, <3>1, WorkingSnapshot
  <2>5. s.cumulative = order.cumulative
    BY DEF Snapshot
  <2> QED BY <2>2, <2>4, <2>5
<1> HIDE DEF s
<1>4. CASE i \in Places
  <2>1. i \notin Modifies /\ i \notin Cancels
    BY <1>4, IntentsAssumption
  <2>2. ~known
    BY <1>2, <1>4 DEF Awaits
  <2>3. reply = Reply("Acknowledged", put)
    BY <1>4, <2>1, <2>2 DEF BrokerReply
  <2> HIDE DEF put
  <2>4. reply.status = "Acknowledged" /\ reply.orders = put
    BY <2>3 DEF Reply
  <2> QED BY <1>4, <2>4 DEF AnsweredOrders, put
<1>5. CASE i \in Modifies
  <2>1. i \notin Places /\ i \notin Cancels
    BY <1>5, IntentsAssumption
  <2>2. order.cumulative \in Nat /\ Terms[i].quantity \in Nat /\ Terms[i].quantity > order.cumulative
    BY <1>1, <1>5, TermsAssumption DEF Awaits, GoodOrder
  <2>3. known /\ before[o].state \notin BrokerTerminal
        /\ ~(Terms[i].quantity < before[o].cumulative)
    BY <1>3, <1>5, <2>2
  <2>4. reply = Reply("Acknowledged", modified)
    BY <1>5, <2>1, <2>3 DEF BrokerReply, ModifiedAt
  <2> HIDE DEF modified
  <2>5. reply.status = "Acknowledged" /\ reply.orders = modified
    BY <2>4 DEF Reply
  <2> QED BY <1>5, <2>1, <2>5 DEF AnsweredOrders, modified
<1>6. CASE i \in Cancels
  <2>1. i \notin Places /\ i \notin Modifies
    BY <1>6, IntentsAssumption
  <2>2. known /\ before[o].state \notin BrokerTerminal
    BY <1>3, <1>6
  <2>3. reply = Reply("Acknowledged", cancelled)
    BY <1>6, <2>1, <2>2 DEF BrokerReply, CancelledAt
  <2> HIDE DEF cancelled
  <2>4. reply.status = "Acknowledged" /\ reply.orders = cancelled
    BY <2>3 DEF Reply
  <2> QED BY <1>6, <2>1, <2>4 DEF AnsweredOrders, cancelled
<1> QED BY <1>4, <1>5, <1>6 DEF Intents

\* The ledger moves its order as the session moved its own.
LEMMA LedgerTakes ==
    ASSUME NEW d, GoodReplay(d), NEW m, Same(m, d), m.lastUpdate \in Nat,
           NEW e, TypedRecord(e), e.type \in DOMAIN EvidenceKind,
           d.faulty \/ e.intent \in DOMAIN d.intents,
           NEW o, o = e.order, o \in DOMAIN m.orders,
           e.sequence = 0 \/ e.sequence > m.lastUpdate,
           NEW r, r = ApplyOrderUpdate(m.orders[o], EvidenceOf(e, EvidenceKind[e.type])),
           ~r.refused,
           NEW n, n.orders = [m.orders EXCEPT ![o] = r.order], n.received = m.received,
           n.blocked = m.blocked,
           n.lastUpdate = IF e.sequence = 0 THEN m.lastUpdate ELSE e.sequence
    PROVE  Same(n, ReplayRecord(d, e))
<1> DEFINE t == ReplayRecord(d, e)
           known == DOMAIN m.received
<1>1. CASE d.faulty
  <2>1. t = d
    BY <1>1, FaultyStays
  <2> QED BY <1>1, <2>1 DEF Same
<1>2. CASE ~d.faulty
  <2>1. /\ Matches(d, m.orders, m.lastUpdate, known)
        /\ d.orders = m.orders /\ d.lastUpdate = m.lastUpdate
        /\ DOMAIN m.orders \subseteq DOMAIN d.intents /\ e.intent \in DOMAIN d.intents
    BY <1>2 DEF Same, Matches
  <2>2. Answer(d, e) = r
    BY <2>1 DEF Answer
  <2>3. e.type # "submission_started" /\ e.type # "intent_received" /\ e.type \notin Decisions
    BY DEF EvidenceKind, Decisions
  <2>4. Clean(d, e)
    BY <2>1, <2>2, <2>3 DEF Clean, Legal
  <2>5. ~SourceFault(d, e)
    BY <2>1 DEF SourceFault, TypedRecord
  <2>6. OrdersAfter(d, e) = n.orders
    BY <2>1, <2>2, <2>3 DEF OrdersAfter
  <2>7. DOMAIN OrdersAfter(d, e) \subseteq DOMAIN d.intents
    BY <2>1, <2>6
  <2> HIDE DEF t, known
  <2>8. Matches(t, OrdersAfter(d, e), IF e.sequence = 0 THEN m.lastUpdate ELSE e.sequence, known)
    BY <2>1, <2>3, <2>4, <2>5, <2>7, RecordMatches DEF t
  <2>9. Matches(t, n.orders, n.lastUpdate, known)
    BY <2>6, <2>8
  <2>10. ~t.faulty
    BY <2>9 DEF Matches
  <2> QED BY <2>9, <2>10 DEF Same, t, known
<1> QED BY <1>1, <1>2

\* What the view of the session becomes.
LEMMA ViewAfterIs ==
    ASSUME NEW i \in Intents, NEW type, type = OutcomeType(i, "Acknowledged")
    PROVE  ViewAfter(type, i) = AnsweredOrders(i, mem.view)
<1>1. CASE i \in Places
  <2>1. type = "broker_acknowledged"
    BY <1>1 DEF OutcomeType
  <2> QED BY <1>1, <2>1 DEF ViewAfter, AnsweredOrders
<1>2. CASE i \in Modifies
  <2>1. i \notin Places
    BY <1>2, IntentsAssumption
  <2>2. type = "modified"
    BY <1>2, <2>1 DEF OutcomeType
  <2> QED BY <1>2, <2>1, <2>2 DEF ViewAfter, AnsweredOrders, ModifiedAt
<1>3. CASE i \in Cancels
  <2>1. i \notin Places /\ i \notin Modifies
    BY <1>3, IntentsAssumption
  <2>2. type = "cancelled"
    BY <1>3, <2>1 DEF OutcomeType
  <2> QED BY <1>3, <2>1, <2>2 DEF ViewAfter, AnsweredOrders, CancelledAt
<1> QED BY <1>1, <1>2, <1>3 DEF Intents

\* An attempt that reaches the broker (SubmitCalled).
LEMMA SubmitCalledJudged ==
    ASSUME IInv, Backed, phase \in {"up", "draining"}, Judged(mem, slot, broker, durable),
           NEW i \in Intents, i = slot.intent, NEW acknowledged \in BOOLEAN,
           Sound(SubmitCalled(i, acknowledged))
    PROVE  Judges(SubmitCalled(i, acknowledged))
<1> DEFINE o == OrderOf(i)
           reply == BrokerReply(i)
           b == [broker EXCEPT !.orders = reply.orders]
           type == OutcomeType(i, reply.status)
           event == IntentEvent(type, i)
           kind == EvidenceKind[event.type]
           order == mem.orders[o]
           result == ApplyOrderUpdate(order, EvidenceOf(event, kind))
           uncertain == result.refused \/ reply.status = "Ambiguous" \/ ~acknowledged
           a == SafetyStop(i, o)
           refusal == IF result.refused THEN <<a>> ELSE << >>
           told == Append(refusal, event)
           stop == IF acknowledged THEN << >> ELSE StopOnceEvents(mem)
           stops == IF uncertain THEN Append(stop, a) ELSE << >>
           e == told \o stops
           view == ViewAfter(event.type, i)
           applied == [mem EXCEPT !.orders[o] = result.order, !.view = view]
           m == IF uncertain
                THEN SafetyStopped(IF acknowledged THEN mem ELSE StopOnce(mem, "other"))
                ELSE applied
           answered == Outcome(e, m, EmptySlot)
           out == SubmitCalled(i, acknowledged)
<1>1. out = WithCall(answered, i, 0, b)
  BY DEF SubmitCalled, Answered
<1>2. Replied(i, reply)
  BY BrokerReplyIs
<1>3. o \in DOMAIN mem.orders /\ i # NoId
  BY OrdersOfPlaces DEF Backed, Shape
<1>4. b.health = broker.health /\ b.orders = reply.orders
  <2>1. DOMAIN broker = {"health", "orders"}
    BY DEF IInv, Session, GoodBroker
  <2> HIDE DEF reply
  <2> QED BY <2>1
<1>5. /\ DOMAIN answered = OutcomeFields /\ answered.events = e /\ answered.mem = m
      /\ answered.slot = EmptySlot
  <2> HIDE DEF e, m
  <2> QED BY DEF Outcome, OutcomeFields
<1> HIDE DEF answered, b, e, m
<1>6. out.events = e /\ out.mem = m /\ out.slot = EmptySlot /\ out.broker = b
  BY <1>1, <1>5 DEF WithCall, OutcomeFields
<1> HIDE DEF out
<1>7. CASE ~acknowledged
  <2>1. m = SafetyStopped(StopOnce(mem, "other"))
    BY <1>7 DEF m
  <2>2. out.mem = SafetyStopped(StopOnce(mem, "other")) /\ out.broker.health = broker.health
    BY <1>4, <1>6, <2>1
  <2>3. Judges(out)
    BY <1>3, <2>2, StoppedTwiceJudged
  <2> QED BY <2>3 DEF out
<1>8. CASE acknowledged /\ reply.status = "Ambiguous"
  <2>1. broker.health # "Ready"
    BY <1>2, <1>8 DEF Replied
  <2>2. m = SafetyStopped(mem)
    BY <1>8 DEF m
  <2>3. m.safety
    BY <2>2, SafetyStoppedIs DEF IInv, Session
  <2>4. Judges(out)
    BY <1>4, <1>6, <2>1, <2>3 DEF Judges, Judged
  <2> QED BY <2>4 DEF out
<1>9. CASE mem.reason = "other"
  <2>1. KeepsStops(mem, out.mem)
    BY DEF Sound, PartsSound, out
  <2>2. Judges(out)
    BY <1>9, <2>1, StoppedJudged DEF KeepsStops
  <2> QED BY <2>2 DEF out
<1>10. CASE acknowledged /\ reply.status # "Ambiguous" /\ mem.reason # "other"
  <2>1. broker.health = "Ready"
    BY <1>2, <1>10 DEF Replied
  <2>2. Same(mem, durable) /\ Seen(mem, broker.orders) /\ Staged(mem, slot, durable)
    BY <1>10, <2>1 DEF Judged, Agrees
  <2>3. Awaits(order, i) /\ (durable.faulty \/ i \in DOMAIN durable.intents)
    BY <1>3, <2>2 DEF Staged
  <2>4. GoodOrders(mem.orders) /\ mem.lastUpdate \in Nat /\ DOMAIN mem = MemFields
    BY DEF Backed, Shape, IInv, Session, GoodMem
  <2>5. reply.status = "Acknowledged" /\ reply.orders = AnsweredOrders(i, broker.orders)
    BY <1>3, <2>1, <2>2, <2>3, <2>4, ReplyAcknowledges
  <2> DEFINE status == reply.status
             after == reply.orders
  <2>6. /\ TypedRecord(event) /\ event.type = type /\ type \in DOMAIN EvidenceKind
        /\ event.intent = i /\ event.order = o /\ event.sequence = 0
        /\ type = OutcomeType(i, "Acknowledged")
    <3>1. status \in {"Ambiguous", "Rejected", "Acknowledged"} /\ type = OutcomeType(i, status)
          /\ status = "Acknowledged"
      BY <2>5
    <3> HIDE DEF status, type
    <3>2. PlainRecord(event) /\ event.type = type /\ type \in DOMAIN EvidenceKind
      BY <3>1, OutcomeRecords
    <3>3. event.intent = i /\ event.order = o /\ event.sequence = 0
      BY IntentRecords
    <3> QED BY <3>1, <3>2, <3>3 DEF PlainRecord
  <2>7. view = AnsweredOrders(i, mem.view)
    <3> HIDE DEF type, reply
    <3> QED BY <2>6, ViewAfterIs
  <2> HIDE DEF status, after, reply, type, event, view
  <2>8. result = ApplyOrderUpdate(order, EvidenceOf(event, EvidenceKind[event.type]))
        /\ result = ApplyOrderUpdate(order, EvidenceOf(IntentEvent(type, i), EvidenceKind[type]))
    BY <2>6 DEF event
  <2> HIDE DEF result
  <2>9. /\ ~result.refused /\ GoodOrder(result.order)
        /\ result.order.state \notin Unresolved \cup {"SubmissionStarted"}
        /\ AnsweredOrders(i, broker.orders) = Put(broker.orders, o, Snapshot(result.order))
    <3> HIDE DEF order
    <3>1. order = mem.orders[o]
      BY DEF order
    <3> HIDE DEF o
    <3>2. o = OrderOf(i)
      BY DEF o
    <3> QED BY <1>3, <2>2, <2>3, <2>4, <2>6, <2>8, <3>1, <3>2, AnswerTaken
  <2>10. m = [mem EXCEPT !.orders[o] = result.order, !.view = view]
    BY <1>10, <2>9 DEF m
  <2>11. e = <<event>>
    <3> DEFINE none == << >>
               one == <<event>>
    <3>1. refusal = none /\ stops = none
      BY <1>10, <2>9
    <3>2. Append(none, event) = one
      OBVIOUS
    <3>3. IsSequence(one)
      BY FewRecords
    <3> HIDE DEF one, refusal, stops
    <3>4. told = one
      BY <3>1, <3>2
    <3> HIDE DEF told
    <3>5. e = one \o stops
      BY <3>4 DEF e
    <3> QED BY <3>1, <3>3, <3>5, JoinedFew DEF one
  <2> HIDE DEF o, order
  <2>12. /\ m.orders = [mem.orders EXCEPT ![o] = result.order] /\ m.view = view
         /\ m.lastUpdate = mem.lastUpdate /\ m.received = mem.received /\ m.blocked = mem.blocked
    BY <2>4, <2>10 DEF MemFields
  <2>13. GoodReplay(durable) /\ order = mem.orders[o]
    BY DEF IInv, Recorded, order
  <2>14. Same(m, ReplayRecord(durable, event))
    BY <1>3, <2>2, <2>3, <2>4, <2>6, <2>8, <2>9, <2>12, <2>13, LedgerTakes
  <2>15. Replay(durable, e) = ReplayRecord(durable, event)
    BY <2>11, ReplayFew
  <2> DEFINE f == AnsweredOrders(i, broker.orders)
  <2>16. b.orders = f /\ m.view = f
    BY <1>4, <2>2, <2>5, <2>7, <2>12 DEF Seen
  <2>17. f = Put(broker.orders, o, Snapshot(result.order))
    BY <2>9
  <2> HIDE DEF f
  <2>18. Seen(m, f)
    BY <1>3, <2>2, <2>9, <2>12, <2>16, <2>17, SeenPut
  <2>19. EmptySlot.intent = NoId
    BY DEF EmptySlot
  <2>20. Judges(out)
    BY <1>6, <2>14, <2>15, <2>16, <2>18, <2>19 DEF Judges, Judged, Agrees, Staged
  <2> QED BY <2>20 DEF out
<1> QED BY <1>7, <1>8, <1>9, <1>10

\* process_next_broker_submission() and submit_prepared().
LEMMA SubmitBelieves ==
    ASSUME IInv, Backed, Believes, Submit
    PROVE  Believes'
<1> DEFINE i == slot.intent
<1>1. phase \in {"up", "draining"} /\ slot # EmptySlot
  BY DEF Submit
<1>2. PICK outcome \in SubmitOutcomes(i) : RunCollected(outcome)
  BY DEF Submit
<1>3. /\ slot \in [intent : Intents \cup {NoId}, current : BOOLEAN]
      /\ slot.intent # NoId
      /\ ~slot.current => mem.reason # "none"
      /\ slot.intent \in Places \cup Modifies /\ ~mem.ready => mem.reason # "none"
  BY <1>1 DEF IInv, Session, GoodSlot
<1>4. i \in Intents /\ Judged(mem, slot, broker, durable)
  BY <1>1, <1>3 DEF Believes
<1>5. Sound(outcome)
  BY <1>1, SubmitSound DEF IInv
<1>6. \/ outcome = SubmitRevoked(i) /\ (~slot.current \/ (~mem.ready /\ i \notin Cancels))
      \/ outcome = SubmitUnacknowledged(i)
      \/ \E acknowledged \in BOOLEAN : outcome = SubmitCalled(i, acknowledged)
  BY DEF SubmitOutcomes
<1>7. Judges(outcome)
  <2>1. CASE outcome = SubmitRevoked(i) /\ (~slot.current \/ (~mem.ready /\ i \notin Cancels))
    <3>1. mem.reason # "none"
      BY <1>3, <1>4, <2>1 DEF Intents
    <3> QED BY <1>3, <1>4, <2>1, <3>1, SubmitRevokedJudged
  <2>2. CASE outcome = SubmitUnacknowledged(i)
    <3> DEFINE q == Append(StopOnceEvents(mem), SafetyStop(i, OrderOf(i)))
               m == SafetyStopped(StopOnce(mem, "other"))
               out == Outcome(q, m, EmptySlot)
    <3>1. outcome = out
      BY <2>2 DEF SubmitUnacknowledged
    <3> HIDE DEF q, m
    <3>2. out.mem = m /\ out.broker = broker
      BY OutcomeIs
    <3> HIDE DEF out
    <3>3. outcome.mem = SafetyStopped(StopOnce(mem, "other"))
          /\ outcome.broker.health = broker.health
      BY <3>1, <3>2 DEF m
    <3> QED BY <1>1, <1>3, <1>4, <3>3, StoppedTwiceJudged
  <2>3. CASE \E acknowledged \in BOOLEAN : outcome = SubmitCalled(i, acknowledged)
    <3>1. PICK acknowledged \in BOOLEAN : outcome = SubmitCalled(i, acknowledged)
      BY <2>3
    <3>2. Sound(SubmitCalled(i, acknowledged))
      BY <1>5, <3>1
    <3>3. Judges(SubmitCalled(i, acknowledged))
      BY <1>1, <1>4, <3>2, SubmitCalledJudged
    <3> QED BY <3>1, <3>3
  <2> QED BY <1>6, <2>1, <2>2, <2>3
<1> QED BY <1>2, <1>5, <1>7, RunCollectedJudged

-----------------------------------------------------------------------------
(* A new intent (prepare_intent).                                          *)

\* What an attempt to modify or to cancel leaves alone, and what it leaves
\* pending (on_modify_requested, on_cancel_requested).
LEMMA AttemptIs ==
    ASSUME IInv, Backed, NEW i \in Intents, i \notin Places, NEW o, o = OrderOf(i),
           o \in DOMAIN mem.orders, NEW order, order = mem.orders[o],
           NEW r, r = AttemptTransition(i), ~r.refused, NEW q, q = r.order
    PROVE  /\ GoodOrder(q) /\ q.state = order.state /\ q.state \in Working
           /\ q.effective = order.effective /\ q.price = order.price
           /\ q.cumulative = order.cumulative
           /\ i \in Modifies => /\ q.pending = "Modify"
                                /\ q.pendingQuantity = Terms[i].quantity
                                /\ q.pendingPrice = Terms[i].price
           /\ i \in Cancels => q.pending = "Cancel"
<1> DEFINE type == AttemptType(i)
           kind == EvidenceKind[type]
           e == IntentEvent(type, i)
           u == EvidenceOf(e, kind)
<1>1. /\ i \in Modifies => type = "modify_requested" /\ i \notin Cancels
      /\ i \in Cancels => type = "cancel_requested" /\ i \notin Modifies
      /\ i \in Modifies \/ i \in Cancels
  BY OrdersOfPlaces, IntentsAssumption DEF AttemptType
<1>2. /\ type = "modify_requested" => kind = "ModifyRequested"
      /\ type = "cancel_requested" => kind = "CancelRequested"
      /\ type \in DOMAIN EvidenceKind
  <2> HIDE DEF type
  <2> QED BY <1>1 DEF EvidenceKind, type
<1>3. r = ApplyOrderUpdate(order, u)
  BY DEF AttemptTransition
<1> HIDE DEF type
<1>4. TypedRecord(e) /\ e.intent = i
      /\ (i \in Modifies => e.quantity = Terms[i].quantity /\ e.price = Terms[i].price)
  <2>1. /\ type # "reconciliation_completed"
        /\ type \notin {"submission_started", "broker_acknowledged", "broker_rejected"}
    BY <1>1
  <2> QED BY <1>1, <2>1, IntentRecords DEF PlainRecord
<1> HIDE DEF e
<1>5. /\ SessionEvidence(u) /\ u.kind = kind
      /\ (i \in Modifies => u.quantity = Terms[i].quantity /\ u.price = Terms[i].price)
  BY <1>2, <1>4, RecordKinds, RecordEvidence
<1> HIDE DEF u, kind
<1>6. GoodOrder(order)
  BY DEF Backed, Shape, GoodOrders
<1>7. /\ u.kind = "ModifyRequested" => r = OnModifyRequested(order, u)
      /\ u.kind = "CancelRequested" => r = OnCancelRequested(order, u)
  BY <1>3, <1>5, <1>6, EvidenceIs
<1>8. CASE i \in Modifies
  <2>1. r = OnModifyRequested(order, u)
    BY <1>1, <1>2, <1>5, <1>7, <1>8
  <2>2. /\ Moves(order, "ModifyRequested", r.order)
        /\ order.state \in Working /\ r.order.state = order.state
        /\ r.order.pending = "Modify" /\ r.order.cumulative = order.cumulative
        /\ r.order.pendingQuantity = u.quantity /\ r.order.pendingPrice = u.price
    BY <1>5, <1>6, <2>1, ModifyRequestedMoves
  <2> QED BY <1>1, <1>5, <1>8, <2>2 DEF Moves
<1>9. CASE i \in Cancels
  <2>1. r = OnCancelRequested(order, u)
    BY <1>1, <1>2, <1>5, <1>7, <1>9
  <2>2. /\ Moves(order, "CancelRequested", r.order)
        /\ order.state \in Working /\ r.order.state = order.state
        /\ r.order.pending = "Cancel" /\ r.order.cumulative = order.cumulative
    BY <1>5, <1>6, <2>1, CancelRequestedMoves
  <2> QED BY <1>1, <1>9, <2>2 DEF Moves
<1> QED BY <1>1, <1>8, <1>9

\* A session that is not blocked has never heard of a place it has not received.
LEMMA NewPlace ==
    ASSUME Same(mem, durable), NEW i \in Places, ~mem.blocked, i \notin DOMAIN mem.received
    PROVE  i \notin DOMAIN mem.orders
BY DEF Same, Matches, Intents

\* Members that differ in what the session has received.
SameButReceived(m, i) ==
    /\ m.orders = mem.orders /\ m.view = mem.view /\ m.lastUpdate = mem.lastUpdate
    /\ m.blocked = mem.blocked /\ DOMAIN m.received = DOMAIN mem.received \cup {i}

\* The records of a new intent up to its decision, and the ledger after them.
LEMMA DecisionReplayed ==
    ASSUME IInv, Same(mem, durable), NEW i \in Intents, i \notin DOMAIN mem.received,
           NEW a, TypedRecord(a), a.type = "intent_received", a.intent = i, a.sequence = 0,
           NEW b, TypedRecord(b), b.type \in Mapping, b.intent = i, b.sequence = 0,
           NEW c, TypedRecord(c), c.type \in Decisions, c.intent = i, c.sequence = 0,
           NEW p, p = <<a, b>>, NEW q, q = Append(p, c), NEW u, u = Replay(durable, q),
           NEW m, SameButReceived(m, i)
    PROVE  /\ IsSequence(q) /\ GoodReplay(u) /\ Follows(durable, u) /\ Same(m, u)
           /\ u.faulty \/ i \in DOMAIN u.intents
<1>1. IsSequence(p) /\ Len(q) \in Nat /\ IsSequence(q)
  BY TwoRecords, AppendedSequences
<1>2. GoodReplay(durable)
  BY DEF IInv, Recorded
<1>3. GoodReplay(u) /\ Follows(durable, u)
  BY <1>1, <1>2, ReplayIsSound DEF ReplaySound
<1> DEFINE t == Replay(durable, p)
<1>4. u = ReplayRecord(t, c)
  BY <1>1, ReplayAppended
<1>5. CASE durable.faulty
  BY <1>1, <1>3, <1>5 DEF Follows, Same, SameButReceived
<1>6. CASE ~durable.faulty
  <2> DEFINE known == DOMAIN mem.received
             wider == DOMAIN m.received
  <2>1. Matches(durable, mem.orders, mem.lastUpdate, known)
    BY <1>6 DEF Same
  <2>2. i # NoId /\ i \notin DOMAIN durable.intents
    BY <2>1, OrdersOfPlaces DEF Matches
  <2>3. t = Replay(durable, <<a, b>>) /\ wider = known \cup {i}
    BY DEF SameButReceived
  <2> HIDE DEF known, wider, t
  <2>4. Matches(u, mem.orders, mem.lastUpdate, wider) /\ i \in DOMAIN u.intents
    BY <1>2, <1>4, <2>1, <2>2, <2>3, DecidedMatches
  <2>5. ~u.faulty
    BY <2>4 DEF Matches
  <2> QED BY <1>1, <1>3, <2>4, <2>5 DEF Same, SameButReceived, wider
<1> QED BY <1>5, <1>6

\* The record of an attempt, and the order the session and the ledger then hold.
LEMMA AttemptReplayed ==
    ASSUME IInv, Backed, NEW i \in Intents, NEW u, GoodReplay(u), u.faulty \/ i \in DOMAIN u.intents,
           NEW m, Same(m, u), m.orders = mem.orders, m.lastUpdate = mem.lastUpdate,
           i \in Places => i \notin DOMAIN mem.orders,
           NEW o, o = OrderOf(i), i \notin Places => o \in DOMAIN mem.orders,
           NEW r, r = AttemptTransition(i), ~r.refused,
           NEW e, e = IntentEvent(AttemptType(i), i),
           NEW n, n.orders = Put(m.orders, o, r.order), n.lastUpdate = m.lastUpdate,
           n.received = m.received, n.blocked = m.blocked
    PROVE  Same(n, ReplayRecord(u, e))
<1> DEFINE type == AttemptType(i)
           t == ReplayRecord(u, e)
<1>1. /\ i \in Places => type = "submission_started"
      /\ i \in Modifies => type = "modify_requested"
      /\ i \in Cancels => type = "cancel_requested"
      /\ i \notin Places => type \in DOMAIN EvidenceKind
      /\ type # "reconciliation_completed"
      /\ type \in {"submission_started", "broker_acknowledged", "broker_rejected"} => i \in Places
  BY OrdersOfPlaces, IntentsAssumption DEF AttemptType, EvidenceKind
<1>2. e = IntentEvent(type, i)
  OBVIOUS
<1> HIDE DEF type
<1>3. /\ TypedRecord(e) /\ e.type = type /\ e.intent = i /\ e.order = o /\ e.sequence = 0
      /\ e.side = "Buy"
      /\ i \in Places => e.quantity = Terms[i].quantity /\ e.price = Terms[i].price
  BY <1>1, <1>2, OrdersOfPlaces, IntentRecords DEF PlainRecord
<1>4. CASE i \notin Places
  <2>1. r = ApplyOrderUpdate(m.orders[o], EvidenceOf(e, EvidenceKind[e.type]))
    BY <1>3, <1>4 DEF AttemptTransition, type
  <2>2. n.orders = [m.orders EXCEPT ![o] = r.order]
    BY <1>4 DEF Put
  <2>3. m.lastUpdate \in Nat /\ o \in DOMAIN m.orders
    BY <1>4 DEF Backed, Shape
  <2>4. e.type \in DOMAIN EvidenceKind
    BY <1>1, <1>3, <1>4
  <2> QED BY <1>3, <2>1, <2>2, <2>3, <2>4, LedgerTakes
<1>5. CASE i \in Places /\ u.faulty
  <2>1. t = u
    BY <1>5, FaultyStays
  <2> QED BY <1>5, <2>1 DEF Same
<1>6. CASE i \in Places /\ ~u.faulty
  <2> DEFINE known == DOMAIN m.received
  <2>1. Matches(u, m.orders, m.lastUpdate, known) /\ u.orders = m.orders /\ ~u.faulty
        /\ DOMAIN m.orders \subseteq DOMAIN u.intents /\ i \in DOMAIN u.intents
    BY <1>6 DEF Same, Matches
  <2>2. Submitted(e) = r
    BY <1>2, <1>3, <1>6 DEF Submitted, AttemptTransition, type
  <2>3. o = i
    BY <1>6, OrdersOfPlaces
  <2>4. e.type \notin DOMAIN EvidenceKind /\ e.type \notin Decisions
        /\ e.type = "submission_started" /\ e.type # "intent_received"
    BY <1>1, <1>3, <1>6, RecordTypes DEF Decisions
  <2>5. Clean(u, e)
    BY <1>3, <1>6, <2>1, <2>2, <2>3, <2>4 DEF Clean, Legal
  <2>6. ~SourceFault(u, e)
    BY <1>3 DEF SourceFault
  <2>7. OrdersAfter(u, e) = n.orders
    BY <1>3, <2>1, <2>2, <2>4 DEF OrdersAfter
  <2>8. DOMAIN OrdersAfter(u, e) \subseteq DOMAIN u.intents
    BY <2>1, <2>3, <2>7 DEF Put
  <2> HIDE DEF t, known
  <2>9. Matches(t, OrdersAfter(u, e), IF e.sequence = 0 THEN m.lastUpdate ELSE e.sequence, known)
    BY <1>3, <2>1, <2>4, <2>5, <2>6, <2>8, RecordMatches DEF t
  <2>10. Matches(t, n.orders, n.lastUpdate, known)
    BY <1>3, <2>7, <2>9
  <2>11. ~t.faulty
    BY <2>10 DEF Matches
  <2> QED BY <2>10, <2>11 DEF Same, t, known
<1> QED BY <1>4, <1>5, <1>6

\* The view of the broker does not move while an attempt is recorded.
LEMMA AttemptSeen ==
    ASSUME IInv, Backed, NEW held, Seen(mem, held), NEW i \in Intents,
           i \in Places => i \notin DOMAIN mem.orders,
           NEW o, o = OrderOf(i), i \notin Places => o \in DOMAIN mem.orders,
           NEW r, r = AttemptTransition(i), ~r.refused,
           NEW n, n.orders = Put(mem.orders, o, r.order), n.view = mem.view
    PROVE  Seen(n, held)
<1> DEFINE q == r.order
<1>1. /\ DOMAIN n.orders = DOMAIN mem.orders \cup {o} /\ n.orders[o] = q
      /\ \A p \in DOMAIN mem.orders \ {o} : n.orders[p] = mem.orders[p]
  BY DEF Put
<1>2. CASE i \in Places
  <2>1. o = i /\ o \notin DOMAIN mem.orders
    BY <1>2, OrdersOfPlaces
  <2>2. q.state = "SubmissionStarted"
    BY <1>2, TransitionGood DEF AttemptMoves, Submission
  <2> HIDE DEF q
  <2> QED BY <1>1, <2>1, <2>2 DEF Seen
<1>3. CASE i \notin Places
  <2> DEFINE order == mem.orders[o]
  <2>1. /\ q.state = order.state /\ q.state \in Working /\ q.effective = order.effective
        /\ q.price = order.price /\ q.cumulative = order.cumulative
    BY <1>3, AttemptIs
  <2> HIDE DEF q
  <2>2. Snapshot(q) = Snapshot(order)
    BY <2>1, SameSnapshot
  <2>3. q.state \notin Unresolved
    BY <2>1, States
  <2>4. DOMAIN n.orders = DOMAIN mem.orders /\ o \in DOMAIN mem.orders
    BY <1>1, <1>3
  <2>5. \A p \in DOMAIN mem.orders : n.orders[p].state = mem.orders[p].state
    BY <1>1, <2>1
  <2>6. \A p \in DOMAIN mem.orders : Snapshot(n.orders[p]) = Snapshot(mem.orders[p])
    BY <1>1, <2>2
  <2> HIDE DEF order
  <2> QED BY <2>4, <2>5, <2>6 DEF Seen
<1> QED BY <1>2, <1>3

\* A modification is approved above what the order has already filled.
ApprovedAbove(i) ==
    i \in Modifies => /\ OrderOf(i) \in DOMAIN broker.orders
                      /\ Terms[i].quantity > broker.orders[OrderOf(i)].cumulative

\* The order waits for the answer to the attempt that was recorded.
LEMMA AttemptAwaits ==
    ASSUME IInv, Backed, Seen(mem, broker.orders), NEW i \in Intents, ApprovedAbove(i),
           NEW o, o = OrderOf(i), i \notin Places => o \in DOMAIN mem.orders,
           NEW r, r = AttemptTransition(i), ~r.refused
    PROVE  Awaits(r.order, i)
<1> DEFINE q == r.order
<1>1. CASE i \in Places
  <2>1. Submission(q, Terms[i].quantity, Terms[i].price)
    BY <1>1, TransitionGood DEF AttemptMoves
  <2>2. i \notin Modifies /\ i \notin Cancels
    BY <1>1, IntentsAssumption
  <2> HIDE DEF q
  <2>3. Awaits(q, i)
    BY <2>1, <2>2 DEF Awaits, Submission
  <2> QED BY <2>3 DEF q
<1>2. CASE i \notin Places
  <2> DEFINE order == mem.orders[o]
  <2>1. /\ q.cumulative = order.cumulative
        /\ i \in Modifies => /\ q.pending = "Modify"
                             /\ q.pendingQuantity = Terms[i].quantity
                             /\ q.pendingPrice = Terms[i].price
        /\ i \in Cancels => q.pending = "Cancel"
    BY <1>2, AttemptIs
  <2>2. i \in Modifies => Terms[i].quantity > order.cumulative
    <3> SUFFICES ASSUME i \in Modifies PROVE Terms[i].quantity > order.cumulative
      OBVIOUS
    <3> DEFINE s == Snapshot(order)
    <3>1. broker.orders[o] = s
      BY DEF Seen, ApprovedAbove
    <3>2. s.cumulative = order.cumulative
      BY SnapshotIs
    <3> HIDE DEF s, order
    <3> QED BY <3>1, <3>2 DEF ApprovedAbove
  <2> HIDE DEF q, order
  <2>3. Awaits(q, i)
    BY <1>2, <2>1, <2>2 DEF Awaits
  <2> QED BY <2>3 DEF q
<1> QED BY <1>1, <1>2

\* The session, the broker and the ledger after an attempt was recorded.
LEMMA AttemptAgrees ==
    ASSUME IInv, Backed, Seen(mem, broker.orders), NEW i \in Intents, ApprovedAbove(i),
           NEW d, IsSequence(d), NEW u, u = Replay(durable, d),
           GoodReplay(u), u.faulty \/ i \in DOMAIN u.intents,
           NEW m, Same(m, u), m.orders = mem.orders, m.lastUpdate = mem.lastUpdate,
           i \in Places => i \notin DOMAIN mem.orders,
           NEW o, o = OrderOf(i), i \notin Places => o \in DOMAIN mem.orders,
           NEW r, r = AttemptTransition(i), ~r.refused,
           NEW e, e = IntentEvent(AttemptType(i), i), NEW f, f = Append(d, e),
           NEW n, n.orders = Put(mem.orders, o, r.order), n.view = mem.view,
           n.lastUpdate = m.lastUpdate, n.received = m.received, n.blocked = m.blocked,
           NEW s, s.intent # NoId => s.intent = i /\ n.reason # "strategy"
    PROVE  Agrees(n, s, broker, Replay(durable, f))
<1> DEFINE t == ReplayRecord(u, e)
<1>1. Replay(durable, f) = t
  BY ReplayAppended
<1>2. Same(n, t)
  <2>1. n.orders = Put(m.orders, o, r.order)
    OBVIOUS
  <2> QED BY <2>1, AttemptReplayed
<1>3. Seen(n, broker.orders)
  BY AttemptSeen
<1>4. Awaits(r.order, i)
  BY AttemptAwaits
<1>5. Follows(u, t)
  BY ReplayRecordSound DEF RecordSound
<1> HIDE DEF t
<1>6. o \in DOMAIN n.orders /\ n.orders[o] = r.order
  BY DEF Put
<1>7. Staged(n, s, t)
  BY <1>4, <1>5, <1>6 DEF Staged, Follows
<1> QED BY <1>1, <1>2, <1>3, <1>7 DEF Agrees

\* A new intent that was approved (Attempt, Prepared).
LEMMA AttemptJudged ==
    ASSUME IInv, Backed, Judged(mem, slot, broker, durable), slot = EmptySlot,
           mem.reason # "other", NEW i \in Intents, mem.blocked => i \in Cancels,
           i \notin DOMAIN mem.received, ApprovedAbove(i),
           NEW d, IsSequence(d), NEW u, u = Replay(durable, d), GoodReplay(u),
           NEW m, GoodMem(m), SameButReceived(m, i), m.reason = mem.reason, m.safety = mem.safety,
           Same(mem, durable) => Same(m, u) /\ (u.faulty \/ i \in DOMAIN u.intents),
           NEW r, r = AttemptTransition(i), NEW overflow \in BOOLEAN
    PROVE  Judges(Attempt(i, d, m, r, overflow))
<1> DEFINE o == OrderOf(i)
           e == IntentEvent(AttemptType(i), i)
           stop == SafetyStop(i, o)
           f == Append(d, e)
           g == Append(d, stop)
           n == [m EXCEPT !.orders = Put(@, o, r.order)]
           no == (i \notin Places /\ o \notin DOMAIN mem.orders) \/ r.refused
           out == Attempt(i, d, m, r, overflow)
<1>1. out = IF no THEN Outcome(g, SafetyStopped(m), slot) ELSE Prepared(i, f, n, overflow)
  BY DEF Attempt
<1>2. slot.intent = NoId
  BY EmptySlotGood
<1>3. (mem.safety /\ broker.health # "Ready") \/ Agrees(mem, slot, broker, durable)
  BY DEF Judged
<1>4. IsSequence(f) /\ IsSequence(g)
  BY AppendedSequences
<1> HIDE DEF out
<1>5. CASE no
  <2> DEFINE w == SafetyStopped(m)
  <2>1. out = Outcome(g, w, slot) /\ w = SafetyStopped(m)
    BY <1>1, <1>5
  <2> HIDE DEF w, no
  <2>2. w.safety /\ SameButStopped(m, w)
    BY <2>1, SafetyStoppedIs
  <2> HIDE DEF g
  <2>3. out.mem = w /\ out.slot = slot /\ out.broker = broker /\ out.events = g
    BY <2>1, OutcomeIs
  <2>4. CASE broker.health # "Ready"
    <3>1. Judges(out)
      BY <2>2, <2>3, <2>4 DEF Judges, Judged
    <3> QED BY <3>1 DEF out
  <2>5. CASE Agrees(mem, slot, broker, durable)
    <3>1. Same(mem, durable) /\ Seen(mem, broker.orders)
      BY <2>5 DEF Agrees
    <3>2. Same(w, u)
      BY <2>2, <3>1 DEF Same, SameButStopped
    <3> DEFINE one == <<stop>>
    <3>3. Idle(stop)
      BY IdleTypes
    <3> HIDE DEF stop
    <3>4. IdleRecords(one) /\ IsSequence(one)
      BY <3>3, IdleFew, FewRecords
    <3>5. Replay(u, one) = ReplayRecord(u, stop)
      BY ReplayFew
    <3> HIDE DEF one
    <3>6. Len(one) \in Nat
      BY <3>4, AppendedSequences
    <3>7. Same(w, ReplayRecord(u, stop))
      BY <3>2, <3>4, <3>5, <3>6, IdleReplay
    <3>8. Replay(durable, g) = ReplayRecord(u, stop)
      BY ReplayAppended DEF g
    <3>9. Seen(w, broker.orders)
      BY <2>2, <3>1 DEF Seen, SameButStopped, SameButReceived
    <3>10. Judges(out)
      BY <1>2, <2>3, <3>7, <3>8, <3>9 DEF Judges, Judged, Agrees, Staged
    <3> QED BY <3>10 DEF out
  <2> QED BY <1>3, <2>4, <2>5
<1>6. CASE ~no
  <2>1. out = Prepared(i, f, n, overflow) /\ ~r.refused /\ (i \notin Places => o \in DOMAIN mem.orders)
    BY <1>1, <1>6
  <2> HIDE DEF no
  <2>2. DOMAIN m = MemFields
    BY DEF GoodMem
  <2> DEFINE q == r.order
  <2> HIDE DEF q
  <2>3. /\ n.orders = Put(mem.orders, o, r.order) /\ n.view = mem.view
        /\ n.lastUpdate = m.lastUpdate /\ n.received = m.received /\ n.blocked = m.blocked
        /\ n.reason = m.reason /\ n.safety = m.safety
    BY <2>2 DEF MemFields, SameButReceived
  <2> HIDE DEF n
  <2>4. ASSUME NEW s, s.intent # NoId => s.intent = i /\ n.reason # "strategy",
               NEW b, b = Outcome(f, n, s)
        PROVE  Judges(b)
    <3>1. b.mem = n /\ b.slot = s /\ b.broker = broker /\ b.events = f
      <4> HIDE DEF f
      <4> QED BY <2>4, OutcomeIs
    <3>2. CASE mem.safety /\ broker.health # "Ready"
      BY <2>3, <3>1, <3>2 DEF Judges, Judged
    <3>3. CASE Agrees(mem, slot, broker, durable)
      <4>1. Same(mem, durable) /\ Seen(mem, broker.orders)
        BY <3>3 DEF Agrees
      <4>2. i \in Places => i \notin DOMAIN mem.orders
        <5>1. i \in Places => ~mem.blocked
          BY IntentsAssumption
        <5> QED BY <4>1, <5>1, NewPlace
      <4>3. m.orders = mem.orders /\ m.lastUpdate = mem.lastUpdate /\ Same(m, u)
            /\ (u.faulty \/ i \in DOMAIN u.intents)
        BY <4>1 DEF SameButReceived
      <4>4. o = OrderOf(i) /\ e = IntentEvent(AttemptType(i), i) /\ f = Append(d, e)
        OBVIOUS
      <4> HIDE DEF o, e, f
      <4>5. Agrees(n, s, broker, Replay(durable, f))
        BY <2>1, <2>3, <2>4, <4>1, <4>2, <4>3, <4>4, AttemptAgrees
      <4> QED BY <3>1, <4>5 DEF Judges, Judged
    <3> QED BY <1>3, <3>2, <3>3
  <2>5. CASE ~overflow
    <3> DEFINE s == IF n.reason = "none" THEN [intent |-> i, current |-> TRUE] ELSE slot
    <3>1. out = Outcome(f, n, s)
      BY <2>1, <2>5 DEF Prepared
    <3>2. s.intent # NoId => s.intent = i /\ n.reason # "strategy"
      BY <1>2
    <3> HIDE DEF s, f
    <3>3. Judges(out)
      BY <2>4, <3>1, <3>2 DEF f
    <3> QED BY <3>3 DEF out
  <2>6. CASE overflow
    <3> DEFINE v == StopOnce(n, "other")
               w == [v EXCEPT !.behind = @ \/ n.reason = "none"]
               h == f \o StopOnceEvents(n)
    <3>1. out = Outcome(h, w, slot)
      BY <2>1, <2>6 DEF Prepared
    <3>2. CASE n.reason = "none"
      <4>1. v = [SafetyStopped(n) EXCEPT !.reason = "other"]
        BY <3>2 DEF StopOnce
      <4>2. DOMAIN n = MemFields
        BY <2>2 DEF n
      <4> DEFINE x == SafetyStopped(n)
      <4>3. DOMAIN x = MemFields
        BY <4>2 DEF SafetyStopped
      <4> HIDE DEF x
      <4>4. DOMAIN v = MemFields /\ v.reason = "other"
        BY <4>1, <4>3 DEF x, MemFields
      <4> HIDE DEF v
      <4>5. w.reason = "other"
        BY <4>4 DEF MemFields
      <4> HIDE DEF w, h
      <4>6. out.mem = w
        BY <3>1, OutcomeIs
      <4>7. Judges(out)
        BY <4>5, <4>6, StoppedJudged
      <4> QED BY <4>7 DEF out
    <3>3. CASE n.reason # "none"
      <4>1. v = n /\ StopOnceEvents(n) = << >>
        BY <3>3 DEF StopOnce, StopOnceEvents
      <4> HIDE DEF v
      <4>2. DOMAIN n = MemFields
        BY <2>2 DEF n
      <4>3. /\ w.orders = n.orders /\ w.view = n.view /\ w.lastUpdate = n.lastUpdate
            /\ w.received = n.received /\ w.blocked = n.blocked /\ w.reason = n.reason
            /\ w.safety = n.safety
        BY <4>1, <4>2 DEF MemFields
      <4> HIDE DEF w
      <4>4. h = f
        <5> HIDE DEF f
        <5> QED BY <1>4, <4>1, JoinedFew
      <4> HIDE DEF f, h
      <4>5. out.mem = w /\ out.slot = slot /\ out.broker = broker /\ out.events = f
        BY <3>1, <4>4, OutcomeIs
      <4> DEFINE b == Outcome(f, n, slot)
      <4>6. b.mem = n /\ b.slot = slot /\ b.broker = broker /\ b.events = f
        BY OutcomeIs
      <4>7. Judges(b)
        BY <1>2, <2>4 DEF f
      <4> HIDE DEF b
      <4>8. Judged(n, slot, broker, Replay(durable, f))
        BY <4>6, <4>7 DEF Judges
      <4>9. Judged(w, slot, broker, Replay(durable, f))
        BY <4>3, <4>8, JudgedAlike
      <4>10. Judges(out)
        BY <4>5, <4>9 DEF Judges
      <4> QED BY <4>10 DEF out
    <3> QED BY <3>2, <3>3
  <2> QED BY <2>5, <2>6
<1> QED BY <1>5, <1>6

\* A new intent, with its decision (PrepareNew).
LEMMA PrepareNewJudged ==
    ASSUME IInv, Backed, Judged(mem, slot, broker, durable), slot = EmptySlot,
           NEW i \in Intents, i \notin DOMAIN mem.received, mem.blocked => i \in Cancels, NEW c,
           NEW mapped \in BOOLEAN, NEW within \in BOOLEAN, NEW overflow \in BOOLEAN,
           Sound(PrepareNew(i, c, mapped, within, overflow))
    PROVE  Judges(PrepareNew(i, c, mapped, within, overflow))
<1> DEFINE v == Event("intent_received", i, NoId)
           x == [v EXCEPT !.content = c]
           yes == Event("mapping_validated", i, OrderOf(i))
           not == Event("mapping_refused", i, NoId)
           y == IF mapped THEN yes ELSE not
           a == Event("risk_approved", i, OrderOf(i))
           b == Event("risk_rejected", i, NoId)
           p == <<x, y>>
           m == [mem EXCEPT !.received = Put(@, i, c)]
           r == AttemptTransition(i)
           e == Append(p, a)
           f == Append(p, b)
           out == PrepareNew(i, c, mapped, within, overflow)
<1>1. out = IF Approves(i, mapped, within)
            THEN Attempt(i, e, m, r, overflow)
            ELSE Outcome(f, m, slot)
  BY DEF PrepareNew
<1>2. Sound(out)
  OBVIOUS
<1>3. /\ TypedRecord(yes) /\ TypedRecord(not) /\ TypedRecord(a) /\ TypedRecord(b)
      /\ yes.type = "mapping_validated" /\ not.type = "mapping_refused"
      /\ a.type = "risk_approved" /\ b.type = "risk_rejected"
      /\ yes.intent = i /\ not.intent = i /\ a.intent = i /\ b.intent = i
      /\ yes.sequence = 0 /\ not.sequence = 0 /\ a.sequence = 0 /\ b.sequence = 0
  BY QuietRecords, QuietTypesAre, EventIs DEF PlainRecord
<1>4. TypedRecord(x) /\ x.type = "intent_received" /\ x.intent = i /\ x.sequence = 0
  <2>1. TypedRecord(v) /\ DOMAIN v = RecordFields /\ v.type = "intent_received" /\ v.intent = i
        /\ v.sequence = 0
    BY QuietRecords, QuietTypesAre, EventIs DEF PlainRecord
  <2> HIDE DEF v
  <2>2. /\ x.type = v.type /\ x.side = v.side /\ x.quantity = v.quantity /\ x.price = v.price
        /\ x.cumulative = v.cumulative /\ x.sequence = v.sequence /\ x.order = v.order
        /\ x.intent = v.intent
    BY <2>1 DEF RecordFields
  <2> HIDE DEF x
  <2> QED BY <2>1, <2>2 DEF TypedRecord
<1>5. GoodMem(m) /\ SameButReceived(m, i) /\ m.reason = mem.reason /\ m.safety = mem.safety
  <2>1. GoodMem(mem) /\ DOMAIN mem = MemFields
    BY DEF IInv, Session, GoodMem
  <2>2. /\ DOMAIN m = MemFields /\ m.ready = mem.ready /\ m.safety = mem.safety
        /\ m.recon = mem.recon
        /\ m.kill = mem.kill /\ m.observed = mem.observed /\ m.blocked = mem.blocked
        /\ m.reason = mem.reason /\ m.behind = mem.behind /\ m.connected = mem.connected
        /\ m.orders = mem.orders /\ m.view = mem.view /\ m.lastUpdate = mem.lastUpdate
        /\ DOMAIN m.received = DOMAIN mem.received \cup {i}
    BY <2>1 DEF MemFields, Put
  <2> HIDE DEF m
  <2> QED BY <2>1, <2>2 DEF GoodMem, SameButReceived
<1> HIDE DEF x, yes, not, a, b, m, out
<1>6. TypedRecord(y) /\ y.type \in Mapping /\ y.intent = i /\ y.sequence = 0
  BY <1>3 DEF Mapping
<1> HIDE DEF y
<1>7. a.type \in Decisions /\ b.type \in Decisions
  BY <1>3 DEF Decisions
<1>8. p = <<x, y>> /\ e = Append(p, a) /\ f = Append(p, b) /\ r = AttemptTransition(i)
  OBVIOUS
<1> HIDE DEF p, e, f, r
<1>9. IsSequence(p) /\ IsSequence(e) /\ IsSequence(f) /\ Len(e) \in Nat
  BY <1>8, TwoRecords, AppendedSequences
<1>10. CASE mem.reason = "other"
  <2>1. KeepsStops(mem, out.mem)
    BY <1>2 DEF Sound, PartsSound
  <2>2. Judges(out)
    BY <1>10, <2>1, StoppedJudged DEF KeepsStops
  <2> QED BY <2>2 DEF out
<1>11. CASE mem.reason # "other" /\ Approves(i, mapped, within)
  <2> DEFINE u == Replay(durable, e)
  <2>1. GoodReplay(u)
    <3>1. GoodReplay(durable)
      BY DEF IInv, Recorded
    <3> QED BY <1>9, <3>1, ReplayIsSound DEF ReplaySound
  <2>2. Same(mem, durable) => Same(m, u) /\ (u.faulty \/ i \in DOMAIN u.intents)
    <3> SUFFICES ASSUME Same(mem, durable) PROVE Same(m, u) /\ (u.faulty \/ i \in DOMAIN u.intents)
      OBVIOUS
    <3>1. u = Replay(durable, e)
      OBVIOUS
    <3> HIDE DEF u
    <3> QED BY <1>3, <1>4, <1>5, <1>6, <1>7, <1>8, <3>1, DecisionReplayed
  <2>3. ApprovedAbove(i)
    BY <1>11, IntentsAssumption DEF Approves, ApprovedAbove, WorkingAt
  <2>4. u = Replay(durable, e)
    OBVIOUS
  <2> HIDE DEF u
  <2>5. Judges(Attempt(i, e, m, r, overflow))
    BY <1>5, <1>8, <1>9, <1>11, <2>1, <2>2, <2>3, <2>4, AttemptJudged
  <2> QED BY <1>1, <1>11, <2>5 DEF out
<1>12. CASE mem.reason # "other" /\ ~Approves(i, mapped, within)
  <2>1. out = Outcome(f, m, slot)
    BY <1>1, <1>12
  <2>2. out.mem = m /\ out.slot = slot /\ out.broker = broker /\ out.events = f
    BY <2>1, OutcomeIs
  <2>3. slot.intent = NoId
    BY EmptySlotGood
  <2>4. CASE mem.safety /\ broker.health # "Ready"
    <3>1. Judges(out)
      BY <1>5, <2>2, <2>4 DEF Judges, Judged
    <3> QED BY <3>1 DEF out
  <2>5. CASE Agrees(mem, slot, broker, durable)
    <3>1. Same(mem, durable) /\ Seen(mem, broker.orders)
      BY <2>5 DEF Agrees
    <3> DEFINE u == Replay(durable, f)
    <3>2. u = Replay(durable, f)
      OBVIOUS
    <3> HIDE DEF u
    <3>3. Same(m, u)
      BY <1>3, <1>4, <1>5, <1>6, <1>7, <1>8, <3>1, <3>2, DecisionReplayed
    <3>4. Seen(m, broker.orders)
      BY <1>5, <3>1 DEF Seen, SameButReceived
    <3>5. Judges(out)
      BY <2>2, <2>3, <3>2, <3>3, <3>4 DEF Judges, Judged, Agrees, Staged
    <3> QED BY <3>5 DEF out
  <2> QED BY <1>12, <2>4, <2>5 DEF Judged
<1> QED BY <1>10, <1>11, <1>12

\* process_next_risk_work() and prepare_intent().
LEMMA PrepareBelieves ==
    ASSUME IInv, Backed, Believes, NEW i \in Intents, NEW c \in Contents, Prepare(i, c)
    PROVE  Believes'
<1>1. phase \in {"up", "draining"} /\ slot = EmptySlot /\ (phase = "up" => mem.connected)
  BY DEF Prepare
<1>2. PICK outcome \in PrepareOutcomes(i, c) : RunCollected(outcome)
  BY DEF Prepare
<1>3. Judged(mem, slot, broker, durable)
  BY <1>1 DEF Believes
<1>4. Sound(outcome)
  BY <1>1, PrepareSound DEF IInv
<1>5. \/ outcome = Conflict(i)
      \/ /\ i \notin DOMAIN mem.received /\ ~(mem.blocked /\ i \notin Cancels)
         /\ outcome \in NewIntent(i, c)
  BY DEF PrepareOutcomes
<1>6. Judges(outcome)
  <2>1. CASE outcome = Conflict(i)
    BY <1>1, <1>3, <2>1, ConflictJudged
  <2>2. CASE /\ i \notin DOMAIN mem.received /\ ~(mem.blocked /\ i \notin Cancels)
             /\ outcome \in NewIntent(i, c)
    <3>1. PICK mapped \in BOOLEAN, within \in BOOLEAN, overflow \in BOOLEAN :
            outcome = PrepareNew(i, c, mapped, within, overflow)
      BY <2>2 DEF NewIntent
    <3>2. Sound(PrepareNew(i, c, mapped, within, overflow))
      BY <1>4, <3>1
    <3>3. i \notin DOMAIN mem.received /\ (mem.blocked => i \in Cancels)
      BY <2>2
    <3> QED BY <1>1, <1>3, <3>1, <3>2, <3>3, PrepareNewJudged
  <2> QED BY <1>5, <2>1, <2>2
<1> QED BY <1>2, <1>4, <1>6, RunCollectedJudged

-----------------------------------------------------------------------------
(* An observation, and the fills it brings (process_next_market).          *)

\* A fill of what is left of a working order (on_fill_update).
LEMMA FillAnswer ==
    ASSUME NEW order, GoodOrder(order), order.state \in Working,
           NEW u, SessionEvidence(u), u.kind = "FillUpdate", u.cumulative = order.effective,
           NEW r, r = ApplyOrderUpdate(order, u), NEW s, s = Snapshot(order)
    PROVE  /\ ~r.refused /\ GoodOrder(r.order) /\ r.order.state = "Filled"
           /\ Snapshot(r.order) = Filled(s)
<1>1. r = OnFillUpdate(order, u)
  BY EvidenceIs
<1>2. ~r.refused
  BY <1>1, FillTaken
<1>3. Moves(order, "FillUpdate", r.order) /\ r.order.state = "Filled"
  BY <1>1, <1>2, FillMoves
<1>4. /\ GoodOrder(r.order) /\ r.order.effective = order.effective
      /\ r.order.price = order.price
  BY <1>3 DEF Moves
<1>5. r.order.cumulative = order.effective
  BY <1>3, <1>4 DEF GoodOrder
<1>6. RecoveredState["Filled"] = "filled"
  BY DEF RecoveredState
<1>7. Snapshot(r.order) = Filled(s)
  <2> DEFINE x == RecoveredState[order.state]
             y == [quantity |-> order.effective, price |-> order.price,
                   cumulative |-> order.effective, state |-> "filled"]
  <2>1. s = [quantity |-> order.effective, price |-> order.price,
             cumulative |-> order.cumulative, state |-> x]
    BY DEF Snapshot
  <2> HIDE DEF x
  <2>2. Filled(s) = y
    <3> DEFINE f == Filled(s)
    <3>1. f = [s EXCEPT !.cumulative = s.quantity, !.state = "filled"]
      BY DEF Filled
    <3>2. DOMAIN s = {"quantity", "price", "cumulative", "state"}
          /\ s.quantity = order.effective /\ s.price = order.price
      BY <2>1
    <3> HIDE DEF f
    <3>3. /\ f = [k \in DOMAIN f |-> f[k]] /\ DOMAIN f = DOMAIN s
          /\ f.quantity = order.effective /\ f.price = order.price
          /\ f.cumulative = order.effective /\ f.state = "filled"
      BY <3>1, <3>2
    <3>4. f = y
      BY <3>2, <3>3
    <3> QED BY <3>4 DEF f
  <2>3. Snapshot(r.order) = y
    BY <1>3, <1>4, <1>5, <1>6 DEF Snapshot
  <2> QED BY <2>2, <2>3
<1> QED BY <1>2, <1>3, <1>4, <1>7

\* What a drain has reached: the session, the ledger and a broker that holds the
\* orders filled so far.
Drains(acc, held) ==
    /\ acc.draining = TRUE /\ IsSequence(acc.events) /\ MemShape(acc.mem)
    /\ Seen(acc.mem, held)
    /\ Same(acc.mem, Replay(durable, acc.events))

\* One fill that is applied (drain_broker_updates).
LEMMA DrainFillAgrees ==
    ASSUME IInv, Backed, NEW acc, NEW held, Drains(acc, held), NEW o \in DOMAIN broker.orders,
           o \in DOMAIN held, held[o] = broker.orders[o],
           broker.orders[o].state \notin BrokerTerminal
    PROVE  Drains(DrainFill(acc, o), Put(held, o, Filled(held[o])))
<1> DEFINE m == acc.mem
           d == Replay(durable, acc.events)
           event == FillEvent(o, m.lastUpdate + 1)
           u == EvidenceOf(event, "FillUpdate")
           order == m.orders[o]
           result == ApplyOrderUpdate(order, u)
           snapshot == Snapshot(result.order)
           sequence == event.sequence
           n == [m EXCEPT !.orders[o] = result.order, !.view[o] = snapshot,
                          !.lastUpdate = sequence]
           filled == [events |-> Append(acc.events, event), mem |-> n, draining |-> TRUE]
           f == Put(held, o, Filled(held[o]))
<1>1. ~result.refused => DrainFill(acc, o) = filled
  BY DEF DrainFill, Drained, Drains
<1>2. /\ IsSequence(acc.events) /\ MemShape(m) /\ Seen(m, held) /\ Same(m, d)
      /\ DOMAIN m = MemFields /\ m.lastUpdate \in Nat
  BY DEF Drains, MemShape
<1>3. GoodReplay(d)
  <2>1. Len(acc.events) \in Nat
    BY <1>2, AppendedSequences
  <2>2. GoodReplay(durable)
    BY DEF IInv, Recorded
  <2> QED BY <2>1, <2>2, ReplayIsSound DEF ReplaySound
<1>4. /\ TypedRecord(event) /\ event.type = "filled" /\ event.order = o /\ event.intent = o
      /\ sequence = m.lastUpdate + 1 /\ event.cumulative = broker.orders[o].quantity
  <2> DEFINE before == m.lastUpdate
  <2>1. before \in Nat /\ event = FillEvent(o, before + 1)
    BY <1>2
  <2> HIDE DEF before, event
  <2>2. PlainRecord(event) /\ event.type = "filled" /\ event.order = o /\ event.intent = o
        /\ event.sequence = before + 1 /\ event.cumulative = broker.orders[o].quantity
    BY <2>1, FillRecord
  <2> QED BY <2>2 DEF before, PlainRecord
<1> HIDE DEF event, d
<1>5. o \in DOMAIN m.orders /\ GoodOrder(order)
      /\ order.state \notin Unresolved \cup {"SubmissionStarted"}
  BY <1>2 DEF Seen, MemShape, GoodOrders
<1>6. held[o] = Snapshot(order)
  BY <1>2 DEF Seen
<1>7. order.state \in Working
  <2>1. held[o].state \notin BrokerTerminal
    OBVIOUS
  <2> HIDE DEF order
  <2> QED BY <1>5, <1>6, <2>1, WorkingSnapshot
<1>8. SessionEvidence(u) /\ u.kind = "FillUpdate" /\ u.cumulative = order.effective
  <2>1. SessionEvidence(u) /\ u.kind = "FillUpdate" /\ u.cumulative = event.cumulative
    BY <1>4, RecordEvidence DEF SessionKinds
  <2> DEFINE s == held[o]
  <2>2. s.quantity = order.effective
    <3>1. s = Snapshot(order)
      BY <1>6
    <3> HIDE DEF s, order
    <3> QED BY <3>1, SnapshotIs
  <2> QED BY <1>4, <2>1, <2>2
<1>9. EvidenceKind[event.type] = "FillUpdate" /\ event.type \in DOMAIN EvidenceKind
  BY <1>4 DEF EvidenceKind
<1>10. result = ApplyOrderUpdate(m.orders[o], EvidenceOf(event, EvidenceKind[event.type]))
  BY <1>9
<1> HIDE DEF u
<1>11. /\ ~result.refused /\ GoodOrder(result.order) /\ result.order.state = "Filled"
       /\ snapshot = Filled(held[o])
  <2> DEFINE s == held[o]
  <2>1. s = Snapshot(order) /\ result = ApplyOrderUpdate(order, u)
    BY <1>6
  <2> HIDE DEF s, order, result
  <2>2. /\ ~result.refused /\ GoodOrder(result.order) /\ result.order.state = "Filled"
        /\ Snapshot(result.order) = Filled(s)
    BY <1>5, <1>7, <1>8, <2>1, FillAnswer
  <2> QED BY <2>2 DEF s
<1> HIDE DEF order, result, sequence
<1>12. snapshot = Snapshot(result.order)
  OBVIOUS
<1> HIDE DEF snapshot
<1>13. MemShape(n)
  <2>1. SessionEvidence(u) /\ u.kind = "FillUpdate" /\ sequence \in Nat
    BY <1>2, <1>4, <1>8
  <2>2. result = ApplyOrderUpdate(m.orders[o], u)
    BY DEF result, order
  <2> QED BY <1>2, <1>11, <1>12, <2>1, <2>2, FillShape
<1>14. /\ n.orders = [m.orders EXCEPT ![o] = result.order]
       /\ n.view = [m.view EXCEPT ![o] = snapshot] /\ n.lastUpdate = sequence
       /\ n.received = m.received /\ n.blocked = m.blocked
  BY <1>2 DEF MemFields
<1> HIDE DEF n
<1>15. Same(n, ReplayRecord(d, event))
  <2>1. event.sequence > m.lastUpdate /\ event.sequence # 0 /\ n.lastUpdate = event.sequence
    BY <1>2, <1>4, <1>14 DEF sequence
  <2>2. d.faulty \/ event.intent \in DOMAIN d.intents
    <3> SUFFICES ASSUME ~d.faulty PROVE event.intent \in DOMAIN d.intents
      OBVIOUS
    <3>1. DOMAIN m.orders \subseteq DOMAIN d.intents
      BY <1>2 DEF Same, Matches
    <3> QED BY <1>4, <1>5, <3>1
  <2>3. n.lastUpdate = IF event.sequence = 0 THEN m.lastUpdate ELSE event.sequence
    BY <2>1
  <2> HIDE DEF m
  <2> QED BY <1>2, <1>3, <1>4, <1>5, <1>9, <1>10, <1>11, <1>14, <2>1, <2>2, <2>3, LedgerTakes
<1>16. n.view = f
  <2>1. m.view = held /\ held = [p \in DOMAIN held |-> held[p]]
    BY <1>2 DEF Seen
  <2> QED BY <1>11, <1>14, <2>1 DEF Put
<1>17. Seen(n, f)
  <2>1. result.order.state \notin Unresolved \cup {"SubmissionStarted"}
    BY <1>11 DEF Unresolved
  <2>2. f = Put(held, o, snapshot)
    BY <1>11
  <2> HIDE DEF f, m
  <2> QED BY <1>2, <1>5, <1>12, <1>14, <1>16, <2>1, <2>2, SeenPut
<1>18. IsSequence(Append(acc.events, event))
       /\ Replay(durable, Append(acc.events, event)) = ReplayRecord(d, event)
  BY <1>2, AppendedSequences, ReplayAppended DEF d
<1> HIDE DEF f
<1>19. Drains(filled, f)
  BY <1>13, <1>15, <1>17, <1>18 DEF Drains
<1> QED BY <1>1, <1>11, <1>19 DEF f

\* The orders of the broker after the first n fills.
FilledUpTo(fills, n) ==
    [o \in DOMAIN broker.orders |->
       IF \E k \in 1..n : fills[k] = o THEN Filled(broker.orders[o]) ELSE broker.orders[o]]

\* One more fill, of an order that was not filled before.
LEMMA FilledNext ==
    ASSUME NEW fills, NEW n \in Nat, NEW o, o = fills[n + 1], o \in DOMAIN broker.orders,
           \A k \in 1..n : fills[k] # o,
           NEW f, f = FilledUpTo(fills, n), NEW g, g = FilledUpTo(fills, n + 1)
    PROVE  o \in DOMAIN f /\ f[o] = broker.orders[o] /\ g = Put(f, o, Filled(f[o]))
<1> DEFINE s == Filled(broker.orders[o])
           h == Put(f, o, s)
<1>1. 1..(n + 1) = 1..n \cup {n + 1}
  OBVIOUS
<1>2. /\ DOMAIN f = DOMAIN broker.orders /\ DOMAIN g = DOMAIN broker.orders
      /\ f[o] = broker.orders[o]
  BY DEF FilledUpTo
<1>3. ASSUME NEW p \in DOMAIN broker.orders PROVE g[p] = IF p = o THEN s ELSE f[p]
  <2>1. g[p] = IF \E k \in 1..(n + 1) : fills[k] = p
               THEN Filled(broker.orders[p]) ELSE broker.orders[p]
    BY DEF FilledUpTo
  <2>2. f[p] = IF \E k \in 1..n : fills[k] = p
               THEN Filled(broker.orders[p]) ELSE broker.orders[p]
    BY DEF FilledUpTo
  <2>3. (\E k \in 1..(n + 1) : fills[k] = p) <=> (\E k \in 1..n : fills[k] = p) \/ p = o
    BY <1>1
  <2> QED BY <2>1, <2>2, <2>3
<1> HIDE DEF s
<1>4. g = [p \in DOMAIN broker.orders |-> g[p]]
  BY DEF FilledUpTo
<1>5. h = [p \in DOMAIN broker.orders |-> IF p = o THEN s ELSE f[p]]
  BY <1>2 DEF Put
<1>6. g = h
  BY <1>3, <1>4, <1>5
<1> QED BY <1>2, <1>6 DEF s

\* The whole drain: every fill is applied, and the session and the ledger follow
\* the broker.
LEMMA DrainAgrees ==
    ASSUME IInv, Backed, NEW events, NEW m,
           Drains([events |-> events, mem |-> m, draining |-> TRUE], broker.orders),
           NEW fills, Len(fills) \in Nat,
           \A k \in 1..Len(fills) : fills[k] \in WorkingAt(broker),
           \A j, k \in 1..Len(fills) : fills[j] = fills[k] => j = k
    PROVE  Drains(Drain(events, m, fills), FilledUpTo(fills, Len(fills)))
<1> DEFINE N == Len(fills)
           first == [events |-> events, mem |-> m, draining |-> TRUE]
<1>1. PICK r : IsDrain(r, events, m, fills)
  BY DrainSteps
<1>2. /\ N \in Nat /\ r[0] = first /\ Drain(events, m, fills) = r[N]
      /\ \A n \in 1..N : r[n] = DrainFill(r[n - 1], fills[n])
  BY <1>1 DEF IsDrain
<1>3. FilledUpTo(fills, 0) = broker.orders
  <2>1. broker.orders = [o \in DOMAIN broker.orders |-> broker.orders[o]]
    BY DEF Drains, Seen
  <2>2. 1..0 = {}
    OBVIOUS
  <2> QED BY <2>1, <2>2 DEF FilledUpTo
<1>4. Drains(first, broker.orders)
  OBVIOUS
<1> HIDE DEF N, first
<1> DEFINE T == {n \in Nat : n <= N => Drains(r[n], FilledUpTo(fills, n))}
<1>5. 0 \in T
  BY <1>2, <1>3, <1>4
<1>6. ASSUME NEW n \in T PROVE n + 1 \in T
  <2> SUFFICES ASSUME n + 1 <= N PROVE Drains(r[n + 1], FilledUpTo(fills, n + 1))
    BY <1>6
  <2> DEFINE o == fills[n + 1]
             held == FilledUpTo(fills, n)
             next == FilledUpTo(fills, n + 1)
             acc == r[n]
  <2>1. n \in Nat /\ n + 1 \in 1..N /\ (n + 1) - 1 = n /\ Drains(acc, held)
        /\ \A k \in 1..n : k \in 1..N /\ k # n + 1
    BY <1>2, <1>6
  <2>2. r[n + 1] = DrainFill(acc, o)
    BY <1>2, <2>1
  <2>3. o \in WorkingAt(broker) /\ \A k \in 1..n : fills[k] # o
    BY <2>1 DEF N
  <2>4. o \in DOMAIN broker.orders /\ broker.orders[o].state \notin BrokerTerminal
    BY <2>3 DEF WorkingAt
  <2> HIDE DEF T
  <2>5. o \in DOMAIN held /\ held[o] = broker.orders[o] /\ next = Put(held, o, Filled(held[o]))
    <3>1. o = fills[n + 1] /\ held = FilledUpTo(fills, n) /\ next = FilledUpTo(fills, n + 1)
      OBVIOUS
    <3> HIDE DEF o, held, next
    <3> QED BY <2>1, <2>3, <2>4, <3>1, FilledNext
  <2> HIDE DEF o, held, next, acc
  <2>6. Drains(DrainFill(acc, o), Put(held, o, Filled(held[o])))
    BY <2>1, <2>4, <2>5, DrainFillAgrees
  <2> QED BY <2>2, <2>5, <2>6 DEF next
<1>7. T = Nat
  <2> HIDE DEF T
  <2> QED BY <1>5, <1>6, NatSetInduction DEF T
<1>8. Drains(r[N], FilledUpTo(fills, N))
  BY <1>2, <1>7
<1> QED BY <1>2, <1>8 DEF N

\* Fills are of distinct orders that work at the broker.
LEMMA FillsAre ==
    ASSUME IInv, NEW crossed \in SUBSET Fillable, NEW fills \in Orderings(crossed)
    PROVE  /\ DOMAIN fills = 1..Len(fills) /\ Len(fills) = Cardinality(crossed)
           /\ IsFiniteSet(crossed) /\ Len(fills) \in Nat
           /\ \A k \in 1..Len(fills) : fills[k] \in crossed
           /\ \A j, k \in 1..Len(fills) : fills[j] = fills[k] => j = k
<1> DEFINE n == Cardinality(crossed)
<1>1. crossed \subseteq DOMAIN broker.orders
  BY DEF Fillable, WorkingAt
<1>2. IsFiniteSet(crossed)
  BY <1>1, FS_Subset DEF IInv, Session, GoodBroker
<1>3. n \in Nat
  BY <1>2, FS_CardinalityType
<1>4. fills \in [1..n -> crossed] /\ \A j, k \in DOMAIN fills : fills[j] = fills[k] => j = k
  BY DEF Orderings
<1> HIDE DEF n
<1>5. fills \in Seq(crossed) /\ Len(fills) = n /\ DOMAIN fills = 1..n
  BY <1>3, <1>4
<1> QED BY <1>2, <1>3, <1>4, <1>5 DEF n

\* A session that sees the broker never has more fills than working orders, so
\* the reserved broker-update channel does not overrun.
LEMMA NeverOverruns ==
    ASSUME IInv, Backed, Seen(mem, broker.orders), NEW crossed \in SUBSET Fillable
    PROVE  Cardinality(crossed) <= PossibleUpdates
<1> DEFINE S == {o \in DOMAIN mem.orders : mem.orders[o].state \in Working}
<1>1. crossed \subseteq S
  <2> SUFFICES ASSUME NEW o \in crossed PROVE o \in S
    OBVIOUS
  <2> DEFINE order == mem.orders[o]
  <2>1. o \in DOMAIN broker.orders /\ broker.orders[o].state \notin BrokerTerminal
    BY DEF Fillable, WorkingAt
  <2>2. /\ o \in DOMAIN mem.orders /\ broker.orders[o] = Snapshot(order)
        /\ order.state \notin Unresolved \cup {"SubmissionStarted"}
    BY <2>1 DEF Seen
  <2>3. GoodOrder(order)
    BY <2>2 DEF Backed, Shape, GoodOrders
  <2> HIDE DEF order
  <2>4. order.state \in Working
    BY <2>1, <2>2, <2>3, WorkingSnapshot
  <2> QED BY <2>2, <2>4 DEF order
<1>2. S \subseteq DOMAIN mem.orders /\ IsFiniteSet(DOMAIN mem.orders)
  BY DEF IInv, Session, GoodMem
<1>3. PossibleUpdates = Cardinality(S)
  BY DEF PossibleUpdates
<1> HIDE DEF S
<1>4. IsFiniteSet(S)
  BY <1>2, FS_Subset
<1>5. Cardinality(crossed) <= Cardinality(S)
  BY <1>1, <1>4, FS_Subset
<1> QED BY <1>3, <1>5

\* What the fills start from: the observation is accepted, and the session is
\* activated where nothing forbids it.
LEMMA StartedDrains ==
    ASSUME IInv, Backed, Agrees(mem, slot, broker, durable),
           NEW a, a = Event("market_observation_accepted", NoId, NoId),
           NEW b, b = Event("session_started", NoId, NoId),
           NEW accepted, accepted = <<a>>,
           NEW seen, seen = [mem EXCEPT !.observed = TRUE],
           NEW active, active = [seen EXCEPT !.ready = TRUE]
    PROVE  /\ Drains([events |-> accepted, mem |-> seen, draining |-> TRUE], broker.orders)
           /\ Drains([events |-> Append(accepted, b), mem |-> active, draining |-> TRUE],
                     broker.orders)
<1>1. Idle(a) /\ Idle(b)
  BY IdleTypes
<1>2. IsSequence(accepted) /\ IdleRecords(accepted)
  BY <1>1, IdleFew, FewRecords
<1>3. IsSequence(Append(accepted, b)) /\ IdleRecords(Append(accepted, b))
  BY <1>1, <1>2, IdleAppended
<1>4. DOMAIN mem = MemFields
  BY DEF IInv, Session, GoodMem
<1>5. /\ DOMAIN seen = MemFields /\ SameOrders(seen) /\ seen.reason = mem.reason
      /\ seen.blocked = mem.blocked /\ seen.received = mem.received
  BY <1>4 DEF MemFields, SameOrders
<1>6. /\ DOMAIN active = MemFields /\ SameOrders(active) /\ active.reason = mem.reason
      /\ active.blocked = mem.blocked /\ active.received = mem.received
  BY <1>5 DEF MemFields, SameOrders
<1>7. KeepsStops(mem, seen) /\ KeepsStops(mem, active)
  BY <1>5, <1>6 DEF KeepsStops
<1>8. ASSUME NEW m, DOMAIN m = MemFields, SameOrders(m), m.reason = mem.reason,
             KeepsStops(mem, m), NEW q, IsSequence(q), IdleRecords(q)
      PROVE  Drains([events |-> q, mem |-> m, draining |-> TRUE], broker.orders)
  <2>1. Agrees(m, slot, broker, Replay(durable, q))
    BY <1>8, AgreesStill
  <2>2. MemShape(m)
    BY <1>8, MemShaped
  <2> QED BY <1>8, <2>1, <2>2 DEF Agrees, Drains
<1> QED BY <1>2, <1>3, <1>5, <1>6, <1>7, <1>8

\* Without a fill the drain leaves everything as it was.
LEMMA NothingDrained ==
    ASSUME NEW events, NEW m, NEW fills, Len(fills) = 0
    PROVE  Drain(events, m, fills) = [events |-> events, mem |-> m, draining |-> TRUE]
<1> DEFINE first == [events |-> events, mem |-> m, draining |-> TRUE]
<1>1. PICK r : IsDrain(r, events, m, fills)
  <2>1. Len(fills) \in Nat
    OBVIOUS
  <2> QED BY <2>1, DrainSteps
<1>2. r[0] = first /\ Drain(events, m, fills) = r[0]
  <2> HIDE DEF first
  <2> QED BY <1>1 DEF IsDrain, first
<1> QED BY <1>2

\* process_next_market(): the observation, the activation and the fills.
LEMMA ObservedJudged ==
    ASSUME IInv, Backed, Judged(mem, slot, broker, durable), slot = EmptySlot,
           NEW crossed \in SUBSET Fillable, NEW fills \in Orderings(crossed),
           Sound(Observed(fills))
    PROVE  Judges(Observed(fills))
<1> DEFINE a == Event("market_observation_accepted", NoId, NoId)
           b == Event("session_started", NoId, NoId)
           overrun == Len(fills) > PossibleUpdates
           dispatched == IF overrun THEN SubSeq(fills, 1, PossibleUpdates) ELSE fills
           accepted == <<a>>
           seen == [mem EXCEPT !.observed = TRUE]
           active == [seen EXCEPT !.ready = TRUE]
           started == IF overrun
                      THEN [events |-> accepted \o StopOnceEvents(seen),
                            mem |-> StopOnce(seen, "other")]
                      ELSE IF MayActivate(seen)
                      THEN [events |-> Append(accepted, b), mem |-> active]
                      ELSE [events |-> accepted, mem |-> seen]
           acc == Drain(started.events, started.mem, dispatched)
           orders == [o \in DOMAIN broker.orders |->
                        IF \E k \in DOMAIN fills : fills[k] = o
                        THEN Filled(broker.orders[o]) ELSE broker.orders[o]]
           quiet == Outcome(acc.events, acc.mem, slot)
           out == Observed(fills)
<1>1. out = [quiet EXCEPT !.broker.orders = orders]
  BY DEF Observed, AfterDrain
<1>2. /\ DOMAIN fills = 1..Len(fills) /\ Len(fills) = Cardinality(crossed)
      /\ IsFiniteSet(crossed) /\ Len(fills) \in Nat
      /\ \A k \in 1..Len(fills) : fills[k] \in crossed
      /\ \A j, k \in 1..Len(fills) : fills[j] = fills[k] => j = k
  BY FillsAre
<1>3. orders = FilledUpTo(fills, Len(fills))
  BY <1>2 DEF FilledUpTo
<1> HIDE DEF orders
<1>4. Len(fills) = 0 \/ ~overrun => ~overrun /\ dispatched = fills
  <2>1. PossibleUpdates \in Nat
    BY FillsOf
  <2> QED BY <2>1
<1>5. ~overrun => /\ MayActivate(seen) => started.events = Append(accepted, b) /\ started.mem = active
                  /\ ~MayActivate(seen) => started.events = accepted /\ started.mem = seen
  <2> HIDE DEF overrun, accepted, seen, active, b
  <2> QED OBVIOUS
<1> DEFINE e == started.events
           m == started.mem
<1>6. acc = Drain(e, m, dispatched)
  OBVIOUS
<1> HIDE DEF overrun, dispatched, e, m, acc
<1> DEFINE g == acc.events
           n == acc.mem
<1>7. quiet = Outcome(g, n, slot)
  OBVIOUS
<1> HIDE DEF g, n, quiet, out
<1>8. /\ DOMAIN quiet = OutcomeFields /\ quiet.events = g /\ quiet.mem = n /\ quiet.slot = slot
      /\ quiet.broker = broker
  BY <1>7, OutcomeIs
<1>9. DOMAIN broker = {"health", "orders"}
  BY DEF IInv, Session, GoodBroker
<1>10. /\ out.events = g /\ out.mem = n /\ out.slot = slot
       /\ out.broker.orders = orders /\ out.broker.health = broker.health
  BY <1>1, <1>8, <1>9 DEF OutcomeFields
<1>11. slot.intent = NoId
  BY EmptySlotGood
<1>12. CASE mem.reason = "other"
  <2>1. KeepsStops(mem, out.mem)
    BY DEF Sound, PartsSound, out
  <2>2. Judges(out)
    BY <1>12, <2>1, StoppedJudged DEF KeepsStops
  <2> QED BY <2>2 DEF out
<1>13. CASE mem.safety /\ broker.health # "Ready"
  <2>1. crossed = {}
    BY <1>13 DEF Fillable
  <2>2. Len(fills) = 0
    BY <1>2, <2>1, FS_EmptySet
  <2>3. ~overrun /\ dispatched = fills
    BY <1>4, <2>2
  <2>4. DOMAIN mem = MemFields
    BY DEF IInv, Session, GoodMem
  <2>5. seen.safety = mem.safety
    BY <2>4 DEF MemFields
  <2>6. m = seen
    BY <1>5, <1>13, <2>3, <2>5 DEF MayActivate, m
  <2> HIDE DEF seen
  <2>7. acc = [events |-> e, mem |-> m, draining |-> TRUE]
    BY <1>6, <2>2, <2>3, NothingDrained
  <2>8. n = m
    BY <2>7 DEF n
  <2>9. Judges(out)
    BY <1>10, <1>13, <2>5, <2>6, <2>8 DEF Judges, Judged
  <2> QED BY <2>9 DEF out
<1>14. CASE Agrees(mem, slot, broker, durable)
  <2>1. Seen(mem, broker.orders)
    BY <1>14 DEF Agrees
  <2>2. ~overrun /\ dispatched = fills
    <3>1. Cardinality(crossed) <= PossibleUpdates /\ PossibleUpdates \in Nat
      BY <2>1, NeverOverruns, FillsOf
    <3>2. ~overrun
      BY <1>2, <3>1 DEF overrun
    <3> QED BY <1>4, <3>2
  <2>3. /\ Drains([events |-> accepted, mem |-> seen, draining |-> TRUE], broker.orders)
        /\ Drains([events |-> Append(accepted, b), mem |-> active, draining |-> TRUE],
                  broker.orders)
    <3>1. /\ a = Event("market_observation_accepted", NoId, NoId)
          /\ b = Event("session_started", NoId, NoId)
          /\ accepted = <<a>> /\ seen = [mem EXCEPT !.observed = TRUE]
          /\ active = [seen EXCEPT !.ready = TRUE]
      OBVIOUS
    <3> HIDE DEF a, b, accepted, seen, active
    <3> QED BY <1>14, <3>1, StartedDrains
  <2> HIDE DEF accepted, seen, active, b
  <2>4. Drains([events |-> e, mem |-> m, draining |-> TRUE], broker.orders)
    BY <1>5, <2>2, <2>3 DEF e, m
  <2>5. crossed \subseteq WorkingAt(broker)
    BY DEF Fillable
  <2>6. /\ \A k \in 1..Len(fills) : fills[k] \in WorkingAt(broker)
        /\ \A j, k \in 1..Len(fills) : fills[j] = fills[k] => j = k
    BY <1>2, <2>5
  <2>7. Len(fills) \in Nat
    BY <1>2
  <2>8. Drains(acc, orders)
    BY <1>3, <1>6, <2>2, <2>4, <2>6, <2>7, DrainAgrees
  <2>9. Judges(out)
    BY <1>10, <1>11, <2>8 DEF Judges, Judged, Agrees, Staged, Drains, g, n
  <2> QED BY <2>9 DEF out
<1> QED BY <1>12, <1>13, <1>14 DEF Judged

\* An observation that the server collects.
LEMMA ObserveBelieves ==
    ASSUME IInv, Backed, Believes, Observe
    PROVE  Believes'
<1>1. phase = "up" /\ mem.connected /\ slot = EmptySlot
  BY DEF Observe
<1>2. PICK crossed \in SUBSET Fillable :
        \E fills \in Orderings(crossed) : RunCollected(Observed(fills))
  BY DEF Observe
<1>3. PICK fills \in Orderings(crossed) : RunCollected(Observed(fills))
  BY <1>2
<1>4. Sound(Observed(fills))
  BY <1>1, ObservedSound DEF IInv
<1>5. Judged(mem, slot, broker, durable)
  BY <1>1 DEF Believes
<1>6. Judges(Observed(fills))
  BY <1>1, <1>4, <1>5, ObservedJudged
<1> QED BY <1>3, <1>4, <1>6, RunCollectedJudged

-----------------------------------------------------------------------------
(* Every step.                                                             *)

\* No step makes the session believe what is not so.
LEMMA NextBelieves ==
    ASSUME IInv, Backed, Believes, [Next]_vars
    PROVE  Believes'
<1>1. CASE Launch
  BY <1>1, LaunchBelieves
<1>2. CASE LaunchRefused
  <2>1. phase' = "down"
    BY <1>2 DEF LaunchRefused, Run, CrashDuring
  <2> QED BY <2>1 DEF Believes
<1>3. CASE Repair
  <2>1. phase' = "down"
    BY <1>3 DEF Repair
  <2> QED BY <2>1 DEF Believes
<1>4. CASE \E i \in Intents, c \in Contents : Prepare(i, c)
  BY <1>4, PrepareBelieves
<1>5. CASE Submit
  BY <1>5, SubmitBelieves
<1>6. CASE Observe
  BY <1>6, ObserveBelieves
<1>7. CASE Fault
  BY <1>7, FaultBelieves
<1>8. CASE \E health \in {"Unknown", "Lost"} : LoseHealth(health)
  BY <1>8, LoseHealthBelieves
<1>9. CASE Disconnect
  BY <1>9, DisconnectBelieves
<1>10. CASE Reconnect
  BY <1>10, ReconnectBelieves
<1>11. CASE ShutdownBegin
  BY <1>11, ShutdownBeginBelieves
<1>12. CASE StopBegin
  <2>1. phase' \in {"stopping", "down"}
    BY <1>12 DEF StopBegin, CrashDuring
  <2> QED BY <2>1 DEF Believes
<1>13. CASE \E o \in Places : CancelOnStop(o)
  <2>1. phase' \in {"stopping", "down"}
    BY <1>13 DEF CancelOnStop, CrashDuring
  <2> QED BY <2>1 DEF Believes
<1>14. CASE StopEnd
  <2>1. phase' = "down"
    BY <1>14 DEF StopEnd, CrashDuring
  <2> QED BY <2>1 DEF Believes
<1>15. CASE ShutdownTimeout
  <2>1. phase' = "down"
    BY <1>15 DEF ShutdownTimeout
  <2> QED BY <2>1 DEF Believes
<1>16. CASE LaunchFailed \/ UNCHANGED vars
  <2>1. UNCHANGED vars
    BY <1>16 DEF LaunchFailed
  <2>2. /\ phase' = phase /\ mem' = mem /\ slot' = slot /\ broker' = broker /\ durable' = durable
    BY <2>1 DEF vars
  <2> QED BY <2>2 DEF Believes, Judged, Agrees, Same, Matches, Seen, Staged
<1> QED BY <1>1, <1>2, <1>3, <1>4, <1>5, <1>6, <1>7, <1>8, <1>9, <1>10, <1>11, <1>12, <1>13,
          <1>14, <1>15, <1>16 DEF Next

\* Nothing is believed before the first launch.
LEMMA InitBelieves ==
    ASSUME Init
    PROVE  Believes
BY DEF Init, Believes

\* What the session believes is what ready means.
LEMMA BelievesAgreement ==
    ASSUME IInv, Believes
    PROVE  ReadyMeansAgreement
<1> SUFFICES ASSUME mem.ready, slot = EmptySlot
             PROVE  /\ mem.view = broker.orders
                    /\ \A o \in DOMAIN mem.view : mem.view[o] = Snapshot(mem.orders[o])
                    /\ \/ durable.faulty /\ mem.blocked
                       \/ /\ ~durable.faulty
                          /\ mem.orders = durable.orders
                          /\ mem.lastUpdate = durable.lastUpdate
  BY DEF ReadyMeansAgreement
<1>1. phase \in {"down", "up", "draining", "stopping"}
  BY DEF IInv, Session
<1>2. phase # "down"
  <2>1. NoMemory.ready = FALSE
    BY DEF NoMemory
  <2> QED BY <2>1 DEF IInv, Session, Fits
<1>3. phase # "stopping"
  BY DEF IInv, Session, Fits
<1>4. Judged(mem, slot, broker, durable)
  BY <1>1, <1>2, <1>3 DEF Believes
<1>5. ~mem.safety /\ mem.reason = "none"
  BY DEF IInv, Session, GoodMem
<1>6. Same(mem, durable) /\ Seen(mem, broker.orders)
  BY <1>4, <1>5 DEF Judged, Agrees
<1> QED BY <1>6 DEF Same, Seen, Matches

\* In every reachable state a session that is ready, with no attempt in flight,
\* sees the orders the broker holds, as many and in the same state as its own; and
\* they are what a replay of its ledger would hold. Only a ledger that an intent
\* with two contents has spoiled does not replay, and then the session is blocked.
THEOREM SessionAgrees ==
    Spec => []ReadyMeansAgreement
<1>1. Init => Believes
  BY InitBelieves
<1>2. IInv /\ Backed /\ Believes /\ [Next]_vars => Believes'
  BY NextBelieves
<1>3. IInv /\ Believes => ReadyMeansAgreement
  BY BelievesAgreement
<1> QED BY <1>1, <1>2, <1>3, SessionIsSound, SessionIsBacked, PTL DEF Spec

-----------------------------------------------------------------------------
(* What stop() relies on: no working order is forgotten.                   *)

\* The records that put an order to work or change its terms.
Revivals == {"broker_acknowledged", "modified", "modify_rejected"}

\* Any other record of a session.
Narrow(e) == TypedRecord(e) /\ e.type \notin Revivals

\* A sequence of such records.
NarrowRecords(q) == \A k \in 1..Len(q) : Narrow(q[k])

\* Ledger t replays, and has no working order but those of ledger s, of the same
\* quantity.
Narrows(s, t) ==
    t.faulty \/
    /\ ~s.faulty
    /\ \A o \in DOMAIN t.orders : t.orders[o].state \in Working =>
         /\ o \in DOMAIN s.orders /\ s.orders[o].state \in Working
         /\ t.orders[o].effective = s.orders[o].effective

\* Only the two answers that revive an order and an accepted modify are told by
\* records that widen what works.
LEMMA RecordNarrows ==
    ASSUME NEW s, GoodReplay(s), GoodLedger(s), NEW e, Narrow(e), NEW t,
           t = ReplayRecord(s, e)
    PROVE  GoodReplay(t) /\ GoodLedger(t) /\ Narrows(s, t)
<1>1. GoodReplay(t) /\ GoodLedger(t)
  BY ReplayRecordSound, RecordKeepsLedger DEF RecordSound, Narrow
<1>2. CASE s.faulty
  BY <1>1, <1>2, FaultyStays DEF Narrows
<1>3. CASE t.faulty
  BY <1>1, <1>3 DEF Narrows
<1>4. CASE ~s.faulty /\ ~t.faulty
  <2>1. TypedRecord(e) /\ e.type \notin Revivals
    BY DEF Narrow
  <2>2. Legal(s, e) /\ t.orders = OrdersAfter(s, e)
    BY <1>4, <2>1, ReplayRecordEffect DEF RecordEffect
  <2>3. GoodOrders(s.orders)
    BY <1>4 DEF GoodLedger
  <2> DEFINE orders == OrdersAfter(s, e)
  <2>4. /\ e.type = "submission_started" =>
             /\ DOMAIN orders = DOMAIN s.orders \cup {e.order}
             /\ Submission(orders[e.order], e.quantity, e.price)
        /\ e.type # "submission_started" => DOMAIN orders = DOMAIN s.orders
        /\ e.type \in DOMAIN EvidenceKind =>
             /\ e.order \in DOMAIN s.orders
             /\ Moves(s.orders[e.order], EvidenceKind[e.type], orders[e.order])
        /\ \A o \in DOMAIN s.orders :
             e.type \notin DOMAIN EvidenceKind \/ o # e.order => orders[o] = s.orders[o]
    BY <2>1, <2>2, <2>3, LegalMoves
  <2> HIDE DEF orders
  <2>5. ASSUME NEW o \in DOMAIN orders, orders[o].state \in Working
        PROVE  /\ o \in DOMAIN s.orders /\ s.orders[o].state \in Working
               /\ orders[o].effective = s.orders[o].effective
    <3>1. CASE e.type = "submission_started" /\ o \notin DOMAIN s.orders
      <4>1. orders[o].state = "SubmissionStarted"
        BY <2>4, <3>1 DEF Submission
      <4> QED BY <2>5, <4>1, States
    <3>2. CASE o \in DOMAIN s.orders /\ (e.type \notin DOMAIN EvidenceKind \/ o # e.order)
      BY <2>4, <2>5, <3>2
    <3>3. CASE e.type \in DOMAIN EvidenceKind /\ o = e.order
      <4> DEFINE kind == EvidenceKind[e.type]
      <4>1. kind \notin Reviving /\ kind # "ModifyAccepted"
        BY <2>1, <3>3, RecordKinds DEF Revivals
      <4>2. Moves(s.orders[o], kind, orders[o]) /\ o \in DOMAIN s.orders
        BY <2>4, <3>3
      <4> HIDE DEF kind
      <4> QED BY <2>5, <4>1, <4>2 DEF Moves
    <3>4. e.type = "submission_started" => e.type \notin DOMAIN EvidenceKind
      BY RecordTypes
    <3> QED BY <2>4, <3>1, <3>2, <3>3, <3>4
  <2> QED BY <1>1, <1>4, <2>2, <2>5 DEF Narrows, orders
<1> QED BY <1>2, <1>3, <1>4

\* So do several records.
LEMMA ReplayNarrows ==
    ASSUME NEW s, GoodReplay(s), GoodLedger(s), NEW q, Len(q) \in Nat, NarrowRecords(q),
           NEW t, t = Replay(s, q)
    PROVE  GoodReplay(t) /\ GoodLedger(t) /\ Narrows(s, t)
<1> DEFINE N == Len(q)
<1>1. PICK r : IsReplay(r, s, q)
  BY ReplaySteps
<1>2. N \in Nat /\ r[0] = s /\ t = r[N]
      /\ \A n \in 1..N : r[n] = ReplayRecord(r[n - 1], q[n]) /\ Narrow(q[n])
  BY <1>1 DEF IsReplay, NarrowRecords
<1> HIDE DEF N
<1> DEFINE T == {n \in Nat : n <= N => GoodReplay(r[n]) /\ GoodLedger(r[n]) /\ Narrows(s, r[n])}
<1>3. 0 \in T
  BY <1>2 DEF Narrows
<1>4. ASSUME NEW n \in T PROVE n + 1 \in T
  <2> SUFFICES ASSUME n + 1 <= N
               PROVE  GoodReplay(r[n + 1]) /\ GoodLedger(r[n + 1]) /\ Narrows(s, r[n + 1])
    BY <1>4
  <2>1. n \in Nat /\ n + 1 \in 1..N /\ (n + 1) - 1 = n
        /\ GoodReplay(r[n]) /\ GoodLedger(r[n]) /\ Narrows(s, r[n])
    BY <1>2, <1>4
  <2>2. r[n + 1] = ReplayRecord(r[n], q[n + 1]) /\ Narrow(q[n + 1])
    BY <1>2, <2>1
  <2> HIDE DEF T
  <2>3. GoodReplay(r[n + 1]) /\ GoodLedger(r[n + 1]) /\ Narrows(r[n], r[n + 1])
    BY <2>1, <2>2, RecordNarrows
  <2>4. Narrows(s, r[n + 1])
    BY <2>1, <2>3 DEF Narrows
  <2> QED BY <2>3, <2>4
<1>5. T = Nat
  <2> HIDE DEF T
  <2> QED BY <1>3, <1>4, NatSetInduction DEF T
<1> QED BY <1>2, <1>5

\* Records that narrow, one after the other.
LEMMA NarrowAppended ==
    ASSUME NEW s, IsSequence(s), NarrowRecords(s), NEW a, Narrow(a)
    PROVE  IsSequence(Append(s, a)) /\ NarrowRecords(Append(s, a))
<1> DEFINE q == Append(s, a)
<1>1. /\ IsSequence(q) /\ Len(q) = Len(s) + 1 /\ q[Len(s) + 1] = a
      /\ \A k \in 1..Len(s) : q[k] = s[k]
      /\ Len(s) \in Nat
  BY AppendedSequences
<1> HIDE DEF q
<1>2. \A k \in 1..Len(q) : k \in 1..Len(s) \/ k = Len(s) + 1
  BY <1>1
<1>3. NarrowRecords(q)
  BY <1>1, <1>2 DEF NarrowRecords
<1> QED BY <1>1, <1>3 DEF q

\* No record, one record, and records that only note or stop.
LEMMA NarrowFew ==
    /\ NarrowRecords(<< >>)
    /\ \A a : Narrow(a) => IsSequence(<<a>>) /\ NarrowRecords(<<a>>)
    /\ \A q : IdleRecords(q) => NarrowRecords(q)
    /\ \A e : PlainRecord(e) /\ e.type \notin Revivals => Narrow(e)
<1>1. ASSUME NEW a, Narrow(a) PROVE NarrowRecords(<<a>>)
  <2> DEFINE q == <<a>>
  <2>1. \A k \in 1..Len(q) : q[k] = a
    OBVIOUS
  <2> HIDE DEF q
  <2>2. NarrowRecords(q)
    BY <1>1, <2>1 DEF NarrowRecords
  <2> QED BY <2>2 DEF q
<1>2. ASSUME NEW e, Idle(e) PROVE Narrow(e)
  <2>1. Revivals \subseteq DOMAIN EvidenceKind
    BY DEF Revivals, EvidenceKind
  <2> QED BY <1>2, <2>1 DEF Idle, Narrow, Named
<1>3. \A a : IsSequence(<<a>>)
  BY FewRecords
<1>4. NarrowRecords(<< >>)
  BY DEF NarrowRecords
<1> QED BY <1>1, <1>2, <1>3, <1>4 DEF NarrowRecords, IdleRecords, PlainRecord, Narrow

\* Two sequences of them.
LEMMA NarrowJoined ==
    ASSUME NEW s, IsSequence(s), NarrowRecords(s), NEW t, IsSequence(t), NarrowRecords(t)
    PROVE  IsSequence(s \o t) /\ NarrowRecords(s \o t)
<1> DEFINE q == s \o t
<1>1. /\ IsSequence(q) /\ Len(q) = Len(s) + Len(t)
      /\ \A k \in 1..Len(s) : q[k] = s[k]
      /\ \A k \in 1..Len(t) : q[Len(s) + k] = t[k]
      /\ Len(s) \in Nat /\ Len(t) \in Nat
  BY JoinedSequences, AppendedSequences
<1> HIDE DEF q
<1>2. ASSUME NEW k \in 1..Len(q) PROVE Narrow(q[k])
  <2>1. CASE k \in 1..Len(s)
    BY <1>1, <2>1 DEF NarrowRecords
  <2>2. CASE k \notin 1..Len(s)
    <3>1. k - Len(s) \in 1..Len(t) /\ Len(s) + (k - Len(s)) = k
      BY <1>1, <2>2
    <3> QED BY <1>1, <3>1 DEF NarrowRecords
  <2> QED BY <2>1, <2>2
<1>3. NarrowRecords(q)
  BY <1>2 DEF NarrowRecords
<1> QED BY <1>1, <1>3 DEF q

\* Records of the types that are no answer of the broker.
LEMMA QuietNarrow ==
    /\ \A type \in QuietTypes : \A i, o : Narrow(Event(type, i, o))
    /\ \A i, o : Narrow(SafetyStop(i, o))
    /\ \A m : IsSequence(StopOnceEvents(m)) /\ NarrowRecords(StopOnceEvents(m))
<1>1. Revivals \subseteq DOMAIN EvidenceKind
  BY DEF Revivals, EvidenceKind
<1>2. ASSUME NEW type \in QuietTypes, NEW i, NEW o PROVE Narrow(Event(type, i, o))
  <2> DEFINE e == Event(type, i, o)
  <2>1. e.type = type
    BY EventIs
  <2>2. PlainRecord(e) /\ type \notin DOMAIN EvidenceKind
    BY QuietRecords
  <2> HIDE DEF e
  <2>3. Narrow(e)
    BY <1>1, <2>1, <2>2, NarrowFew
  <2> QED BY <2>3 DEF e
<1>3. ASSUME NEW i, NEW o PROVE Narrow(SafetyStop(i, o))
  <2> DEFINE e == SafetyStop(i, o)
  <2>1. PlainRecord(e) /\ e.type = "safety_stop"
    BY SafetyStopRecords
  <2>2. "safety_stop" \notin Revivals
    BY DEF Revivals
  <2> HIDE DEF e
  <2>3. Narrow(e)
    BY <2>1, <2>2, NarrowFew
  <2> QED BY <2>3 DEF e
<1>4. \A m : IsSequence(StopOnceEvents(m)) /\ NarrowRecords(StopOnceEvents(m))
  BY IdleStopOnce, NarrowFew
<1> QED BY <1>2, <1>3, <1>4

\* The session's view of the broker is of its own orders, and what it shows as
\* done is done at the broker.
Reflects(m, held) ==
    \A o \in DOMAIN m.view :
       /\ m.view[o].quantity = m.orders[o].effective /\ m.view[o].price = m.orders[o].price
       /\ m.view[o].state \in BrokerTerminal =>
            o \in DOMAIN held /\ held[o].state \in BrokerTerminal

\* The view shows that it is not what the broker holds (Reconciler::compare):
\* an order is missing, is done by now, or has other terms.
Misses(m, held, o) ==
    \/ o \notin DOMAIN m.view
    \/ held[o].state \in BrokerTerminal /\ m.view[o].state \notin BrokerTerminal
    \/ m.view[o].quantity # held[o].quantity \/ m.view[o].price # held[o].price

\* The view misses something.
Missed(m, held) == \E o \in DOMAIN held : Misses(m, held, o)

\* Every order that works on record works at the broker.
Tracked(d, held) ==
    \A o \in DOMAIN d.orders : d.orders[o].state \in Working =>
       /\ o \in DOMAIN held /\ held[o].state \notin BrokerTerminal
       /\ d.orders[o].effective = held[o].quantity

\* What works on record works at the broker, or the comparison that ends a stop
\* cannot agree.
Accounted(m, d, health, held) ==
    d.faulty \/ health # "Ready" \/ Missed(m, held) \/ Tracked(d, held)

\* A capability is current only while nothing has stopped the session.
Unrevoked(m, s) == s.intent # NoId /\ s.current => m.reason = "none"

\* What a session accounts for while the server runs.
Accounts(m, s, b, d) ==
    /\ Reflects(m, b.orders)
    /\ Accounted(m, d, b.health, b.orders)
    /\ Unrevoked(m, s)

\* The same of what a handler leaves.
AccountsFor(out) == Accounts(out.mem, out.slot, out.broker, Replay(durable, out.events))

\* stop() still has to cancel every order that works on record, while it may
\* still end reconciled.
StopAccounts ==
    /\ \A o \in todo : o \in DOMAIN broker.orders /\ broker.orders[o].state \notin BrokerTerminal
    /\ report = "complete" =>
         \/ durable.faulty \/ broker.health # "Ready" \/ Missed(mem, broker.orders)
         \/ \A o \in DOMAIN durable.orders : durable.orders[o].state \in Working => o \in todo

\* The invariant.
Settles ==
    /\ phase \in {"up", "draining"} => Accounts(mem, slot, broker, durable)
    /\ phase = "stopping" => StopAccounts
    /\ report = "reconciled" => phase = "down"
    /\ ReconciledStopIsSettled

\* A session that agrees with its broker and its ledger accounts for its orders.
LEMMA AgreementAccounts ==
    ASSUME NEW m, GoodOrders(m.orders), NEW d, Same(m, d), NEW held, Seen(m, held), NEW health
    PROVE  Reflects(m, held) /\ Accounted(m, d, health, held)
<1>1. m.view = held
  BY DEF Seen
<1>2. ASSUME NEW o \in DOMAIN held
      PROVE  LET order == m.orders[o]
             IN  /\ held[o].quantity = order.effective /\ held[o].price = order.price
                 /\ held[o].state \notin BrokerTerminal <=> order.state \in Working
  <2> DEFINE order == m.orders[o]
             s == held[o]
  <2>1. /\ o \in DOMAIN m.orders /\ order.state \notin Unresolved \cup {"SubmissionStarted"}
        /\ s = Snapshot(order)
    BY <1>2 DEF Seen
  <2>2. GoodOrder(order)
    BY <2>1 DEF GoodOrders
  <2> HIDE DEF order, s
  <2>3. s.quantity = order.effective /\ s.price = order.price
    BY <2>1, SnapshotIs
  <2>4. s.state \notin BrokerTerminal <=> order.state \in Working
    BY <2>1, <2>2, WorkingSnapshot
  <2> QED BY <2>3, <2>4 DEF order, s
<1>3. Reflects(m, held)
  BY <1>1, <1>2 DEF Reflects
<1>4. ~d.faulty => Tracked(d, held)
  <2> SUFFICES ASSUME ~d.faulty, NEW o \in DOMAIN d.orders, d.orders[o].state \in Working
               PROVE  /\ o \in DOMAIN held /\ held[o].state \notin BrokerTerminal
                      /\ d.orders[o].effective = held[o].quantity
    BY DEF Tracked
  <2>1. d.orders = m.orders
    BY DEF Same, Matches
  <2>2. o \in DOMAIN held
    BY <2>1, States DEF Seen
  <2> QED BY <1>2, <2>1, <2>2
<1> QED BY <1>3, <1>4 DEF Accounted

\* What narrows is still tracked.
LEMMA NarrowsTracked ==
    ASSUME NEW m, NEW s, NEW health, NEW held, Accounted(m, s, health, held), NEW t, Narrows(s, t),
           NEW n, n.view = m.view
    PROVE  Accounted(n, t, health, held)
<1>1. Missed(m, held) => Missed(n, held)
  BY DEF Missed, Misses
<1>2. ~t.faulty /\ Tracked(s, held) => Tracked(t, held)
  BY DEF Narrows, Tracked
<1> QED BY <1>1, <1>2 DEF Accounted, Narrows

\* A handler that leaves the broker and the view alone, and the terms of the
\* orders in it.
LEMMA NarrowAccounts ==
    ASSUME IInv, Backed, Accounts(mem, slot, broker, durable),
           NEW q, IsSequence(q), NarrowRecords(q), NEW m, m.view = mem.view,
           \A o \in DOMAIN mem.view : /\ m.orders[o].effective = mem.orders[o].effective
                                      /\ m.orders[o].price = mem.orders[o].price,
           NEW s, Unrevoked(m, s)
    PROVE  AccountsFor(Outcome(q, m, s))
<1> DEFINE out == Outcome(q, m, s)
           d == Replay(durable, q)
<1>1. out.events = q /\ out.mem = m /\ out.slot = s /\ out.broker = broker
  BY OutcomeIs
<1> HIDE DEF out
<1>2. Reflects(m, broker.orders)
  BY DEF Accounts, Reflects
<1>3. GoodReplay(durable) /\ GoodLedger(durable) /\ Len(q) \in Nat
  BY AppendedSequences DEF IInv, Recorded, Backed
<1>4. Narrows(durable, d)
  BY <1>3, ReplayNarrows
<1> HIDE DEF d
<1>5. Accounted(m, d, broker.health, broker.orders)
  BY <1>4, NarrowsTracked DEF Accounts
<1>6. AccountsFor(out)
  BY <1>1, <1>2, <1>5 DEF AccountsFor, Accounts, d
<1> QED BY <1>6 DEF out

\* A handler that runs to its end.
LEMMA RunSettles ==
    ASSUME Settles, phase \in {"up", "draining"}, NEW out, AccountsFor(out), Run(out)
    PROVE  Settles'
<1>1. report # "reconciled"
  BY DEF Settles
<1>2. CASE Finish(out) /\ UNCHANGED <<phase, todo, report, budget>>
  <2>1. Accounts(mem', slot', broker', durable')
    BY <1>2 DEF Finish, AccountsFor
  <2>2. phase' # "stopping" /\ report' # "reconciled"
    BY <1>1, <1>2
  <2> QED BY <2>1, <2>2 DEF Settles, ReconciledStopIsSettled
<1>3. CASE CrashDuring(out)
  BY <1>3 DEF CrashDuring, Settles, ReconciledStopIsSettled
<1> QED BY <1>2, <1>3 DEF Run

\* What is accounted for does not depend on whether records were collected.
LEMMA AccountsAlike ==
    ASSUME NEW m, NEW s, NEW b, NEW d, Accounts(m, s, b, d), NEW n,
           n.reason = m.reason, n.orders = m.orders, n.view = m.view
    PROVE  Accounts(n, s, b, d)
<1>1. Reflects(n, b.orders)
  BY DEF Accounts, Reflects
<1>2. Missed(m, b.orders) => Missed(n, b.orders)
  BY DEF Missed, Misses
<1> QED BY <1>1, <1>2 DEF Accounts, Accounted, Unrevoked

\* A handler whose records are collected.
LEMMA RunCollectedSettles ==
    ASSUME Settles, phase \in {"up", "draining"}, NEW out, Sound(out), AccountsFor(out),
           RunCollected(out)
    PROVE  Settles'
<1> DEFINE refused == mem.behind /\ out.events # << >>
           noted == [out EXCEPT !.mem.behind = @ /\ ~refused]
<1>1. report # "reconciled"
  BY DEF Settles
<1>2. CASE /\ Finish(noted) /\ phase' = (IF refused THEN "draining" ELSE phase)
           /\ UNCHANGED <<todo, report, budget>>
  <2>1. DOMAIN out = OutcomeFields /\ DOMAIN out.mem = MemFields
    BY DEF Sound, PartsSound, GoodMem
  <2> HIDE DEF refused
  <2>2. /\ noted.events = out.events /\ noted.slot = out.slot /\ noted.broker = out.broker
        /\ noted.mem.reason = out.mem.reason /\ noted.mem.orders = out.mem.orders
        /\ noted.mem.view = out.mem.view
    BY <2>1 DEF OutcomeFields, MemFields
  <2> HIDE DEF noted
  <2>3. AccountsFor(noted)
    BY <2>2, AccountsAlike DEF AccountsFor
  <2>4. Accounts(mem', slot', broker', durable')
    BY <1>2, <2>3 DEF Finish, AccountsFor
  <2>5. phase' # "stopping" /\ report' # "reconciled"
    BY <1>1, <1>2
  <2> QED BY <2>4, <2>5 DEF Settles, ReconciledStopIsSettled
<1>3. CASE CrashDuring(out)
  BY <1>3 DEF CrashDuring, Settles, ReconciledStopIsSettled
<1> QED BY <1>2, <1>3 DEF RunCollected

\* A handler that moves no order.
LEMMA QuietAccounts ==
    ASSUME IInv, Backed, Accounts(mem, slot, broker, durable),
           NEW q, IsSequence(q), NarrowRecords(q), NEW m, SameOrders(m), NEW s, Unrevoked(m, s)
    PROVE  AccountsFor(Outcome(q, m, s))
<1>1. m.view = mem.view /\ m.orders = mem.orders
  BY DEF SameOrders
<1> QED BY <1>1, NarrowAccounts

\* A process that dies reports nothing.
LEMMA CrashSettles ==
    ASSUME NEW out, CrashDuring(out)
    PROVE  Settles'
BY DEF CrashDuring, Settles, ReconciledStopIsSettled

\* A handler that ends while the server runs.
LEMMA FinishSettles ==
    ASSUME Settles, phase \in {"up", "draining"}, NEW out, AccountsFor(out), Finish(out),
           phase' \in {"up", "draining"}, report' = report
    PROVE  Settles'
<1>1. Accounts(mem', slot', broker', durable')
  BY DEF Finish, AccountsFor
<1>2. phase' # "stopping" /\ report' # "reconciled"
  BY DEF Settles
<1> QED BY <1>1, <1>2 DEF Settles, ReconciledStopIsSettled

\* A revoked slot holds no current capability.
LEMMA RevokedSlot ==
    ASSUME IInv, NEW m
    PROVE  Unrevoked(m, Revoked(slot)) /\ Unrevoked(m, EmptySlot)
<1>1. slot \in [intent : Intents \cup {NoId}, current : BOOLEAN]
  BY DEF IInv, Session, GoodSlot
<1>2. Revoked(slot).current = FALSE
  BY <1>1 DEF Revoked
<1>3. EmptySlot.intent = NoId
  BY EmptySlotGood
<1> QED BY <1>2, <1>3 DEF Unrevoked

\* A risk or broker fault.
LEMMA FaultSettles ==
    ASSUME IInv, Backed, Settles, Fault
    PROVE  Settles'
<1> DEFINE u == StopOnce(mem, "other")
           m == [u EXCEPT !.behind = TRUE]
           q == StopOnceEvents(mem)
           s == Revoked(slot)
           out == Outcome(q, m, s)
<1>1. Run(out) /\ phase \in {"up", "draining"} /\ Accounts(mem, slot, broker, durable)
  BY DEF Fault, Settles
<1>2. SameOrders(m)
  BY NotedOrders
<1>3. IsSequence(q) /\ NarrowRecords(q)
  BY QuietNarrow
<1>4. Unrevoked(m, s)
  BY RevokedSlot
<1> HIDE DEF m, q, s, u
<1>5. AccountsFor(out)
  BY <1>1, <1>2, <1>3, <1>4, QuietAccounts
<1> HIDE DEF out
<1> QED BY <1>1, <1>5, RunSettles

\* A strategy that disconnects.
LEMMA DisconnectSettles ==
    ASSUME IInv, Backed, Settles, Disconnect
    PROVE  Settles'
<1> DEFINE u == StopOnce(mem, "strategy")
           m == [u EXCEPT !.connected = FALSE]
           q == StopOnceEvents(mem)
           out == Outcome(q, m, slot)
<1>1. /\ phase \in {"up", "draining"} /\ slot = EmptySlot
      /\ \/ Finish(out) /\ phase' = phase /\ report' = report
         \/ CrashDuring(out)
  BY DEF Disconnect
<1>2. Accounts(mem, slot, broker, durable)
  BY <1>1 DEF Settles
<1>3. SameOrders(m)
  BY NotedOrders
<1>4. IsSequence(q) /\ NarrowRecords(q)
  BY QuietNarrow
<1>5. Unrevoked(m, slot)
  BY <1>1, RevokedSlot
<1> HIDE DEF u, m, q
<1>6. AccountsFor(out)
  BY <1>2, <1>3, <1>4, <1>5, QuietAccounts
<1> HIDE DEF out
<1> QED BY <1>1, <1>6, FinishSettles, CrashSettles

\* The start of shutdown().
LEMMA ShutdownBeginSettles ==
    ASSUME IInv, Backed, Settles, ShutdownBegin
    PROVE  Settles'
<1> DEFINE u == StopOnce(mem, "other")
           m == [u EXCEPT !.behind = FALSE]
           q == StopOnceEvents(mem)
           s == Revoked(slot)
           out == Outcome(q, m, s)
<1>1. /\ phase \in {"up", "draining"}
      /\ \/ Finish(out) /\ phase' \in {"up", "draining"} /\ report' = report
         \/ CrashDuring(out)
  BY DEF ShutdownBegin
<1>2. Accounts(mem, slot, broker, durable)
  BY <1>1 DEF Settles
<1>3. SameOrders(m)
  BY NotedOrders
<1>4. IsSequence(q) /\ NarrowRecords(q)
  BY QuietNarrow
<1>5. Unrevoked(m, s)
  BY RevokedSlot
<1> HIDE DEF u, m, q, s
<1>6. AccountsFor(out)
  BY <1>2, <1>3, <1>4, <1>5, QuietAccounts
<1> HIDE DEF out
<1> QED BY <1>1, <1>6, FinishSettles, CrashSettles

\* A broker that loses its health: no comparison will agree any more.
LEMMA LoseHealthSettles ==
    ASSUME IInv, Settles, NEW health \in {"Unknown", "Lost"}, LoseHealth(health)
    PROVE  Settles'
<1> DEFINE b == [broker EXCEPT !.health = health]
<1>1. /\ broker' = b /\ phase' = phase /\ mem' = mem /\ slot' = slot /\ durable' = durable
      /\ todo' = todo /\ report' = report
  BY DEF LoseHealth
<1>2. DOMAIN broker = {"health", "orders"}
  BY DEF IInv, Session, GoodBroker
<1>3. b.health # "Ready" /\ b.orders = broker.orders
  BY <1>2
<1> HIDE DEF b
<1>4. Accounts(mem, slot, broker, durable) => Accounts(mem, slot, b, durable)
  BY <1>3 DEF Accounts, Accounted
<1>5. StopAccounts => StopAccounts'
  BY <1>1, <1>3 DEF StopAccounts
<1>6. ReconciledStopIsSettled => ReconciledStopIsSettled'
  BY <1>1 DEF ReconciledStopIsSettled
<1> QED BY <1>1, <1>4, <1>5, <1>6 DEF Settles

\* A reconnect restores the session, or stops it again.
LEMMA RestoredAccounts ==
    ASSUME IInv, Backed, Accounts(mem, slot, broker, durable), slot = EmptySlot, NEW fresh \in BOOLEAN
    PROVE  AccountsFor(Restored(fresh))
<1> DEFINE back == [mem EXCEPT !.connected = TRUE]
           clear == [back EXCEPT !.kill = FALSE, !.safety = FALSE, !.recon = FALSE,
                                 !.ready = mem.observed]
           a == Event("reconciliation_completed", NoId, NoId)
           b == Event("session_started", NoId, NoId)
           stop == SafetyStop(NoId, NoId)
           started == IF mem.observed THEN <<b>> ELSE << >>
           first == <<a>>
           e == first \o started
           f == Append(e, stop)
           one == <<stop>>
           u == SafetyStopped(back)
           w == SafetyStopped(clear)
           failed == [u EXCEPT !.behind = TRUE]
           cured == [clear EXCEPT !.reason = "none"]
           stale == [w EXCEPT !.reason = "other"]
           none == << >>
<1>1. Restored(fresh) =
        IF mem.reason # "strategy" THEN Outcome(none, back, slot)
        ELSE IF ~ExactAgreement \/ broker.health # "Ready" THEN Outcome(one, failed, slot)
        ELSE IF fresh THEN Outcome(e, cured, slot)
        ELSE Outcome(f, stale, slot)
  BY DEF Restored
<1>2. Idle(a) /\ Idle(b) /\ Idle(stop)
  BY IdleTypes DEF Reconciled
<1> HIDE DEF a, b, stop
<1>3. IsSequence(first) /\ IdleRecords(first)
  BY <1>2, IdleFew, FewRecords
<1>4. IsSequence(e) /\ IdleRecords(e)
  <2> HIDE DEF first
  <2>1. CASE mem.observed
    <3>1. e = Append(first, b)
      BY <1>3, <2>1, JoinedFew
    <3> HIDE DEF e
    <3> QED BY <1>2, <1>3, <3>1, IdleAppended
  <2>2. CASE ~mem.observed
    <3>1. e = first
      BY <1>3, <2>2, JoinedFew
    <3> HIDE DEF e
    <3> QED BY <1>3, <3>1
  <2> QED BY <2>1, <2>2
<1> HIDE DEF first, started, e
<1>5. IsSequence(f) /\ IdleRecords(f)
  BY <1>2, <1>4, IdleAppended
<1>6. IsSequence(one) /\ IdleRecords(one) /\ IsSequence(none) /\ IdleRecords(none)
  BY <1>2, IdleFew, FewRecords
<1> HIDE DEF f, one, none
<1>7. DOMAIN mem = MemFields
  BY DEF IInv, Session, GoodMem
<1>8. DOMAIN back = MemFields /\ SameOrders(back)
  BY <1>7 DEF MemFields, SameOrders
<1> HIDE DEF back
<1>9. DOMAIN clear = MemFields /\ SameOrders(clear) /\ DOMAIN u = MemFields /\ SameOrders(u)
  BY <1>8 DEF MemFields, SameOrders, SafetyStopped
<1> HIDE DEF clear, u
<1>10. DOMAIN w = MemFields /\ SameOrders(w) /\ SameOrders(failed) /\ SameOrders(cured)
  BY <1>9 DEF MemFields, SameOrders, SafetyStopped
<1> HIDE DEF w, failed, cured
<1>11. SameOrders(stale)
  BY <1>10 DEF MemFields, SameOrders
<1> HIDE DEF stale
<1>12. \A m : Unrevoked(m, slot)
  BY RevokedSlot
<1>13. \A q, m : IsSequence(q) /\ IdleRecords(q) /\ SameOrders(m) => AccountsFor(Outcome(q, m, slot))
  <2> SUFFICES ASSUME NEW q, NEW m, IsSequence(q), IdleRecords(q), SameOrders(m)
               PROVE  AccountsFor(Outcome(q, m, slot))
    OBVIOUS
  <2>1. NarrowRecords(q)
    BY NarrowFew
  <2> QED BY <1>12, <2>1, QuietAccounts
<1> QED BY <1>1, <1>4, <1>5, <1>6, <1>8, <1>10, <1>11, <1>13

\* The strategy is back.
LEMMA ReconnectSettles ==
    ASSUME IInv, Backed, Settles, Reconnect
    PROVE  Settles'
<1>1. PICK fresh \in BOOLEAN : Run(Restored(fresh))
  BY DEF Reconnect
<1>2. slot = EmptySlot /\ phase \in {"up", "draining"} /\ Accounts(mem, slot, broker, durable)
  BY DEF Reconnect, IInv, Session, Fits, Settles
<1>3. AccountsFor(Restored(fresh))
  BY <1>2, RestoredAccounts
<1> QED BY <1>1, <1>2, <1>3, RunSettles

\* Another payload for a received intent.
LEMMA ConflictAccounts ==
    ASSUME IInv, Backed, Accounts(mem, slot, broker, durable), slot = EmptySlot, NEW i
    PROVE  AccountsFor(Conflict(i))
<1> DEFINE a == SafetyStop(i, NoId)
           b == Event("risk_rejected", i, NoId)
           u == SafetyStopped(mem)
           m == [u EXCEPT !.blocked = TRUE]
           e == <<a, b>>
           first == <<a>>
<1>1. Conflict(i) = Outcome(e, m, slot)
  BY DEF Conflict
<1>2. Narrow(a) /\ Narrow(b)
  BY QuietNarrow, QuietTypesAre
<1>3. SameOrders(u)
  BY StoppedOrders
<1>4. DOMAIN u = MemFields
  <2> HIDE DEF u
  <2>1. GoodMem(u)
    BY SafetyStoppedIs DEF u, IInv, Session
  <2> QED BY <2>1 DEF GoodMem
<1>5. e = Append(first, b)
  OBVIOUS
<1> HIDE DEF a, b, u, e
<1>6. IsSequence(first) /\ NarrowRecords(first)
  BY <1>2, NarrowFew
<1> HIDE DEF first
<1>7. IsSequence(e) /\ NarrowRecords(e)
  BY <1>2, <1>5, <1>6, NarrowAppended
<1>8. SameOrders(m)
  BY <1>3, <1>4 DEF SameOrders, MemFields
<1> HIDE DEF m
<1>9. Unrevoked(m, slot)
  BY RevokedSlot
<1> QED BY <1>1, <1>7, <1>8, <1>9, QuietAccounts

\* A prepared capability without authority.
LEMMA SubmitRevokedAccounts ==
    ASSUME IInv, Backed, Accounts(mem, slot, broker, durable), NEW i
    PROVE  AccountsFor(SubmitRevoked(i))
<1> DEFINE type == "reconciliation_required"
           a == Event(type, i, OrderOf(i))
           e == <<a>>
           m == [mem EXCEPT !.recon = TRUE, !.safety = TRUE]
<1>1. SubmitRevoked(i) = Outcome(e, m, EmptySlot)
  BY DEF SubmitRevoked
<1>2. type \in QuietTypes
  BY QuietTypesAre
<1>3. DOMAIN mem = MemFields
  BY DEF IInv, Session, GoodMem
<1>4. SameOrders(m)
  BY <1>3 DEF SameOrders, MemFields
<1> HIDE DEF type, m
<1>5. Narrow(a)
  BY <1>2, QuietNarrow
<1> HIDE DEF a
<1>6. IsSequence(e) /\ NarrowRecords(e)
  BY <1>5, NarrowFew
<1> HIDE DEF e
<1>7. Unrevoked(m, EmptySlot)
  BY RevokedSlot
<1> QED BY <1>1, <1>4, <1>6, <1>7, QuietAccounts

\* An attempt record that is not acknowledged.
LEMMA SubmitUnacknowledgedAccounts ==
    ASSUME IInv, Backed, phase \in {"up", "draining"}, Accounts(mem, slot, broker, durable), NEW i
    PROVE  AccountsFor(SubmitUnacknowledged(i))
<1> DEFINE a == SafetyStop(i, OrderOf(i))
           stops == StopOnceEvents(mem)
           e == Append(stops, a)
           m == SafetyStopped(StopOnce(mem, "other"))
<1>1. SubmitUnacknowledged(i) = Outcome(e, m, EmptySlot)
  BY DEF SubmitUnacknowledged
<1>2. Narrow(a) /\ IsSequence(stops) /\ NarrowRecords(stops)
  BY QuietNarrow
<1>3. SameOrders(m)
  BY StoppedOrders DEF IInv, Session, Fits
<1> HIDE DEF a, stops, m
<1>4. IsSequence(e) /\ NarrowRecords(e)
  BY <1>2, NarrowAppended
<1> HIDE DEF e
<1>5. Unrevoked(m, EmptySlot)
  BY RevokedSlot
<1> QED BY <1>1, <1>3, <1>4, <1>5, QuietAccounts

\* What a reconciled stop settled stays settled by records that narrow.
LEMMA NarrowStaysSettled ==
    ASSUME IInv, Backed, ReconciledStopIsSettled, NEW q, IsSequence(q), NarrowRecords(q),
           durable' = Replay(durable, q), report' = report
    PROVE  ReconciledStopIsSettled'
<1>1. GoodReplay(durable) /\ GoodLedger(durable) /\ Len(q) \in Nat
  BY AppendedSequences DEF IInv, Recorded, Backed
<1>2. Narrows(durable, durable')
  BY <1>1, ReplayNarrows
<1> QED BY <1>2 DEF Narrows, ReconciledStopIsSettled

\* preflight() refuses and records that it did.
LEMMA LaunchRefusedSettles ==
    ASSUME IInv, Backed, Settles, LaunchRefused
    PROVE  Settles'
<1> DEFINE a == SafetyStop(NoId, NoId)
           e == <<a>>
           out == Outcome(e, mem, slot)
<1>1. Run(out) /\ phase = "down"
  BY DEF LaunchRefused
<1>2. Narrow(a)
  BY QuietNarrow
<1> HIDE DEF a
<1>3. IsSequence(e) /\ NarrowRecords(e)
  BY <1>2, NarrowFew
<1>4. out.events = e
  BY OutcomeIs
<1> HIDE DEF e, out
<1>5. CASE Finish(out) /\ UNCHANGED <<phase, report>>
  <2>1. durable' = Replay(durable, e) /\ report' = report /\ phase' = "down"
    BY <1>1, <1>4, <1>5 DEF Finish
  <2>2. ReconciledStopIsSettled'
    BY <1>3, <2>1, NarrowStaysSettled DEF Settles
  <2> QED BY <2>1, <2>2 DEF Settles
<1>6. CASE CrashDuring(out)
  BY <1>6, CrashSettles
<1> QED BY <1>1, <1>5, <1>6 DEF Run

\* The offline repair adds its incident.
LEMMA RepairSettles ==
    ASSUME IInv, Backed, Settles, Repair
    PROVE  Settles'
<1> DEFINE type == "ledger_repair_recorded"
           a == Event(type, NoId, NoId)
           e == <<a>>
<1>1. durable' = Replay(durable, e) /\ report' = report /\ phase' = "down"
  BY DEF Repair
<1>2. type \in QuietTypes
  BY QuietTypesAre
<1> HIDE DEF type
<1>3. Narrow(a)
  BY <1>2, QuietNarrow
<1> HIDE DEF a
<1>4. IsSequence(e) /\ NarrowRecords(e)
  BY <1>3, NarrowFew
<1> HIDE DEF e
<1>5. ReconciledStopIsSettled'
  BY <1>1, <1>4, NarrowStaysSettled DEF Settles
<1> QED BY <1>1, <1>5 DEF Settles

\* shutdown() misses its deadline before stop().
LEMMA ShutdownTimeoutSettles ==
    ASSUME Settles, ShutdownTimeout
    PROVE  Settles'
<1>1. report' # "reconciled" /\ phase' = "down"
  BY DEF ShutdownTimeout, Settles
<1> QED BY <1>1 DEF Settles, ReconciledStopIsSettled

\* A session begins with what is on record.
LEMMA LaunchSettles ==
    ASSUME IInv, Backed, Launch
    PROVE  Settles'
<1> DEFINE snapshots == [o \in DOMAIN durable.orders |-> Snapshot(durable.orders[o])]
           received == [i \in DOMAIN durable.intents |-> durable.intents[i].content]
           m == [NoMemory EXCEPT !.received = received, !.orders = durable.orders,
                                 !.view = snapshots, !.lastUpdate = durable.lastUpdate]
           b == [health |-> "Ready", orders |-> snapshots]
           quiet == Outcome(<<Reconciled>>, m, EmptySlot)
           out == Recovered
<1>1. out = [quiet EXCEPT !.broker = b]
  BY DEF Recovered, Reconciled
<1>2. DOMAIN NoMemory = MemFields /\ NoMemory.reason = "none"
  BY NothingRemembered DEF GoodMem
<1>3. NoMemory.safety = FALSE
  BY DEF NoMemory
<1> HIDE DEF snapshots, received
<1>4. m.reason = "none" /\ m.safety = FALSE
  BY <1>2, <1>3 DEF MemFields
<1> HIDE DEF m, b, quiet, out
<1>5. DOMAIN quiet = OutcomeFields /\ quiet.mem = m /\ quiet.slot = EmptySlot
  BY OutcomeIs DEF quiet
<1>6. out.mem = m /\ out.slot = EmptySlot
  BY <1>1, <1>5 DEF OutcomeFields
<1>7. CASE CrashDuring(out)
  BY <1>7, CrashSettles
<1>8. CASE Finish(out) /\ phase' = "up" /\ report' = "none"
  <2>1. mem' = m /\ slot' = EmptySlot
    BY <1>6, <1>8 DEF Finish
  <2>2. Judged(mem', slot', broker', durable')
    BY <1>8, LaunchBelieves DEF Believes
  <2>3. Same(mem', durable') /\ Seen(mem', broker'.orders)
    BY <1>4, <2>1, <2>2 DEF Judged, Agrees
  <2>4. GoodOrders(mem'.orders)
    BY LaunchBacked DEF Backed, Shape
  <2>5. PICK n, d, held, health :
          n = mem' /\ d = durable' /\ held = broker'.orders /\ health = broker'.health
    OBVIOUS
  <2>6. Reflects(n, held) /\ Accounted(n, d, health, held)
    BY <2>3, <2>4, <2>5, AgreementAccounts
  <2>7. Unrevoked(mem', slot')
    BY <1>4, <2>1 DEF Unrevoked
  <2>8. Accounts(mem', slot', broker', durable')
    BY <2>5, <2>6, <2>7 DEF Accounts
  <2> QED BY <1>8, <2>8 DEF Settles, ReconciledStopIsSettled
<1> QED BY <1>7, <1>8 DEF Launch, out

\* The record of an attempt.
LEMMA AttemptNarrow ==
    ASSUME NEW i \in Intents
    PROVE  Narrow(IntentEvent(AttemptType(i), i))
<1> DEFINE type == AttemptType(i)
           e == IntentEvent(type, i)
<1>1. /\ type # "reconciliation_completed" /\ type \notin Revivals
      /\ type \in {"submission_started", "broker_acknowledged", "broker_rejected"} => i \in Places
  BY DEF AttemptType, Revivals
<1> HIDE DEF type
<1>2. PlainRecord(e) /\ e.type = type
  BY <1>1, IntentRecords
<1> HIDE DEF e
<1>3. Narrow(e)
  BY <1>1, <1>2, NarrowFew
<1> QED BY <1>3 DEF e, type

\* A new intent that was approved: an attempt moves no terms of a known order.
LEMMA AttemptAccounts ==
    ASSUME IInv, Backed, Accounts(mem, slot, broker, durable), slot = EmptySlot, NEW i \in Intents,
           i \in Places => i \notin DOMAIN mem.orders,
           NEW d, IsSequence(d), NarrowRecords(d), NEW m, GoodMem(m), SameOrders(m),
           NEW r, r = AttemptTransition(i), NEW overflow \in BOOLEAN
    PROVE  AccountsFor(Attempt(i, d, m, r, overflow))
<1> DEFINE o == OrderOf(i)
           e == IntentEvent(AttemptType(i), i)
           stop == SafetyStop(i, o)
           f == Append(d, e)
           g == Append(d, stop)
           n == [m EXCEPT !.orders = Put(@, o, r.order)]
           no == (i \notin Places /\ o \notin DOMAIN mem.orders) \/ r.refused
           out == Attempt(i, d, m, r, overflow)
<1>1. out = IF no THEN Outcome(g, SafetyStopped(m), slot) ELSE Prepared(i, f, n, overflow)
  BY DEF Attempt
<1>2. Narrow(e) /\ Narrow(stop)
  BY AttemptNarrow, QuietNarrow
<1> HIDE DEF e, stop, out
<1>3. IsSequence(f) /\ NarrowRecords(f) /\ IsSequence(g) /\ NarrowRecords(g)
  BY <1>2, NarrowAppended
<1> HIDE DEF f, g
<1>4. \A w : Unrevoked(w, slot)
  BY RevokedSlot
<1>5. CASE no
  <2> DEFINE w == SafetyStopped(m)
  <2>1. out = Outcome(g, w, slot) /\ w = SafetyStopped(m)
    BY <1>1, <1>5
  <2> HIDE DEF w
  <2>2. SameButStopped(m, w)
    BY <2>1, SafetyStoppedIs
  <2>3. SameOrders(w)
    BY <2>2 DEF SameButStopped, SameOrders
  <2>4. AccountsFor(Outcome(g, w, slot))
    BY <1>3, <1>4, <2>3, QuietAccounts
  <2> QED BY <2>1, <2>4 DEF out
<1>6. CASE ~no
  <2>1. out = Prepared(i, f, n, overflow) /\ ~r.refused /\ (i \notin Places => o \in DOMAIN mem.orders)
    BY <1>1, <1>6
  <2> HIDE DEF no
  <2>2. DOMAIN m = MemFields
    BY DEF GoodMem
  <2>3. /\ DOMAIN n = MemFields /\ n.orders = Put(mem.orders, o, r.order) /\ n.view = mem.view
        /\ n.reason = m.reason
    BY <2>2 DEF MemFields, SameOrders
  <2> HIDE DEF n
  <2>4. ASSUME NEW p \in DOMAIN mem.view
        PROVE  /\ n.orders[p].effective = mem.orders[p].effective
               /\ n.orders[p].price = mem.orders[p].price
    <3>1. p \in DOMAIN mem.orders
      BY DEF Backed, Shape
    <3>2. CASE p # o
      BY <2>3, <3>1, <3>2 DEF Put
    <3>3. CASE p = o
      <4>1. i \notin Places
        BY <3>1, <3>3, OrdersOfPlaces
      <4>2. n.orders[p] = r.order
        BY <2>3, <3>3 DEF Put
      <4> DEFINE q == r.order
                 order == mem.orders[o]
      <4>3. q.effective = order.effective /\ q.price = order.price
        BY <2>1, <4>1, AttemptIs
      <4> HIDE DEF q, order
      <4> QED BY <3>3, <4>2, <4>3 DEF q, order
    <3> QED BY <3>2, <3>3
  <2>5. CASE ~overflow
    <3> DEFINE s == IF n.reason = "none" THEN [intent |-> i, current |-> TRUE] ELSE slot
    <3>1. out = Outcome(f, n, s)
      BY <2>1, <2>5 DEF Prepared
    <3>2. Unrevoked(n, s)
      BY <1>4 DEF Unrevoked
    <3> HIDE DEF s
    <3>3. AccountsFor(Outcome(f, n, s))
      BY <1>3, <2>3, <2>4, <3>2, NarrowAccounts
    <3> QED BY <3>1, <3>3 DEF out
  <2>6. CASE overflow
    <3> DEFINE u == StopOnce(n, "other")
               w == [u EXCEPT !.behind = @ \/ n.reason = "none"]
               stops == StopOnceEvents(n)
               h == f \o stops
               x == SafetyStopped(n)
    <3>1. out = Outcome(h, w, slot)
      BY <2>1, <2>6 DEF Prepared
    <3>2. IsSequence(stops) /\ NarrowRecords(stops)
      BY QuietNarrow
    <3> HIDE DEF stops
    <3>3. IsSequence(h) /\ NarrowRecords(h)
      BY <1>3, <3>2, NarrowJoined
    <3> HIDE DEF h
    <3>4. DOMAIN x = MemFields /\ x.orders = n.orders /\ x.view = n.view
      BY <2>3 DEF SafetyStopped, MemFields
    <3>5. u = IF n.reason = "none" THEN [x EXCEPT !.reason = "other"] ELSE n
      BY DEF StopOnce
    <3> HIDE DEF x, u
    <3>6. DOMAIN u = MemFields /\ u.orders = n.orders /\ u.view = n.view
      BY <2>3, <3>4, <3>5 DEF MemFields
    <3>7. w.orders = n.orders /\ w.view = mem.view
      BY <2>3, <3>6 DEF MemFields
    <3> HIDE DEF w
    <3>8. AccountsFor(Outcome(h, w, slot))
      BY <1>4, <2>4, <3>3, <3>7, NarrowAccounts
    <3> QED BY <3>1, <3>8 DEF out
  <2> QED BY <2>5, <2>6
<1> QED BY <1>5, <1>6

\* A new intent, with its decision: a place is approved only by a session that
\* agrees with its broker and has never heard of it.
LEMMA PrepareNewAccounts ==
    ASSUME IInv, Backed, Judged(mem, slot, broker, durable),
           Accounts(mem, slot, broker, durable), slot = EmptySlot,
           NEW i \in Intents, i \notin DOMAIN mem.received, mem.blocked => i \in Cancels, NEW c,
           NEW mapped \in BOOLEAN, NEW within \in BOOLEAN, NEW overflow \in BOOLEAN
    PROVE  AccountsFor(PrepareNew(i, c, mapped, within, overflow))
<1> DEFINE u == Event("intent_received", i, NoId)
           x == [u EXCEPT !.content = c]
           yes == Event("mapping_validated", i, OrderOf(i))
           not == Event("mapping_refused", i, NoId)
           y == IF mapped THEN yes ELSE not
           a == Event("risk_approved", i, OrderOf(i))
           b == Event("risk_rejected", i, NoId)
           first == <<x>>
           p == <<x, y>>
           m == [mem EXCEPT !.received = Put(@, i, c)]
           r == AttemptTransition(i)
           e == Append(p, a)
           f == Append(p, b)
           out == PrepareNew(i, c, mapped, within, overflow)
<1>1. out = IF Approves(i, mapped, within)
            THEN Attempt(i, e, m, r, overflow)
            ELSE Outcome(f, m, slot)
  BY DEF PrepareNew
<1>2. Narrow(yes) /\ Narrow(not) /\ Narrow(a) /\ Narrow(b) /\ Narrow(u)
  BY QuietNarrow, QuietTypesAre
<1>3. Narrow(x)
  <2>1. TypedRecord(u) /\ DOMAIN u = RecordFields /\ u.type \notin Revivals
    BY <1>2, EventIs DEF Narrow
  <2> HIDE DEF u
  <2>2. /\ x.type = u.type /\ x.side = u.side /\ x.quantity = u.quantity /\ x.price = u.price
        /\ x.cumulative = u.cumulative /\ x.sequence = u.sequence /\ x.order = u.order
        /\ x.intent = u.intent
    BY <2>1 DEF RecordFields
  <2> HIDE DEF x
  <2> QED BY <2>1, <2>2 DEF TypedRecord, Narrow
<1>4. GoodMem(m) /\ SameOrders(m)
  <2>1. GoodMem(mem) /\ DOMAIN mem = MemFields
    BY DEF IInv, Session, GoodMem
  <2>2. /\ DOMAIN m = MemFields /\ m.ready = mem.ready /\ m.safety = mem.safety
        /\ m.recon = mem.recon
        /\ m.kill = mem.kill /\ m.observed = mem.observed /\ m.blocked = mem.blocked
        /\ m.reason = mem.reason /\ m.behind = mem.behind /\ m.connected = mem.connected
        /\ m.orders = mem.orders /\ m.view = mem.view /\ m.lastUpdate = mem.lastUpdate
    BY <2>1 DEF MemFields
  <2> HIDE DEF m
  <2> QED BY <2>1, <2>2 DEF GoodMem, SameOrders
<1> HIDE DEF x, yes, not, a, b, m, out
<1>5. Narrow(y) /\ p = Append(first, y)
  BY <1>2
<1> HIDE DEF y, p
<1>6. IsSequence(first) /\ NarrowRecords(first)
  BY <1>3, NarrowFew
<1> HIDE DEF first
<1>7. IsSequence(p) /\ NarrowRecords(p)
  BY <1>5, <1>6, NarrowAppended
<1>8. IsSequence(e) /\ NarrowRecords(e) /\ IsSequence(f) /\ NarrowRecords(f)
  BY <1>2, <1>7, NarrowAppended
<1> HIDE DEF e, f
<1>9. Approves(i, mapped, within) /\ i \in Places => i \notin DOMAIN mem.orders
  <2> SUFFICES ASSUME Approves(i, mapped, within), i \in Places PROVE i \notin DOMAIN mem.orders
    OBVIOUS
  <2>1. ~mem.safety /\ mem.reason # "other"
    <3>1. Authority(mem)
      BY IntentsAssumption DEF Approves
    <3> QED BY <3>1 DEF Authority, IInv, Session, GoodMem
  <2>2. Same(mem, durable)
    BY <2>1 DEF Judged, Agrees
  <2>3. ~mem.blocked
    BY IntentsAssumption
  <2> QED BY <2>2, <2>3, NewPlace
<1>10. CASE Approves(i, mapped, within)
  <2>1. AccountsFor(Attempt(i, e, m, r, overflow))
    BY <1>4, <1>8, <1>9, <1>10, AttemptAccounts
  <2> QED BY <1>1, <1>10, <2>1 DEF out
<1>11. CASE ~Approves(i, mapped, within)
  <2>1. Unrevoked(m, slot)
    BY RevokedSlot
  <2>2. AccountsFor(Outcome(f, m, slot))
    BY <1>4, <1>8, <2>1, QuietAccounts
  <2> QED BY <1>1, <1>11, <2>2 DEF out
<1> QED BY <1>10, <1>11

\* process_next_risk_work() and prepare_intent().
LEMMA PrepareSettles ==
    ASSUME IInv, Backed, Believes, Settles, NEW i \in Intents, NEW c \in Contents, Prepare(i, c)
    PROVE  Settles'
<1>1. phase \in {"up", "draining"} /\ slot = EmptySlot /\ (phase = "up" => mem.connected)
  BY DEF Prepare
<1>2. PICK outcome \in PrepareOutcomes(i, c) : RunCollected(outcome)
  BY DEF Prepare
<1>3. Judged(mem, slot, broker, durable) /\ Accounts(mem, slot, broker, durable)
  BY <1>1 DEF Believes, Settles
<1>4. Sound(outcome)
  BY <1>1, PrepareSound DEF IInv
<1>5. \/ outcome = Conflict(i)
      \/ /\ i \notin DOMAIN mem.received /\ ~(mem.blocked /\ i \notin Cancels)
         /\ outcome \in NewIntent(i, c)
  BY DEF PrepareOutcomes
<1>6. AccountsFor(outcome)
  <2>1. CASE outcome = Conflict(i)
    BY <1>1, <1>3, <2>1, ConflictAccounts
  <2>2. CASE /\ i \notin DOMAIN mem.received /\ ~(mem.blocked /\ i \notin Cancels)
             /\ outcome \in NewIntent(i, c)
    <3>1. PICK mapped \in BOOLEAN, within \in BOOLEAN, overflow \in BOOLEAN :
            outcome = PrepareNew(i, c, mapped, within, overflow)
      BY <2>2 DEF NewIntent
    <3>2. i \notin DOMAIN mem.received /\ (mem.blocked => i \in Cancels)
      BY <2>2
    <3> QED BY <1>1, <1>3, <3>1, <3>2, PrepareNewAccounts
  <2> QED BY <1>5, <2>1, <2>2
<1> QED BY <1>1, <1>2, <1>4, <1>6, RunCollectedSettles

\* A session that agrees with its broker: the answer to what waits in the slot is
\* accepted by the order, by the ledger and by the view alike.
LEMMA AnswerAccepted ==
    ASSUME IInv, Backed, Agrees(mem, slot, broker, durable), broker.health = "Ready",
           NEW i \in Intents, i = slot.intent, NEW o, o = OrderOf(i), NEW order, order = mem.orders[o],
           NEW reply, reply = BrokerReply(i), NEW type, type = OutcomeType(i, reply.status),
           NEW event, event = IntentEvent(type, i),
           NEW result, result = ApplyOrderUpdate(order, EvidenceOf(event, EvidenceKind[event.type])),
           NEW n, n.orders = [mem.orders EXCEPT ![o] = result.order],
           n.view = ViewAfter(event.type, i), n.lastUpdate = mem.lastUpdate,
           n.received = mem.received, n.blocked = mem.blocked
    PROVE  /\ reply.status = "Acknowledged" /\ ~result.refused /\ TypedRecord(event)
           /\ GoodOrders(n.orders) /\ Same(n, ReplayRecord(durable, event)) /\ Seen(n, reply.orders)
           /\ o \in DOMAIN mem.orders /\ Awaits(order, i)
           /\ \A p \in DOMAIN broker.orders :
                p \in DOMAIN reply.orders /\ (p # o => reply.orders[p] = broker.orders[p])
<1>1. o \in DOMAIN mem.orders /\ i # NoId
  BY OrdersOfPlaces DEF Backed, Shape
<1>2. Same(mem, durable) /\ Seen(mem, broker.orders) /\ Staged(mem, slot, durable)
  BY DEF Agrees
<1>3. Awaits(order, i) /\ (durable.faulty \/ i \in DOMAIN durable.intents)
  BY <1>1, <1>2 DEF Staged
<1>4. GoodOrders(mem.orders) /\ mem.lastUpdate \in Nat /\ DOMAIN mem = MemFields
  BY DEF Backed, Shape, IInv, Session, GoodMem
<1>5. reply.status = "Acknowledged" /\ reply.orders = AnsweredOrders(i, broker.orders)
  BY <1>1, <1>2, <1>3, <1>4, ReplyAcknowledges
<1>6. /\ TypedRecord(event) /\ event.type = type /\ type \in DOMAIN EvidenceKind
      /\ event.intent = i /\ event.order = o /\ event.sequence = 0
      /\ type = OutcomeType(i, "Acknowledged")
  <2> DEFINE status == reply.status
  <2>1. status \in {"Ambiguous", "Rejected", "Acknowledged"} /\ type = OutcomeType(i, status)
        /\ status = "Acknowledged"
    BY <1>5
  <2> HIDE DEF status
  <2>2. PlainRecord(event) /\ event.type = type /\ type \in DOMAIN EvidenceKind
    BY <2>1, OutcomeRecords
  <2>3. event.intent = i /\ event.order = o /\ event.sequence = 0
    BY IntentRecords
  <2> QED BY <2>1, <2>2, <2>3 DEF PlainRecord
<1>7. ViewAfter(event.type, i) = AnsweredOrders(i, mem.view)
  BY <1>6, ViewAfterIs
<1>8. result = ApplyOrderUpdate(order, EvidenceOf(IntentEvent(type, i), EvidenceKind[type]))
  BY <1>6
<1>9. /\ ~result.refused /\ GoodOrder(result.order)
      /\ result.order.state \notin Unresolved \cup {"SubmissionStarted"}
      /\ AnsweredOrders(i, broker.orders) = Put(broker.orders, o, Snapshot(result.order))
  BY <1>1, <1>2, <1>3, <1>4, <1>6, <1>8, AnswerTaken
<1> DEFINE view == AnsweredOrders(i, mem.view)
           f == AnsweredOrders(i, broker.orders)
<1>10. n.view = view
  BY <1>7
<1>11. view = f
  BY <1>2 DEF Seen
<1>12. f = Put(broker.orders, o, Snapshot(result.order)) /\ reply.orders = f
  BY <1>5, <1>9
<1> HIDE DEF view, f
<1>13. /\ n.orders = [mem.orders EXCEPT ![o] = result.order] /\ n.view = view
       /\ n.lastUpdate = mem.lastUpdate /\ n.received = mem.received /\ n.blocked = mem.blocked
  BY <1>10
<1>14. GoodReplay(durable)
  BY DEF IInv, Recorded
<1>15. Same(n, ReplayRecord(durable, event))
  BY <1>1, <1>2, <1>3, <1>4, <1>6, <1>9, <1>13, <1>14, LedgerTakes
<1>16. Seen(n, f)
  <2> DEFINE q == result.order
             s == Snapshot(q)
             held == broker.orders
  <2>1. /\ Seen(mem, held) /\ o \in DOMAIN mem.orders
        /\ q.state \notin Unresolved \cup {"SubmissionStarted"}
        /\ f = Put(held, o, s) /\ n.orders = [mem.orders EXCEPT ![o] = q] /\ n.view = f
    BY <1>1, <1>2, <1>9, <1>11, <1>12, <1>13
  <2>2. s = Snapshot(q)
    OBVIOUS
  <2> HIDE DEF q, s, held
  <2> QED BY <2>1, <2>2, SeenPut
<1>17. GoodOrders(n.orders)
  BY <1>4, <1>9, <1>13 DEF GoodOrders
<1>18. \A p \in DOMAIN broker.orders :
         p \in DOMAIN reply.orders /\ (p # o => reply.orders[p] = broker.orders[p])
  <2> DEFINE held == broker.orders
             s == Snapshot(result.order)
             g == reply.orders
  <2>1. g = Put(held, o, s)
    BY <1>12
  <2> HIDE DEF held, s, g
  <2>2. \A p \in DOMAIN held : p \in DOMAIN g /\ (p # o => g[p] = held[p])
    BY ONLY <2>1 DEF Put
  <2> QED BY ONLY <2>2 DEF held, g
<1> QED BY <1>1, <1>3, <1>5, <1>6, <1>9, <1>12, <1>15, <1>16, <1>17, <1>18

\* What awaits an answer is not done at the broker.
LEMMA AwaitedIsOpen ==
    ASSUME NEW m, GoodOrders(m.orders), NEW held, Seen(m, held), NEW i \in Intents,
           NEW o \in DOMAIN held, o = OrderOf(i), Awaits(m.orders[o], i)
    PROVE  held[o].state \notin BrokerTerminal
<1> DEFINE order == m.orders[o]
           s == held[o]
<1>1. /\ o \in DOMAIN m.orders /\ order.state # "SubmissionStarted"
      /\ order.state \notin Unresolved /\ s = Snapshot(order)
  BY DEF Seen
<1>2. GoodOrder(order)
  BY <1>1 DEF GoodOrders
<1>3. Awaits(order, i)
  OBVIOUS
<1> HIDE DEF order, s
<1>4. i \in Modifies \cup Cancels
  BY <1>1, <1>3 DEF Awaits, Intents
<1>5. order.state \in Working
  BY <1>1, <1>2, <1>3, <1>4, AwaitedIsWorking
<1>6. s.state \notin BrokerTerminal
  BY <1>1, <1>2, <1>5, WorkingSnapshot
<1> QED BY <1>6 DEF s

\* The answer was accepted by all but the memory of a session that could not note
\* it and stops: what works on record still works at the broker, and the view
\* shows nothing as done that is not.
LEMMA UnnotedAccounts ==
    ASSUME NEW m, GoodOrders(m.orders), NEW held, Seen(m, held), Reflects(m, held),
           NEW i \in Intents, NEW o, o = OrderOf(i), Awaits(m.orders[o], i),
           NEW f, \A p \in DOMAIN held : p \in DOMAIN f /\ (p # o => f[p] = held[p]),
           NEW n, GoodOrders(n.orders), Seen(n, f), NEW t, Same(n, t),
           NEW w, w.orders = m.orders, w.view = m.view, NEW health
    PROVE  Reflects(w, f) /\ Accounted(w, t, health, f)
<1>1. m.view = held
  BY DEF Seen
<1>2. o \in DOMAIN held => held[o].state \notin BrokerTerminal
  BY AwaitedIsOpen
<1>3. Reflects(w, f)
  BY <1>1, <1>2 DEF Reflects
<1>4. Accounted(n, t, health, f)
  BY AgreementAccounts
<1>5. ~Missed(n, f)
  BY DEF Seen, Missed, Misses
<1> QED BY <1>3, <1>4, <1>5 DEF Accounted

\* An attempt that reaches the broker.
LEMMA SubmitCalledAccounts ==
    ASSUME IInv, Backed, phase \in {"up", "draining"}, Judged(mem, slot, broker, durable),
           Accounts(mem, slot, broker, durable), NEW i \in Intents, i = slot.intent,
           mem.reason = "none", NEW acknowledged \in BOOLEAN
    PROVE  AccountsFor(SubmitCalled(i, acknowledged))
<1> DEFINE o == OrderOf(i)
           reply == BrokerReply(i)
           b == [broker EXCEPT !.orders = reply.orders]
           type == OutcomeType(i, reply.status)
           event == IntentEvent(type, i)
           kind == EvidenceKind[event.type]
           order == mem.orders[o]
           result == ApplyOrderUpdate(order, EvidenceOf(event, kind))
           uncertain == result.refused \/ reply.status = "Ambiguous" \/ ~acknowledged
           a == SafetyStop(i, o)
           z == SafetyStop(NoId, NoId)
           refusal == IF result.refused THEN <<a>> ELSE << >>
           told == Append(refusal, event)
           stop == IF acknowledged THEN << >> ELSE StopOnceEvents(mem)
           stops == IF uncertain THEN Append(stop, a) ELSE << >>
           e == told \o stops
           view == ViewAfter(event.type, i)
           applied == [mem EXCEPT !.orders[o] = result.order, !.view = view]
           m == IF uncertain
                THEN SafetyStopped(IF acknowledged THEN mem ELSE StopOnce(mem, "other"))
                ELSE applied
           answered == Outcome(e, m, EmptySlot)
           out == SubmitCalled(i, acknowledged)
<1>1. out = WithCall(answered, i, 0, b)
  BY DEF SubmitCalled, Answered
<1>2. Replied(i, reply)
  BY BrokerReplyIs
<1>3. b.health = broker.health /\ b.orders = reply.orders
  <2>1. DOMAIN broker = {"health", "orders"}
    BY DEF IInv, Session, GoodBroker
  <2> HIDE DEF reply
  <2> QED BY <2>1
<1>4. /\ DOMAIN answered = OutcomeFields /\ answered.events = e /\ answered.mem = m
      /\ answered.slot = EmptySlot
  <2> HIDE DEF e, m
  <2> QED BY DEF Outcome, OutcomeFields
<1> HIDE DEF answered, b, e, m
<1>5. out.events = e /\ out.mem = m /\ out.slot = EmptySlot /\ out.broker = b
  BY <1>1, <1>4 DEF WithCall, OutcomeFields
<1> HIDE DEF out
<1>6. Unrevoked(m, EmptySlot)
  BY RevokedSlot
<1>7. uncertain => m.orders = mem.orders /\ m.view = mem.view
  <2> SUFFICES ASSUME uncertain PROVE m.orders = mem.orders /\ m.view = mem.view
    OBVIOUS
  <2>1. CASE acknowledged
    <3>1. m = SafetyStopped(mem)
      BY <2>1 DEF m
    <3> QED BY <3>1, StoppedOrders DEF SameOrders
  <2>2. CASE ~acknowledged
    <3>1. m = SafetyStopped(StopOnce(mem, "other"))
      BY <2>2 DEF m
    <3> QED BY <3>1, StoppedOrders DEF SameOrders, IInv, Session, Fits
  <2> QED BY <2>1, <2>2
<1>8. CASE broker.health # "Ready"
  <2>1. reply.status = "Ambiguous" /\ reply.orders = broker.orders
    BY <1>2, <1>8 DEF Replied
  <2>2. m.orders = mem.orders /\ m.view = mem.view
    BY <1>7, <2>1
  <2>3. Reflects(m, reply.orders)
    BY <2>1, <2>2 DEF Accounts, Reflects
  <2>4. AccountsFor(out)
    BY <1>3, <1>5, <1>6, <1>8, <2>3 DEF AccountsFor, Accounts, Accounted
  <2> QED BY <2>4 DEF out
<1>9. CASE broker.health = "Ready"
  <2>1. Agrees(mem, slot, broker, durable)
    BY <1>9 DEF Judged
  <2>2. DOMAIN mem = MemFields
    BY DEF IInv, Session, GoodMem
  <2>3. /\ applied.orders = [mem.orders EXCEPT ![o] = result.order] /\ applied.view = view
        /\ applied.lastUpdate = mem.lastUpdate /\ applied.received = mem.received
        /\ applied.blocked = mem.blocked
    <3> HIDE DEF o, result, view
    <3> QED BY <2>2 DEF MemFields
  <2> DEFINE d == ReplayRecord(durable, event)
             held == reply.orders
  <2>4. /\ reply.status = "Acknowledged" /\ ~result.refused /\ TypedRecord(event)
        /\ GoodOrders(applied.orders) /\ Same(applied, d) /\ Seen(applied, held)
        /\ o \in DOMAIN mem.orders /\ Awaits(order, i)
        /\ \A p \in DOMAIN broker.orders :
             p \in DOMAIN held /\ (p # o => held[p] = broker.orders[p])
    <3>1. /\ o = OrderOf(i) /\ order = mem.orders[o] /\ reply = BrokerReply(i)
          /\ type = OutcomeType(i, reply.status) /\ event = IntentEvent(type, i)
          /\ result = ApplyOrderUpdate(order, EvidenceOf(event, EvidenceKind[event.type]))
          /\ view = ViewAfter(event.type, i)
      OBVIOUS
    <3> HIDE DEF o, order, reply, type, event, result, view, applied
    <3> QED BY <1>9, <2>1, <2>3, <3>1, AnswerAccepted DEF d, held
  <2>5. GoodReplay(d)
    <3>1. GoodReplay(durable)
      BY DEF IInv, Recorded
    <3> QED BY <2>4, <3>1, ReplayRecordSound DEF RecordSound
  <2> DEFINE one == <<event>>
             none == << >>
  <2>6. told = one
    <3>1. refusal = none /\ Append(none, event) = one
      BY <2>4
    <3> QED BY <3>1
  <2>7. IsSequence(one)
    BY FewRecords
  <2>8. Replay(durable, one) = d
    BY ReplayFew
  <2>9. CASE acknowledged
    <3>1. stops = none /\ m = applied
      BY <2>4, <2>9 DEF m
    <3> HIDE DEF one, stops, told, applied, d, held
    <3>2. e = one \o stops
      BY <2>6 DEF e
    <3>3. e = one
      BY <2>7, <3>1, <3>2, JoinedFew
    <3>4. Reflects(m, held) /\ Accounted(m, d, broker.health, held)
      BY <2>4, <3>1, AgreementAccounts
    <3>5. b.orders = held /\ Replay(durable, e) = d
      BY <1>3, <2>8, <3>3 DEF held
    <3>6. AccountsFor(out)
      BY <1>3, <1>5, <1>6, <3>4, <3>5 DEF AccountsFor, Accounts
    <3> QED BY <3>6 DEF out
  <2>10. CASE ~acknowledged
    <3> DEFINE two == <<z, a>>
               first == <<z>>
               t == Replay(d, two)
    <3>1. stops = Append(first, a) /\ stop = first
      BY <2>10 DEF StopOnceEvents
    <3>2. first \in Seq({z, a}) /\ two = Append(first, a)
      OBVIOUS
    <3>3. Idle(z) /\ Idle(a)
      BY IdleTypes
    <3> HIDE DEF z, a, d, stop, stops, told, first
    <3>4. IsSequence(first) /\ IdleRecords(first)
      BY <3>3, IdleFew, FewRecords DEF first
    <3> HIDE DEF two
    <3>5. IsSequence(two) /\ IdleRecords(two)
      BY <3>2, <3>3, <3>4, IdleAppended
    <3>6. Len(two) \in Nat
      BY <3>5, AppendedSequences
    <3>7. Same(applied, t)
      <4> HIDE DEF applied
      <4> QED BY <2>4, <2>5, <3>5, <3>6, IdleReplay
    <3> DEFINE q == Append(one, z)
    <3>8. IsSequence(q)
      BY <2>7, AppendedSequences
    <3>9. e = Append(q, a)
      <4>1. e = one \o two
        BY <2>6, <3>1, <3>2 DEF e
      <4>2. one \o two = Append(Append(one, z), a)
        BY DEF two
      <4> QED BY <4>1, <4>2
    <3>10. Replay(durable, e) = t
      <4>1. Replay(durable, q) = ReplayRecord(d, z)
        <5> HIDE DEF one
        <5> QED BY <2>7, <2>8, ReplayAppended
      <4> HIDE DEF q
      <4>2. Replay(durable, e) = ReplayRecord(ReplayRecord(d, z), a)
        BY <3>8, <3>9, <4>1, ReplayAppended
      <4>3. t = ReplayRecord(ReplayRecord(d, z), a)
        BY ReplayTwo DEF two
      <4> QED BY <4>2, <4>3
    <3> HIDE DEF t, q, one
    <3>11. m.orders = mem.orders /\ m.view = mem.view
      BY <1>7, <2>10
    <3>12. Reflects(m, held) /\ Accounted(m, t, broker.health, held)
      <4>1. GoodOrders(mem.orders) /\ Seen(mem, broker.orders) /\ Reflects(mem, broker.orders)
        BY <2>1 DEF Backed, Shape, Agrees, Accounts
      <4>2. Awaits(mem.orders[o], i) /\ o = OrderOf(i)
        BY <2>4
      <4> HIDE DEF applied, held, o, order
      <4> QED BY <2>4, <3>7, <3>11, <4>1, <4>2, UnnotedAccounts
    <3>13. b.orders = held
      BY <1>3
    <3> HIDE DEF held
    <3>14. AccountsFor(out)
      BY <1>3, <1>5, <1>6, <3>10, <3>12, <3>13 DEF AccountsFor, Accounts
    <3> QED BY <3>14 DEF out
  <2> QED BY <2>9, <2>10
<1> QED BY <1>8, <1>9 DEF IInv, Session, GoodBroker

\* process_next_broker_submission() and submit_prepared().
LEMMA SubmitSettles ==
    ASSUME IInv, Backed, Believes, Settles, Submit
    PROVE  Settles'
<1> DEFINE i == slot.intent
<1>1. phase \in {"up", "draining"} /\ slot # EmptySlot
  BY DEF Submit
<1>2. PICK outcome \in SubmitOutcomes(i) : RunCollected(outcome)
  BY DEF Submit
<1>3. slot \in [intent : Intents \cup {NoId}, current : BOOLEAN] /\ slot.intent # NoId
  BY <1>1 DEF IInv, Session, GoodSlot
<1>4. /\ i \in Intents /\ Judged(mem, slot, broker, durable)
      /\ Accounts(mem, slot, broker, durable)
  BY <1>1, <1>3 DEF Believes, Settles
<1>5. Sound(outcome)
  BY <1>1, SubmitSound DEF IInv
<1>6. \/ outcome = SubmitRevoked(i)
      \/ outcome = SubmitUnacknowledged(i)
      \/ slot.current /\ \E acknowledged \in BOOLEAN : outcome = SubmitCalled(i, acknowledged)
  BY DEF SubmitOutcomes
<1>7. AccountsFor(outcome)
  <2>1. CASE outcome = SubmitRevoked(i)
    BY <1>4, <2>1, SubmitRevokedAccounts
  <2>2. CASE outcome = SubmitUnacknowledged(i)
    BY <1>1, <1>4, <2>2, SubmitUnacknowledgedAccounts
  <2>3. CASE slot.current /\ \E acknowledged \in BOOLEAN : outcome = SubmitCalled(i, acknowledged)
    <3>1. PICK acknowledged \in BOOLEAN : outcome = SubmitCalled(i, acknowledged)
      BY <2>3
    <3>2. mem.reason = "none"
      BY <1>3, <1>4, <2>3 DEF Accounts, Unrevoked
    <3> QED BY <1>1, <1>4, <3>1, <3>2, SubmitCalledAccounts
  <2> QED BY <1>6, <2>1, <2>2, <2>3
<1> QED BY <1>1, <1>2, <1>5, <1>7, RunCollectedSettles

-----------------------------------------------------------------------------
(* An observation, and the fills it brings.                                *)

\* A fill that the session does not take leaves it behind the broker.
LEMMA FillMissed ==
    ASSUME NEW m, NEW held, Reflects(m, held), NEW o \in DOMAIN held,
           held[o] \in Snapshots, held[o].state \notin BrokerTerminal,
           NEW f, f = Put(held, o, Filled(held[o]))
    PROVE  Reflects(m, f) /\ Missed(m, f)
<1> DEFINE s == Filled(held[o])
<1>1. s.state = "filled" /\ "filled" \in BrokerTerminal
  BY DEF Filled, BrokerTerminal, Snapshots
<1> HIDE DEF s
<1>2. /\ DOMAIN f = DOMAIN held /\ f[o] = s
      /\ \A p \in DOMAIN held : p # o => f[p] = held[p]
  BY DEF Put, s
<1>3. Misses(m, f, o)
  BY <1>1, <1>2 DEF Misses, Reflects
<1> QED BY <1>1, <1>2, <1>3 DEF Reflects, Missed

\* A fill on record ends an order that its ledger tracks.
LEMMA FilledTracked ==
    ASSUME NEW d, GoodReplay(d), GoodLedger(d), NEW held, Tracked(d, held),
           NEW e, TypedRecord(e), e.type = "filled", NEW o \in DOMAIN held, o = e.order,
           held[o].quantity = e.cumulative, NEW f, f = Put(held, o, Filled(held[o])),
           NEW t, t = ReplayRecord(d, e)
    PROVE  t.faulty \/ Tracked(t, f)
<1> SUFFICES ASSUME ~t.faulty PROVE Tracked(t, f)
  OBVIOUS
<1>1. ~d.faulty
  BY FaultyStays
<1>2. Legal(d, e) /\ t.orders = OrdersAfter(d, e)
  BY <1>1, ReplayRecordEffect DEF RecordEffect
<1>3. GoodOrders(d.orders)
  BY <1>1 DEF GoodLedger
<1>4. /\ e.type \in DOMAIN EvidenceKind /\ EvidenceKind[e.type] = "FillUpdate"
      /\ e.type # "submission_started"
  BY DEF EvidenceKind
<1>5. /\ DOMAIN t.orders = DOMAIN d.orders /\ o \in DOMAIN d.orders
      /\ Moves(d.orders[o], "FillUpdate", t.orders[o])
      /\ \A p \in DOMAIN d.orders : p # o => t.orders[p] = d.orders[p]
  <2> DEFINE orders == OrdersAfter(d, e)
  <2>1. /\ e.type # "submission_started" => DOMAIN orders = DOMAIN d.orders
        /\ e.type \in DOMAIN EvidenceKind =>
             /\ e.order \in DOMAIN d.orders
             /\ Moves(d.orders[e.order], EvidenceKind[e.type], orders[e.order])
        /\ \A p \in DOMAIN d.orders :
             e.type \notin DOMAIN EvidenceKind \/ p # e.order => orders[p] = d.orders[p]
    BY <1>2, <1>3, LegalMoves
  <2>2. t.orders = orders
    BY <1>2
  <2> HIDE DEF orders
  <2> QED BY <1>4, <2>1, <2>2
<1>6. /\ DOMAIN f = DOMAIN held
      /\ \A p \in DOMAIN held : p # o => f[p] = held[p]
  BY DEF Put
<1>7. t.orders[o].state \notin Working
  <2> SUFFICES ASSUME t.orders[o].state \in Working PROVE FALSE
    OBVIOUS
  <2> DEFINE order == d.orders[o]
             u == EvidenceOf(e, "FillUpdate")
             r == Answer(d, e)
  <2>1. order.state \in Working
    BY <1>5 DEF Moves, Reviving
  <2>2. order.effective = e.cumulative
    BY <1>5, <2>1 DEF Tracked
  <2>3. SessionEvidence(u) /\ u.kind = "FillUpdate" /\ u.cumulative = e.cumulative
    BY RecordEvidence DEF SessionKinds
  <2>4. r = ApplyOrderUpdate(order, u) /\ ~r.refused /\ t.orders[o] = r.order
    BY <1>2, <1>4, <1>5 DEF Answer, Legal, OrdersAfter
  <2>5. GoodOrder(order)
    BY <1>3, <1>5 DEF GoodOrders
  <2> HIDE DEF order, u, r
  <2>6. r = OnFillUpdate(order, u)
    BY <2>3, <2>4, <2>5, EvidenceIs
  <2>7. r.order.state = "Filled"
    BY <2>2, <2>3, <2>4, <2>5, <2>6, FillMoves
  <2> QED BY <2>4, <2>7 DEF Working
<1> QED BY <1>5, <1>6, <1>7 DEF Tracked

\* A fill that the session takes: what it missed before it still misses.
LEMMA FillTakenAccounts ==
    ASSUME NEW m, MemShape(m), NEW held, Reflects(m, held), NEW o \in DOMAIN held,
           held[o] \in Snapshots, held[o].state \notin BrokerTerminal,
           NEW u, SessionEvidence(u), u.kind = "FillUpdate",
           NEW r, r = ApplyOrderUpdate(m.orders[o], u), ~r.refused,
           NEW n, n.orders = [m.orders EXCEPT ![o] = r.order],
           n.view = [m.view EXCEPT ![o] = Snapshot(r.order)],
           NEW f, f = Put(held, o, Filled(held[o]))
    PROVE  Reflects(n, f) /\ (Missed(m, held) => Missed(n, f))
<1> DEFINE s == Filled(held[o])
           snapshot == Snapshot(r.order)
<1>1. /\ s.state = "filled" /\ "filled" \in BrokerTerminal
      /\ s.quantity = held[o].quantity /\ s.price = held[o].price
  BY DEF Filled, BrokerTerminal, Snapshots
<1> HIDE DEF s
<1>2. /\ DOMAIN f = DOMAIN held /\ f[o] = s
      /\ \A p \in DOMAIN held : p # o => f[p] = held[p]
  BY DEF Put, s
<1>3. o \in DOMAIN m.orders => r.order.effective = m.orders[o].effective
                               /\ r.order.price = m.orders[o].price
  <2> SUFFICES ASSUME o \in DOMAIN m.orders
               PROVE  /\ r.order.effective = m.orders[o].effective
                      /\ r.order.price = m.orders[o].price
    OBVIOUS
  <2> DEFINE order == m.orders[o]
  <2>1. GoodOrder(order) /\ r = ApplyOrderUpdate(order, u)
    BY DEF MemShape, GoodOrders
  <2> HIDE DEF order
  <2>2. r = OnFillUpdate(order, u)
    BY <2>1, EvidenceIs
  <2>3. Moves(order, "FillUpdate", r.order)
    BY <2>1, <2>2, FillMoves
  <2> QED BY <2>3 DEF Moves, order
<1>4. snapshot.quantity = r.order.effective /\ snapshot.price = r.order.price
  BY SnapshotIs
<1>5. n.view = [m.view EXCEPT ![o] = snapshot]
  OBVIOUS
<1> HIDE DEF snapshot
<1>6. DOMAIN m.view \subseteq DOMAIN m.orders /\ DOMAIN n.view = DOMAIN m.view
  BY <1>5 DEF MemShape
<1>7. ASSUME NEW p \in DOMAIN n.view
      PROVE  /\ n.view[p].quantity = n.orders[p].effective /\ n.view[p].price = n.orders[p].price
             /\ n.view[p].state \in BrokerTerminal =>
                  p \in DOMAIN f /\ f[p].state \in BrokerTerminal
             /\ n.view[p].quantity = m.view[p].quantity /\ n.view[p].price = m.view[p].price
  <2>1. p \in DOMAIN m.view /\ p \in DOMAIN m.orders
    BY <1>6
  <2>2. CASE p = o
    <3>1. n.view[p] = snapshot /\ n.orders[p] = r.order
      BY <1>5, <2>1, <2>2
    <3> QED BY <1>1, <1>2, <1>3, <1>4, <2>1, <2>2, <3>1 DEF Reflects
  <2>3. CASE p # o
    <3>1. n.view[p] = m.view[p] /\ n.orders[p] = m.orders[p]
      BY <1>5, <2>1, <2>3
    <3> QED BY <1>2, <2>1, <2>3, <3>1 DEF Reflects
  <2> QED BY <2>2, <2>3
<1>8. ASSUME NEW p \in DOMAIN held, Misses(m, held, p) PROVE Misses(n, f, p)
  <2>1. CASE p \notin DOMAIN m.view
    BY <1>6, <2>1 DEF Misses
  <2>2. CASE p \in DOMAIN m.view /\ p = o
    <3>1. m.view[p].quantity # held[p].quantity \/ m.view[p].price # held[p].price
      BY <1>8, <2>2 DEF Misses
    <3> QED BY <1>1, <1>2, <1>6, <1>7, <2>2, <3>1 DEF Misses
  <2>3. CASE p \in DOMAIN m.view /\ p # o
    <3>1. n.view[p] = m.view[p] /\ f[p] = held[p]
      BY <1>2, <1>5, <2>3
    <3> QED BY <1>6, <1>8, <2>3, <3>1 DEF Misses
  <2> QED BY <2>1, <2>2, <2>3
<1> QED BY <1>2, <1>7, <1>8 DEF Reflects, Missed

\* What a drain has reached, while the broker holds these orders.
DrainAccounts(acc, held) ==
    LET d == Replay(durable, acc.events)
    IN  /\ IsSequence(acc.events) /\ MemShape(acc.mem)
        /\ GoodReplay(d) /\ GoodLedger(d)
        /\ Reflects(acc.mem, held)
        /\ IF acc.draining THEN Accounted(acc.mem, d, broker.health, held)
           ELSE Missed(acc.mem, held)

\* One fill of a drain (drain_broker_updates).
LEMMA DrainFillAccounts ==
    ASSUME Backed, NEW acc, NEW held, DrainAccounts(acc, held), NEW o \in DOMAIN broker.orders,
           o \in DOMAIN held, held[o] = broker.orders[o],
           broker.orders[o].state \notin BrokerTerminal
    PROVE  DrainAccounts(DrainFill(acc, o), Put(held, o, Filled(held[o])))
<1> DEFINE m == acc.mem
           d == Replay(durable, acc.events)
           event == FillEvent(o, m.lastUpdate + 1)
           u == EvidenceOf(event, "FillUpdate")
           order == m.orders[o]
           result == ApplyOrderUpdate(order, u)
           a == SafetyStop(NoId, NoId)
           w == SafetyStopped(m)
           snapshot == Snapshot(result.order)
           sequence == event.sequence
           n == [m EXCEPT !.orders[o] = result.order, !.view[o] = snapshot,
                          !.lastUpdate = sequence]
           stopped == [events |-> Append(acc.events, a), mem |-> w, draining |-> FALSE]
           filled == [events |-> Append(acc.events, event), mem |-> n, draining |-> TRUE]
           f == Put(held, o, Filled(held[o]))
<1>1. /\ ~acc.draining => DrainFill(acc, o) = acc
      /\ acc.draining /\ result.refused => DrainFill(acc, o) = stopped
      /\ acc.draining /\ ~result.refused => DrainFill(acc, o) = filled
  BY DEF DrainFill, Drained
<1>2. /\ IsSequence(acc.events) /\ MemShape(m) /\ GoodReplay(d) /\ GoodLedger(d)
      /\ Reflects(m, held) /\ DOMAIN m = MemFields /\ m.lastUpdate \in Nat
  BY DEF DrainAccounts, MemShape
<1>3. held[o] \in Snapshots /\ held[o].state \notin BrokerTerminal
  BY DEF Backed, Shape, Snapped
<1>4. Reflects(m, f) /\ Missed(m, f)
  <2> HIDE DEF m
  <2> QED BY <1>2, <1>3, FillMissed
<1>5. CASE ~acc.draining
  <2> HIDE DEF f
  <2>1. DrainAccounts(acc, f)
    BY <1>2, <1>4, <1>5 DEF DrainAccounts
  <2> QED BY <1>1, <1>5, <2>1 DEF f
<1>6. CASE acc.draining /\ result.refused
  <2>1. TypedRecord(a)
    BY SafetyStopRecords DEF PlainRecord
  <2>2. w.orders = m.orders /\ w.view = m.view /\ w.lastUpdate = m.lastUpdate /\ DOMAIN w = MemFields
    <3>1. w = [m EXCEPT !.ready = FALSE, !.safety = TRUE, !.recon = TRUE, !.kill = TRUE]
      BY DEF SafetyStopped
    <3> HIDE DEF m, w
    <3> QED BY <1>2, <3>1 DEF MemFields
  <2> DEFINE t == ReplayRecord(d, a)
             q == Append(acc.events, a)
  <2>3. IsSequence(q) /\ Replay(durable, q) = t
    BY <1>2, AppendedSequences, ReplayAppended
  <2> HIDE DEF a, d
  <2>4. GoodReplay(t) /\ GoodLedger(t)
    BY <1>2, <2>1, ReplayRecordSound, RecordKeepsLedger DEF RecordSound
  <2> HIDE DEF f, m, w, t, q
  <2>5. MemShape(w) /\ Reflects(w, f) /\ Missed(w, f)
    BY <1>2, <1>4, <2>2 DEF MemShape, Reflects, Missed, Misses
  <2>6. DrainAccounts(stopped, f)
    BY <2>3, <2>4, <2>5 DEF DrainAccounts, q
  <2> QED BY <1>1, <1>6, <2>6 DEF f
<1>7. CASE acc.draining /\ ~result.refused
  <2>1. /\ TypedRecord(event) /\ event.type = "filled" /\ event.order = o
        /\ sequence \in Nat /\ event.cumulative = broker.orders[o].quantity
    <3> DEFINE before == m.lastUpdate
    <3>1. before \in Nat /\ event = FillEvent(o, before + 1)
      BY <1>2
    <3> HIDE DEF before, event
    <3>2. PlainRecord(event) /\ event.type = "filled" /\ event.order = o
          /\ event.sequence = before + 1 /\ event.cumulative = broker.orders[o].quantity
      BY <3>1, FillRecord
    <3> QED BY <3>1, <3>2 DEF PlainRecord
  <2> DEFINE t == ReplayRecord(d, event)
             q == Append(acc.events, event)
  <2>2. IsSequence(q) /\ Replay(durable, q) = t
    BY <1>2, AppendedSequences, ReplayAppended
  <2>3. Accounted(m, d, broker.health, held)
    BY <1>7 DEF DrainAccounts
  <2>4. SessionEvidence(u) /\ u.kind = "FillUpdate"
    <3> HIDE DEF event
    <3> QED BY <2>1, RecordEvidence DEF SessionKinds
  <2> HIDE DEF event, d, sequence, u
  <2>5. GoodReplay(t) /\ GoodLedger(t)
    BY <1>2, <2>1, ReplayRecordSound, RecordKeepsLedger DEF RecordSound
  <2>6. result = ApplyOrderUpdate(m.orders[o], u) /\ ~result.refused
    BY <1>7
  <2> HIDE DEF result, order
  <2>7. /\ n = [m EXCEPT !.orders[o] = result.order, !.view[o] = snapshot,
                         !.lastUpdate = sequence]
        /\ snapshot = Snapshot(result.order)
    OBVIOUS
  <2> HIDE DEF n
  <2>8. n.orders = [m.orders EXCEPT ![o] = result.order]
        /\ n.view = [m.view EXCEPT ![o] = Snapshot(result.order)]
    <3> HIDE DEF snapshot, m
    <3> QED BY <1>2, <2>7 DEF MemFields
  <2> HIDE DEF snapshot, m
  <2>9. MemShape(n)
    BY <1>2, <2>1, <2>4, <2>6, <2>7, FillShape
  <2> HIDE DEF f, t, q
  <2>10. Reflects(n, f) /\ (Missed(m, held) => Missed(n, f))
    BY <1>2, <1>3, <2>4, <2>6, <2>8, FillTakenAccounts DEF f
  <2>11. Tracked(d, held) => t.faulty \/ Tracked(t, f)
    <3>1. held[o].quantity = event.cumulative
      BY <2>1
    <3> QED BY <1>2, <2>1, <3>1, FilledTracked DEF f, t
  <2>12. d.faulty => t.faulty
    BY FaultyStays DEF t
  <2>13. Accounted(n, t, broker.health, f)
    BY <2>3, <2>10, <2>11, <2>12 DEF Accounted
  <2>14. DrainAccounts(filled, f)
    BY <2>2, <2>5, <2>9, <2>10, <2>13 DEF DrainAccounts, q
  <2> QED BY <1>1, <1>7, <2>14 DEF f, result, order, u, n, event, snapshot, sequence, m
<1> QED BY <1>5, <1>6, <1>7

\* The orders as the session reads them.
LEMMA HeldAlike ==
    ASSUME NEW acc, NEW held, DrainAccounts(acc, held), NEW f, DOMAIN f = DOMAIN held,
           \A o \in DOMAIN held : f[o] = held[o]
    PROVE  DrainAccounts(acc, f)
<1>1. Reflects(acc.mem, held) => Reflects(acc.mem, f)
  BY DEF Reflects
<1>2. Missed(acc.mem, held) => Missed(acc.mem, f)
  BY DEF Missed, Misses
<1>3. ASSUME NEW d, Tracked(d, held) PROVE Tracked(d, f)
  BY <1>3 DEF Tracked
<1> QED BY <1>1, <1>2, <1>3 DEF DrainAccounts, Accounted

\* The fills that are dispatched, from the first.
LEMMA DrainedAccounts ==
    ASSUME Backed, NEW events, NEW m,
           DrainAccounts([events |-> events, mem |-> m, draining |-> TRUE], broker.orders),
           NEW fills, Len(fills) \in Nat,
           \A k \in 1..Len(fills) : fills[k] \in WorkingAt(broker),
           \A j, k \in 1..Len(fills) : fills[j] = fills[k] => j = k,
           NEW sent, Len(sent) \in 0..Len(fills), \A k \in 1..Len(sent) : sent[k] = fills[k]
    PROVE  DrainAccounts(Drain(events, m, sent), FilledUpTo(fills, Len(sent)))
<1> DEFINE N == Len(sent)
           first == [events |-> events, mem |-> m, draining |-> TRUE]
<1>1. PICK r : IsDrain(r, events, m, sent)
  <2>1. Len(sent) \in Nat
    OBVIOUS
  <2> QED BY <2>1, DrainSteps
<1>2. /\ N \in Nat /\ r[0] = first /\ Drain(events, m, sent) = r[N]
      /\ \A n \in 1..N : r[n] = DrainFill(r[n - 1], fills[n]) /\ n \in 1..Len(fills)
  BY <1>1 DEF IsDrain
<1>3. DrainAccounts(first, FilledUpTo(fills, 0))
  <2> DEFINE f == FilledUpTo(fills, 0)
  <2>1. 1..0 = {}
    OBVIOUS
  <2>2. DOMAIN f = DOMAIN broker.orders /\ \A o \in DOMAIN broker.orders : f[o] = broker.orders[o]
    BY <2>1 DEF FilledUpTo
  <2> HIDE DEF f, first
  <2>3. DrainAccounts(first, broker.orders)
    BY DEF first
  <2>4. DrainAccounts(first, f)
    BY <2>2, <2>3, HeldAlike
  <2> QED BY <2>4 DEF f
<1> HIDE DEF N, first
<1> DEFINE T == {n \in Nat : n <= N => DrainAccounts(r[n], FilledUpTo(fills, n))}
<1>5. 0 \in T
  BY <1>2, <1>3
<1>6. ASSUME NEW n \in T PROVE n + 1 \in T
  <2> SUFFICES ASSUME n + 1 <= N PROVE DrainAccounts(r[n + 1], FilledUpTo(fills, n + 1))
    BY <1>6
  <2> DEFINE o == fills[n + 1]
             held == FilledUpTo(fills, n)
             next == FilledUpTo(fills, n + 1)
             acc == r[n]
  <2>1. n \in Nat /\ n + 1 \in 1..N /\ (n + 1) - 1 = n /\ DrainAccounts(acc, held)
        /\ \A k \in 1..n : k \in 1..N /\ k # n + 1
    BY <1>2, <1>6
  <2>2. r[n + 1] = DrainFill(acc, o) /\ n + 1 \in 1..Len(fills)
    BY <1>2, <2>1
  <2>3. o \in WorkingAt(broker) /\ \A k \in 1..n : fills[k] # o
    BY <1>2, <2>1, <2>2
  <2>4. o \in DOMAIN broker.orders /\ broker.orders[o].state \notin BrokerTerminal
    BY <2>3 DEF WorkingAt
  <2> HIDE DEF T
  <2>5. o \in DOMAIN held /\ held[o] = broker.orders[o] /\ next = Put(held, o, Filled(held[o]))
    <3>1. o = fills[n + 1] /\ held = FilledUpTo(fills, n) /\ next = FilledUpTo(fills, n + 1)
      OBVIOUS
    <3> HIDE DEF o, held, next
    <3> QED BY <2>1, <2>3, <2>4, <3>1, FilledNext
  <2> HIDE DEF o, held, next, acc
  <2>6. DrainAccounts(DrainFill(acc, o), Put(held, o, Filled(held[o])))
    BY <2>1, <2>4, <2>5, DrainFillAccounts
  <2> QED BY <2>2, <2>5, <2>6 DEF next
<1>7. T = Nat
  <2> HIDE DEF T
  <2> QED BY <1>5, <1>6, NatSetInduction DEF T
<1>8. DrainAccounts(r[N], FilledUpTo(fills, N))
  BY <1>2, <1>7
<1> QED BY <1>2, <1>8 DEF N

\* A fill that overran the channel is missed.
LEMMA OverrunMissed ==
    ASSUME NEW acc, NEW fills, NEW n \in Nat, n < Len(fills), Len(fills) \in Nat,
           DrainAccounts(acc, FilledUpTo(fills, n)),
           \A k \in 1..Len(fills) : fills[k] \in WorkingAt(broker),
           \A j, k \in 1..Len(fills) : fills[j] = fills[k] => j = k,
           Snapped(broker.orders),
           NEW f, f = FilledUpTo(fills, Len(fills))
    PROVE  Reflects(acc.mem, f) /\ Missed(acc.mem, f)
<1> DEFINE m == acc.mem
           held == FilledUpTo(fills, n)
           o == fills[n + 1]
           S == DOMAIN broker.orders
<1>1. n + 1 \in 1..Len(fills) /\ \A k \in 1..n : k \in 1..Len(fills) /\ k # n + 1
  OBVIOUS
<1>2. o \in S /\ broker.orders[o].state \notin BrokerTerminal /\ \A k \in 1..n : fills[k] # o
  BY <1>1 DEF WorkingAt
<1>3. Reflects(m, held)
  BY DEF DrainAccounts
<1>4. ASSUME NEW p \in S PROVE Filled(broker.orders[p]).state \in BrokerTerminal
  BY <1>4 DEF Filled, BrokerTerminal, Snapped, Snapshots
<1>5. DOMAIN f = S /\ DOMAIN held = S
  BY DEF FilledUpTo
<1>6. ASSUME NEW p \in S PROVE held[p].state \in BrokerTerminal => f[p].state \in BrokerTerminal
  <2>1. CASE \E k \in 1..Len(fills) : fills[k] = p
    <3>1. f[p] = Filled(broker.orders[p])
      BY <2>1 DEF FilledUpTo
    <3> QED BY <1>4, <3>1
  <2>2. CASE ~ \E k \in 1..Len(fills) : fills[k] = p
    <3>1. f[p] = broker.orders[p] /\ held[p] = broker.orders[p]
      BY <1>1, <2>2 DEF FilledUpTo
    <3> QED BY <3>1
  <2> QED BY <2>1, <2>2
<1>7. held[o] = broker.orders[o]
  BY <1>2 DEF FilledUpTo
<1>8. f[o].state \in BrokerTerminal
  <2>1. f[o] = Filled(broker.orders[o])
    BY <1>1, <1>2 DEF FilledUpTo
  <2> QED BY <1>2, <1>4, <2>1
<1> HIDE DEF m, held, o, S
<1>9. Misses(m, f, o)
  BY <1>2, <1>3, <1>7, <1>8 DEF Misses, Reflects
<1>10. Missed(m, f) /\ Reflects(m, f)
  BY <1>2, <1>3, <1>5, <1>6, <1>9 DEF Missed, Reflects
<1> QED BY <1>10 DEF m

\* What the fills start from: the observation is accepted, and an overrun stops
\* the session or it is activated where nothing forbids it.
LEMMA StartedAccounts ==
    ASSUME IInv, Backed, Accounts(mem, slot, broker, durable),
           NEW a, a = Event("market_observation_accepted", NoId, NoId),
           NEW b, b = Event("session_started", NoId, NoId),
           NEW accepted, accepted = <<a>>,
           NEW seen, seen = [mem EXCEPT !.observed = TRUE],
           NEW active, active = [seen EXCEPT !.ready = TRUE],
           NEW stopped, stopped = StopOnce(seen, "other")
    PROVE  /\ DrainAccounts([events |-> accepted \o StopOnceEvents(seen), mem |-> stopped,
                             draining |-> TRUE], broker.orders)
           /\ DrainAccounts([events |-> Append(accepted, b), mem |-> active, draining |-> TRUE],
                            broker.orders)
           /\ DrainAccounts([events |-> accepted, mem |-> seen, draining |-> TRUE],
                            broker.orders)
<1> DEFINE u == SafetyStopped(seen)
           stops == StopOnceEvents(seen)
<1>1. Narrow(a) /\ Narrow(b)
  BY QuietNarrow, QuietTypesAre
<1>2. DOMAIN mem = MemFields
  BY DEF IInv, Session, GoodMem
<1>3. DOMAIN seen = MemFields /\ SameOrders(seen)
  BY <1>2 DEF MemFields, SameOrders
<1>4. DOMAIN u = MemFields /\ SameOrders(u)
  BY <1>3 DEF MemFields, SameOrders, SafetyStopped
<1>5. DOMAIN active = MemFields /\ SameOrders(active)
  BY <1>3 DEF MemFields, SameOrders
<1> HIDE DEF u
<1>6. DOMAIN stopped = MemFields /\ SameOrders(stopped)
  <2>1. stopped = IF seen.reason = "none" THEN [u EXCEPT !.reason = "other"] ELSE seen
    BY DEF StopOnce, u
  <2>2. CASE seen.reason = "none"
    <3>1. stopped = [u EXCEPT !.reason = "other"]
      BY <2>1, <2>2
    <3> QED BY <1>4, <3>1 DEF MemFields, SameOrders
  <2> QED BY <1>3, <2>1, <2>2
<1>7. IsSequence(accepted) /\ NarrowRecords(accepted)
  BY <1>1, NarrowFew
<1>8. IsSequence(stops) /\ NarrowRecords(stops)
  BY QuietNarrow
<1> DEFINE e == accepted \o stops
           f == Append(accepted, b)
<1> HIDE DEF stops
<1>9. IsSequence(e) /\ NarrowRecords(e) /\ IsSequence(f) /\ NarrowRecords(f)
  BY <1>1, <1>7, <1>8, NarrowJoined, NarrowAppended
<1> HIDE DEF e, f
<1>10. ASSUME NEW m, DOMAIN m = MemFields, SameOrders(m),
              NEW q, IsSequence(q), NarrowRecords(q)
       PROVE  DrainAccounts([events |-> q, mem |-> m, draining |-> TRUE], broker.orders)
  <2> DEFINE d == Replay(durable, q)
  <2>1. GoodReplay(durable) /\ GoodLedger(durable) /\ Len(q) \in Nat
    BY <1>10, AppendedSequences DEF IInv, Recorded, Backed
  <2>2. GoodReplay(d) /\ GoodLedger(d) /\ Narrows(durable, d)
    BY <1>10, <2>1, ReplayNarrows
  <2>3. MemShape(m)
    BY <1>10, MemShaped
  <2>4. m.orders = mem.orders /\ m.view = mem.view
    BY <1>10 DEF SameOrders
  <2> HIDE DEF d
  <2>5. Accounted(m, d, broker.health, broker.orders)
    BY <2>2, <2>4, NarrowsTracked DEF Accounts
  <2>6. Reflects(m, broker.orders)
    BY <2>4 DEF Accounts, Reflects
  <2> QED BY <1>10, <2>2, <2>3, <2>5, <2>6 DEF DrainAccounts, d
<1> QED BY <1>3, <1>5, <1>6, <1>7, <1>9, <1>10 DEF e, f, stops

\* process_next_market(): the observation, the activation and the fills.
LEMMA ObservedAccounts ==
    ASSUME IInv, Backed, Accounts(mem, slot, broker, durable), slot = EmptySlot,
           NEW crossed \in SUBSET Fillable, NEW fills \in Orderings(crossed)
    PROVE  AccountsFor(Observed(fills))
<1> DEFINE a == Event("market_observation_accepted", NoId, NoId)
           b == Event("session_started", NoId, NoId)
           overrun == Len(fills) > PossibleUpdates
           dispatched == IF overrun THEN SubSeq(fills, 1, PossibleUpdates) ELSE fills
           accepted == <<a>>
           seen == [mem EXCEPT !.observed = TRUE]
           active == [seen EXCEPT !.ready = TRUE]
           stopped == StopOnce(seen, "other")
           started == IF overrun
                      THEN [events |-> accepted \o StopOnceEvents(seen), mem |-> stopped]
                      ELSE IF MayActivate(seen)
                      THEN [events |-> Append(accepted, b), mem |-> active]
                      ELSE [events |-> accepted, mem |-> seen]
           acc == Drain(started.events, started.mem, dispatched)
           orders == [o \in DOMAIN broker.orders |->
                        IF \E k \in DOMAIN fills : fills[k] = o
                        THEN Filled(broker.orders[o]) ELSE broker.orders[o]]
           quiet == Outcome(acc.events, acc.mem, slot)
           out == Observed(fills)
<1>1. out = [quiet EXCEPT !.broker.orders = orders]
  BY DEF Observed, AfterDrain
<1>2. /\ DOMAIN fills = 1..Len(fills) /\ Len(fills) \in Nat
      /\ \A k \in 1..Len(fills) : fills[k] \in crossed
      /\ \A j, k \in 1..Len(fills) : fills[j] = fills[k] => j = k
  BY FillsAre
<1>3. orders = FilledUpTo(fills, Len(fills))
  BY <1>2 DEF FilledUpTo
<1> HIDE DEF orders
<1>4. IsSequence(fills) /\ PossibleUpdates \in Nat
  BY FillsOf
<1>5. crossed \subseteq WorkingAt(broker)
  BY DEF Fillable
<1>6. \A k \in 1..Len(fills) : fills[k] \in WorkingAt(broker)
  BY <1>2, <1>5
<1>7. /\ Len(dispatched) \in 0..Len(fills)
      /\ \A k \in 1..Len(dispatched) : dispatched[k] = fills[k]
      /\ Len(dispatched) = Len(fills) \/ Len(dispatched) < Len(fills)
  <2>1. CASE overrun
    <3> DEFINE n == PossibleUpdates
    <3>1. n \in 0..Len(fills) /\ n < Len(fills) /\ dispatched = SubSeq(fills, 1, n)
      BY <1>2, <1>4, <2>1
    <3> HIDE DEF n, dispatched
    <3>2. Len(dispatched) = n /\ \A k \in 1..n : dispatched[k] = fills[k]
      BY <1>4, <3>1, Prefixes
    <3> QED BY <3>1, <3>2
  <2>2. CASE ~overrun
    <3>1. dispatched = fills
      BY <2>2
    <3> HIDE DEF dispatched
    <3> QED BY <1>2, <3>1
  <2> QED BY <2>1, <2>2
<1> DEFINE e == started.events
           m == started.mem
<1>8. acc = Drain(e, m, dispatched)
  OBVIOUS
<1>9. DrainAccounts([events |-> e, mem |-> m, draining |-> TRUE], broker.orders)
  <2>1. /\ DrainAccounts([events |-> accepted \o StopOnceEvents(seen), mem |-> stopped,
                          draining |-> TRUE], broker.orders)
        /\ DrainAccounts([events |-> Append(accepted, b), mem |-> active, draining |-> TRUE],
                         broker.orders)
        /\ DrainAccounts([events |-> accepted, mem |-> seen, draining |-> TRUE],
                         broker.orders)
    <3>1. /\ a = Event("market_observation_accepted", NoId, NoId)
          /\ b = Event("session_started", NoId, NoId)
          /\ accepted = <<a>> /\ seen = [mem EXCEPT !.observed = TRUE]
          /\ active = [seen EXCEPT !.ready = TRUE] /\ stopped = StopOnce(seen, "other")
      OBVIOUS
    <3> HIDE DEF a, b, accepted, seen, active, stopped
    <3> QED BY <3>1, StartedAccounts
  <2> HIDE DEF overrun, accepted, seen, active, stopped, b
  <2> QED BY <2>1
<1> HIDE DEF overrun, dispatched, e, m, acc
<1>10. DrainAccounts(acc, FilledUpTo(fills, Len(dispatched)))
  BY <1>2, <1>6, <1>7, <1>8, <1>9, DrainedAccounts
<1> DEFINE g == acc.events
           n == acc.mem
           d == Replay(durable, g)
<1>11. Reflects(n, orders) /\ Accounted(n, d, broker.health, orders)
  <2>1. CASE Len(dispatched) = Len(fills)
    <3>1. DrainAccounts(acc, orders)
      BY <1>3, <1>10, <2>1
    <3> QED BY <3>1 DEF DrainAccounts, Accounted
  <2>2. CASE Len(dispatched) < Len(fills)
    <3> DEFINE k == Len(dispatched)
    <3>1. k \in Nat /\ k < Len(fills) /\ DrainAccounts(acc, FilledUpTo(fills, k))
      BY <1>2, <1>7, <1>10, <2>2
    <3> HIDE DEF k
    <3>2. Snapped(broker.orders)
      BY DEF Backed, Shape
    <3>3. Reflects(acc.mem, orders) /\ Missed(acc.mem, orders)
      BY <1>2, <1>3, <1>6, <3>1, <3>2, OverrunMissed
    <3> QED BY <3>3 DEF Accounted
  <2> QED BY <1>7, <2>1, <2>2
<1>12. quiet = Outcome(g, n, slot)
  OBVIOUS
<1> HIDE DEF d, n, quiet, out
<1>13. /\ DOMAIN quiet = OutcomeFields /\ quiet.events = g /\ quiet.mem = n /\ quiet.slot = slot
       /\ quiet.broker = broker
  BY <1>12, OutcomeIs
<1> HIDE DEF g
<1>14. DOMAIN broker = {"health", "orders"}
  BY DEF IInv, Session, GoodBroker
<1>15. /\ out.events = g /\ out.mem = n /\ out.slot = slot
       /\ out.broker.orders = orders /\ out.broker.health = broker.health
  BY <1>1, <1>13, <1>14 DEF OutcomeFields
<1>16. Unrevoked(n, slot)
  BY RevokedSlot
<1>17. AccountsFor(out)
  BY <1>11, <1>15, <1>16 DEF AccountsFor, Accounts, d
<1> QED BY <1>17 DEF out

\* An observation that the server collects.
LEMMA ObserveSettles ==
    ASSUME IInv, Backed, Settles, Observe
    PROVE  Settles'
<1>1. phase = "up" /\ mem.connected /\ slot = EmptySlot
  BY DEF Observe
<1>2. PICK crossed \in SUBSET Fillable :
        \E fills \in Orderings(crossed) : RunCollected(Observed(fills))
  BY DEF Observe
<1>3. PICK fills \in Orderings(crossed) : RunCollected(Observed(fills))
  BY <1>2
<1>4. Sound(Observed(fills))
  BY <1>1, ObservedSound DEF IInv
<1>5. Accounts(mem, slot, broker, durable)
  BY <1>1 DEF Settles
<1>6. AccountsFor(Observed(fills))
  BY <1>1, <1>5, ObservedAccounts
<1> QED BY <1>1, <1>3, <1>4, <1>6, RunCollectedSettles

-----------------------------------------------------------------------------
(* stop(): every working order is cancelled, and the books compared.       *)

\* stop() begins with the orders that work at the broker.
LEMMA StopBeginSettles ==
    ASSUME IInv, Backed, Settles, StopBegin
    PROVE  Settles'
<1> DEFINE uncertain == broker.health = "Lost"
           e == <<Event("session_stopping", NoId, NoId)>>
           m == [mem EXCEPT !.ready = FALSE, !.kill = TRUE,
                            !.recon = @ \/ uncertain, !.safety = @ \/ uncertain]
           out == Outcome(e, m, slot)
<1>1. phase = "draining" /\ slot = EmptySlot
  BY DEF StopBegin
<1>2. \/ /\ Finish(out) /\ phase' = "stopping" /\ todo' = WorkingAt(broker)
         /\ report' = IF uncertain THEN "incomplete" ELSE "complete"
      \/ CrashDuring(out)
  BY DEF StopBegin
<1>3. Accounts(mem, slot, broker, durable)
  BY <1>1 DEF Settles
<1>4. IsSequence(e) /\ NarrowRecords(e)
  BY QuietNarrow, QuietTypesAre, NarrowFew
<1>5. DOMAIN mem = MemFields
  BY DEF IInv, Session, GoodMem
<1>6. SameOrders(m)
  BY <1>5 DEF SameOrders, MemFields
<1>7. Unrevoked(m, slot)
  BY <1>1, RevokedSlot
<1> HIDE DEF e, m
<1>8. AccountsFor(out)
  BY <1>3, <1>4, <1>6, <1>7, QuietAccounts
<1>9. out.broker = broker
  BY OutcomeIs
<1> HIDE DEF out
<1>10. CASE /\ Finish(out) /\ phase' = "stopping" /\ todo' = WorkingAt(broker)
            /\ report' = IF uncertain THEN "incomplete" ELSE "complete"
  <2>1. Accounts(mem', slot', broker', durable') /\ broker' = broker
    BY <1>8, <1>9, <1>10 DEF Finish, AccountsFor
  <2>2. \A o \in todo' : o \in DOMAIN broker'.orders /\ broker'.orders[o].state \notin BrokerTerminal
    BY <1>10, <2>1 DEF WorkingAt
  <2>3. Tracked(durable', broker'.orders) /\ ~uncertain =>
          \A o \in DOMAIN durable'.orders : durable'.orders[o].state \in Working => o \in todo'
    BY <1>10, <2>1 DEF WorkingAt, Tracked
  <2>4. report' = "complete" => ~uncertain
    BY <1>10
  <2>5. StopAccounts'
    BY <2>1, <2>2, <2>3, <2>4 DEF StopAccounts, Accounts, Accounted
  <2>6. phase' = "stopping" /\ report' # "reconciled"
    BY <1>10
  <2> QED BY <2>5, <2>6 DEF Settles, ReconciledStopIsSettled
<1> QED BY <1>2, <1>10, CrashSettles

\* The records of a shutdown cancel put no order to work.
LEMMA CancelNarrow ==
    ASSUME NEW o \in Places, NEW e, e = Append(CancelRecords(o), Event("cancelled", ShutdownIntent(o), o))
    PROVE  /\ IsSequence(CancelRecords(o)) /\ NarrowRecords(CancelRecords(o))
           /\ IsSequence(e) /\ NarrowRecords(e)
           /\ TypedRecord(Event("cancelled", ShutdownIntent(o), o))
<1> DEFINE i == ShutdownIntent(o)
           a == Event("intent_received", i, NoId)
           b == Event("mapping_validated", i, o)
           c == Event("risk_approved", i, o)
           d == Event("cancel_requested", i, o)
           answer == Event("cancelled", i, o)
           r == CancelRecords(o)
<1>1. r = <<a, b, c, d>>
  BY DEF CancelRecords
<1>2. Narrow(a) /\ Narrow(b) /\ Narrow(c)
  BY QuietNarrow, QuietTypesAre
<1>3. ASSUME NEW type \in {"cancel_requested", "cancelled"} PROVE Narrow(Event(type, i, o))
  <2> DEFINE z == Event(type, i, o)
  <2>1. i # NoId
    BY ShutdownAssumption
  <2>2. type \in DOMAIN EvidenceKind \ {"broker_acknowledged", "broker_rejected"}
    BY <1>3 DEF EvidenceKind
  <2>3. type \notin Revivals
    BY <1>3 DEF Revivals
  <2>4. z.type = type
    BY EventIs
  <2>5. PlainRecord(z)
    <3> HIDE DEF i
    <3> QED BY <2>1, <2>2, EvidenceRecord
  <2> HIDE DEF z
  <2>6. Narrow(z)
    BY <2>3, <2>4, <2>5, NarrowFew
  <2> QED BY <2>6 DEF z
<1>4. Narrow(d) /\ Narrow(answer)
  BY <1>3
<1> HIDE DEF a, b, c, d, answer, r
<1>5. /\ r \in Seq({a, b, c, d}) /\ Len(r) = 4
      /\ r[1] = a /\ r[2] = b /\ r[3] = c /\ r[4] = d
  BY <1>1
<1>6. IsSequence(r)
  BY <1>5 DEF IsSequence
<1>7. NarrowRecords(r)
  <2>1. \A k \in 1..4 : k = 1 \/ k = 2 \/ k = 3 \/ k = 4
    OBVIOUS
  <2> QED BY <1>2, <1>4, <1>5, <2>1 DEF NarrowRecords
<1>8. IsSequence(Append(r, answer)) /\ NarrowRecords(Append(r, answer))
  BY <1>4, <1>6, <1>7, NarrowAppended
<1> QED BY <1>4, <1>6, <1>7, <1>8 DEF r, answer, Narrow

\* A cancel on record ends its order.
LEMMA CancelledEnds ==
    ASSUME NEW s, GoodReplay(s), GoodLedger(s), NEW e, TypedRecord(e), e.type = "cancelled",
           NEW o, o = e.order, NEW t, t = ReplayRecord(s, e)
    PROVE  t.faulty \/ t.orders[o].state \notin Working
<1> SUFFICES ASSUME ~t.faulty PROVE t.orders[o].state \notin Working
  OBVIOUS
<1> DEFINE order == s.orders[o]
           u == EvidenceOf(e, "CancelAccepted")
           r == Answer(s, e)
<1>1. ~s.faulty
  BY FaultyStays
<1>2. Legal(s, e) /\ t.orders = OrdersAfter(s, e)
  BY <1>1, ReplayRecordEffect DEF RecordEffect
<1>3. /\ e.type \in DOMAIN EvidenceKind /\ EvidenceKind[e.type] = "CancelAccepted"
      /\ e.type # "submission_started"
  BY DEF EvidenceKind
<1>4. /\ r = ApplyOrderUpdate(order, u) /\ ~r.refused /\ t.orders[o] = r.order
      /\ o \in DOMAIN s.orders
  BY <1>2, <1>3 DEF Answer, Legal, OrdersAfter
<1>5. SessionEvidence(u) /\ u.kind = "CancelAccepted"
  BY RecordEvidence DEF SessionKinds
<1>6. GoodOrder(order)
  BY <1>1, <1>4 DEF GoodLedger, GoodOrders
<1> HIDE DEF order, u, r
<1>7. r = OnCancelAccepted(order, u)
  BY <1>4, <1>5, <1>6, EvidenceIs
<1>8. r.order.state \in {"Filled", "Cancelled"}
  BY <1>4, <1>5, <1>6, <1>7, CancelAcceptedMoves
<1> QED BY <1>4, <1>8 DEF Working

\* A cancel that the broker confirms, while the other orders wait for theirs.
LEMMA ConfirmedAccounts ==
    ASSUME IInv, Backed, StopAccounts, NEW o \in Places, o \in todo,
           broker.health = "Ready", NEW acknowledged \in BOOLEAN,
           NEW out, out = CancelAttempted(o, acknowledged), Finish(out),
           todo' = todo \ {o}, report' = report
    PROVE  StopAccounts'
<1> DEFINE i == ShutdownIntent(o)
           r == CancelRecords(o)
           answer == Event("cancelled", i, o)
           e == Append(r, answer)
           flagged == [mem EXCEPT !.recon = TRUE, !.safety = TRUE]
           viewed == [mem EXCEPT !.view[o].state = "cancelled"]
           m == IF ~acknowledged THEN flagged
                ELSE IF o \in DOMAIN mem.view THEN viewed ELSE mem
           b == [broker EXCEPT !.orders[o].state = "cancelled"]
           quiet == Outcome(e, m, slot)
           orders == b.orders
           s == Replay(durable, r)
           d == Replay(durable, e)
<1>1. out = WithCall(quiet, i, 4, b)
  BY DEF CancelAttempted
<1>2. /\ IsSequence(r) /\ NarrowRecords(r) /\ IsSequence(e) /\ NarrowRecords(e)
      /\ TypedRecord(answer)
  <2> HIDE DEF r, answer
  <2> QED BY CancelNarrow DEF r, answer
<1>3. answer.type = "cancelled" /\ answer.order = o
  BY EventIs
<1> HIDE DEF answer, r, quiet
<1>4. /\ DOMAIN quiet = OutcomeFields /\ quiet.events = e /\ quiet.mem = m
      /\ quiet.slot = slot
  <2> HIDE DEF e, m
  <2> QED BY OutcomeIs DEF quiet
<1>5. DOMAIN mem = MemFields /\ DOMAIN broker = {"health", "orders"}
  BY DEF IInv, Session, GoodMem, GoodBroker
<1>6. o \in DOMAIN broker.orders /\ broker.orders[o].state \notin BrokerTerminal
  BY DEF StopAccounts
<1>7. Snapped(mem.view) /\ Snapped(broker.orders)
  BY DEF Backed, Shape
<1>8. /\ DOMAIN m.view = DOMAIN mem.view
      /\ \A p \in DOMAIN mem.view :
           /\ m.view[p].quantity = mem.view[p].quantity /\ m.view[p].price = mem.view[p].price
           /\ p # o => m.view[p] = mem.view[p]
  <2>1. flagged.view = mem.view
    BY <1>5 DEF MemFields
  <2>2. viewed.view = [mem.view EXCEPT ![o].state = "cancelled"]
    BY <1>5 DEF MemFields
  <2>3. m.view = mem.view \/ (o \in DOMAIN mem.view /\ m.view = viewed.view)
    BY <2>1
  <2>4. CASE m.view = mem.view
    BY <2>4
  <2>5. CASE o \in DOMAIN mem.view /\ m.view = viewed.view
    BY <1>7, <2>2, <2>5 DEF Snapped, Snapshots
  <2> QED BY <2>3, <2>4, <2>5
<1>9. /\ DOMAIN orders = DOMAIN broker.orders
      /\ \A p \in DOMAIN broker.orders :
           /\ orders[p].quantity = broker.orders[p].quantity
           /\ orders[p].price = broker.orders[p].price
           /\ p # o => orders[p] = broker.orders[p]
  <2>1. orders = [broker.orders EXCEPT ![o].state = "cancelled"]
    BY <1>5
  <2> HIDE DEF orders
  <2> QED BY <1>6, <1>7, <2>1 DEF Snapped, Snapshots
<1> HIDE DEF m, b, e
<1>10. /\ out.events = e /\ out.mem = m /\ out.broker = b
  BY <1>1, <1>4 DEF WithCall, OutcomeFields
<1>11. durable' = d /\ mem' = m /\ broker'.orders = orders
  BY <1>10 DEF Finish
<1>12. GoodReplay(durable) /\ GoodLedger(durable) /\ Len(r) \in Nat /\ Len(e) \in Nat
  BY <1>2, AppendedSequences DEF IInv, Recorded, Backed
<1>13. Narrows(durable, d)
  BY <1>2, <1>12, ReplayNarrows
<1>14. d.faulty \/ d.orders[o].state \notin Working
  <2>1. GoodReplay(s) /\ GoodLedger(s)
    BY <1>2, <1>12, ReplayNarrows
  <2>2. d = ReplayRecord(s, answer)
    BY <1>2, ReplayAppended DEF e
  <2> HIDE DEF s, d
  <2> QED BY <1>2, <1>3, <2>1, <2>2, CancelledEnds
<1> HIDE DEF d, orders, s
<1>15. \A p \in todo' : p \in DOMAIN broker'.orders /\ broker'.orders[p].state \notin BrokerTerminal
  BY <1>9, <1>11 DEF StopAccounts
<1>16. Missed(mem, broker.orders) => Missed(m, orders)
  <2> SUFFICES ASSUME NEW p \in DOMAIN broker.orders, Misses(mem, broker.orders, p)
               PROVE  Misses(m, orders, p)
    BY <1>9 DEF Missed
  <2> QED BY <1>6, <1>8, <1>9 DEF Misses
<1>17. ASSUME report' = "complete"
       PROVE  \/ durable'.faulty \/ Missed(mem', broker'.orders)
              \/ \A p \in DOMAIN durable'.orders : durable'.orders[p].state \in Working => p \in todo'
  <2>1. CASE durable.faulty
    BY <1>11, <1>13, <2>1 DEF Narrows
  <2>2. CASE Missed(mem, broker.orders)
    BY <1>11, <1>16, <2>2
  <2>3. CASE /\ ~d.faulty
             /\ \A p \in DOMAIN durable.orders : durable.orders[p].state \in Working => p \in todo
    BY <1>11, <1>13, <1>14, <2>3 DEF Narrows
  <2> QED BY <1>11, <1>17, <2>1, <2>2, <2>3 DEF StopAccounts
<1> QED BY <1>15, <1>17 DEF StopAccounts

\* One iteration of the loop over the working orders.
LEMMA CancelOnStopSettles ==
    ASSUME IInv, Backed, Settles, NEW o \in Places, CancelOnStop(o)
    PROVE  Settles'
<1> DEFINE r == CancelRecords(o)
           two == SubSeq(r, 1, 2)
           alone == CancelUnattempted(o)
           lost == Outcome(two \o alone.events, alone.mem, slot)
<1>1. phase = "stopping" /\ o \in todo
  BY DEF CancelOnStop
<1>2. PICK out \in {alone} \cup
                   (IF broker.health = "Lost" THEN {lost}
                    ELSE {CancelAttempted(o, TRUE), CancelAttempted(o, FALSE),
                          CancelUnacknowledged(o)}) :
        \/ /\ Finish(out) /\ todo' = todo \ {o} /\ phase' = phase
           /\ report' = IF out.called # {} /\ broker.health = "Ready" THEN report ELSE "incomplete"
        \/ CrashDuring(out)
  BY DEF CancelOnStop
<1>3. \/ out.broker = broker /\ (out.called = {} \/ broker.health # "Ready")
      \/ /\ broker.health = "Ready"
         /\ \E acknowledged \in BOOLEAN : out = CancelAttempted(o, acknowledged)
  <2>1. alone.broker = broker /\ alone.called = {}
    BY OutcomeIs DEF CancelUnattempted
  <2>2. lost.broker = broker /\ lost.called = {}
    <3> HIDE DEF two, alone
    <3> QED BY OutcomeIs
  <2>3. CancelUnacknowledged(o).broker = broker /\ CancelUnacknowledged(o).called = {}
    BY OutcomeIs DEF CancelUnacknowledged
  <2>4. ASSUME NEW acknowledged \in BOOLEAN, broker.health # "Ready"
        PROVE  CancelAttempted(o, acknowledged).broker = broker
    BY <2>4 DEF CancelAttempted, WithCall, Outcome
  <2> HIDE DEF alone, lost
  <2> QED BY <1>2, <2>1, <2>2, <2>3, <2>4
<1>4. StopAccounts /\ report # "reconciled"
  BY <1>1 DEF Settles
<1>5. CASE CrashDuring(out)
  BY <1>5, CrashSettles
<1>6. CASE /\ Finish(out) /\ todo' = todo \ {o} /\ phase' = phase
           /\ report' = IF out.called # {} /\ broker.health = "Ready" THEN report ELSE "incomplete"
  <2>1. phase' = "stopping" /\ report' # "reconciled"
    BY <1>1, <1>4, <1>6
  <2>2. CASE out.broker = broker /\ (out.called = {} \/ broker.health # "Ready")
    <3>1. broker' = broker /\ report' = "incomplete"
      BY <1>6, <2>2 DEF Finish
    <3>2. \A p \in todo' : p \in DOMAIN broker'.orders
                           /\ broker'.orders[p].state \notin BrokerTerminal
      BY <1>4, <1>6, <3>1 DEF StopAccounts
    <3>3. StopAccounts'
      BY <3>1, <3>2 DEF StopAccounts
    <3> QED BY <2>1, <3>3 DEF Settles, ReconciledStopIsSettled
  <2>3. ASSUME broker.health = "Ready",
               NEW acknowledged \in BOOLEAN, out = CancelAttempted(o, acknowledged)
        PROVE  Settles'
    <3>1. out.called # {}
      BY <2>3 DEF CancelAttempted, WithCall, Outcome
    <3>2. report' = report
      BY <1>6, <2>3, <3>1
    <3>3. StopAccounts'
      BY <1>1, <1>4, <1>6, <2>3, <3>2, ConfirmedAccounts
    <3> QED BY <2>1, <3>3 DEF Settles, ReconciledStopIsSettled
  <2> QED BY <1>3, <2>2, <2>3
<1> QED BY <1>2, <1>5, <1>6

\* stop() reports reconciled only if the comparison agrees, and then nothing works
\* on record.
LEMMA StopEndSettles ==
    ASSUME IInv, Backed, Settles, StopEnd
    PROVE  Settles'
<1>1. PICK inTime \in BOOLEAN :
        LET ended == Outcome(StopRecords(inTime), NoMemory, EmptySlot)
        IN  \/ /\ Finish([ended EXCEPT !.broker = EmptyBroker])
               /\ phase' = "down"
               /\ report' = IF ReconciledStop(inTime) THEN "reconciled" ELSE "uncertain"
            \/ CrashDuring(ended)
  BY DEF StopEnd
<1> DEFINE stop == SafetyStop(NoId, NoId)
           last == Event("session_stopped", NoId, NoId)
           first == IF inTime /\ broker.health # "Ready" THEN <<stop>> ELSE << >>
           final == <<last>>
           e == StopRecords(inTime)
           ended == Outcome(e, NoMemory, EmptySlot)
           out == [ended EXCEPT !.broker = EmptyBroker]
           d == Replay(durable, e)
<1>2. \/ /\ Finish(out) /\ phase' = "down"
         /\ report' = IF ReconciledStop(inTime) THEN "reconciled" ELSE "uncertain"
      \/ CrashDuring(ended)
  BY <1>1
<1>3. todo = {} /\ StopAccounts
  BY DEF StopEnd, Settles
<1>4. Narrow(stop) /\ Narrow(last)
  BY QuietNarrow, QuietTypesAre
<1>5. e = first \o final
  BY DEF StopRecords
<1> HIDE DEF stop, last, e
<1>6. IsSequence(first) /\ NarrowRecords(first) /\ IsSequence(final) /\ NarrowRecords(final)
  BY <1>4, NarrowFew, FewRecords
<1> HIDE DEF first, final
<1>7. IsSequence(e) /\ NarrowRecords(e)
  BY <1>5, <1>6, NarrowJoined
<1>8. Narrows(durable, d)
  <2>1. GoodReplay(durable) /\ GoodLedger(durable) /\ Len(e) \in Nat
    BY <1>7, AppendedSequences DEF IInv, Recorded, Backed
  <2> QED BY <1>7, <2>1, ReplayNarrows
<1>9. CASE CrashDuring(ended)
  BY <1>9, CrashSettles
<1>10. CASE /\ Finish(out) /\ phase' = "down"
            /\ report' = IF ReconciledStop(inTime) THEN "reconciled" ELSE "uncertain"
  <2>1. out.events = e
    BY OutcomeIs DEF OutcomeFields
  <2> HIDE DEF out, ended
  <2>2. durable' = d
    BY <1>10, <2>1 DEF Finish
  <2>3. ASSUME report' = "reconciled", ~durable'.faulty, NEW o \in DOMAIN durable'.orders
        PROVE  durable'.orders[o].state \notin Working
    <3>1. report = "complete" /\ broker.health = "Ready" /\ mem.view = broker.orders
      BY <1>10, <2>3 DEF ReconciledStop, ExactAgreement
    <3>2. ~Missed(mem, broker.orders)
      BY <3>1 DEF Missed, Misses
    <3>3. ~durable.faulty
      BY <1>8, <2>2, <2>3 DEF Narrows
    <3>4. \A p \in DOMAIN durable.orders : durable.orders[p].state \notin Working
      BY <1>3, <3>1, <3>2, <3>3 DEF StopAccounts
    <3> QED BY <1>8, <2>2, <2>3, <3>4 DEF Narrows
  <2>4. ReconciledStopIsSettled'
    BY <2>3 DEF ReconciledStopIsSettled
  <2> QED BY <1>10, <2>4 DEF Settles
<1> QED BY <1>2, <1>9, <1>10

\* No step forgets a working order.
LEMMA NextSettles ==
    ASSUME IInv, Backed, Believes, Settles, [Next]_vars
    PROVE  Settles'
<1>1. CASE Launch
  BY <1>1, LaunchSettles
<1>2. CASE LaunchRefused
  BY <1>2, LaunchRefusedSettles
<1>3. CASE Repair
  BY <1>3, RepairSettles
<1>4. CASE \E i \in Intents, c \in Contents : Prepare(i, c)
  BY <1>4, PrepareSettles
<1>5. CASE Submit
  BY <1>5, SubmitSettles
<1>6. CASE Observe
  BY <1>6, ObserveSettles
<1>7. CASE Fault
  BY <1>7, FaultSettles
<1>8. CASE \E health \in {"Unknown", "Lost"} : LoseHealth(health)
  BY <1>8, LoseHealthSettles
<1>9. CASE Disconnect
  BY <1>9, DisconnectSettles
<1>10. CASE Reconnect
  BY <1>10, ReconnectSettles
<1>11. CASE ShutdownBegin
  BY <1>11, ShutdownBeginSettles
<1>12. CASE StopBegin
  BY <1>12, StopBeginSettles
<1>13. CASE \E o \in Places : CancelOnStop(o)
  BY <1>13, CancelOnStopSettles
<1>14. CASE StopEnd
  BY <1>14, StopEndSettles
<1>15. CASE ShutdownTimeout
  BY <1>15, ShutdownTimeoutSettles
<1>16. CASE LaunchFailed \/ UNCHANGED vars
  <2>1. UNCHANGED vars
    BY <1>16 DEF LaunchFailed
  <2>2. /\ phase' = phase /\ mem' = mem /\ slot' = slot /\ broker' = broker
        /\ durable' = durable /\ todo' = todo /\ report' = report
    BY <2>1 DEF vars
  <2>3. Accounts(mem, slot, broker, durable)' <=> Accounts(mem, slot, broker, durable)
    BY <2>2 DEF Accounts, Reflects, Accounted, Missed, Misses, Tracked, Unrevoked
  <2>4. StopAccounts => StopAccounts'
    BY <2>2 DEF StopAccounts, Missed, Misses
  <2> QED BY <2>2, <2>3, <2>4 DEF Settles, ReconciledStopIsSettled
<1> QED BY <1>1, <1>2, <1>3, <1>4, <1>5, <1>6, <1>7, <1>8, <1>9, <1>10, <1>11, <1>12, <1>13,
          <1>14, <1>15, <1>16 DEF Next

\* Before the first launch nothing works, on record or at the broker.
LEMMA InitSettles ==
    ASSUME Init
    PROVE  Settles
BY DEF Init, Settles, ReconciledStopIsSettled

\* In every reachable state a stop that reported reconciled has left no working
\* order on record, whatever fills, answers, acknowledgements and crashes came
\* before it (ExecutionSession::stop). With it, every variable keeps its type, a
\* stop is on record as soon as the session knows of it, and replay drops no
\* reconciliation that is still needed.
THEOREM StopsStaySettled ==
    Spec => []StopsAreSettled
<1>1. Init => Believes /\ Settles
  BY InitBelieves, InitSettles
<1>2. IInv /\ Backed /\ Believes /\ [Next]_vars => Believes'
  BY NextBelieves
<1>3. IInv /\ Backed /\ Believes /\ Settles /\ [Next]_vars => Settles'
  BY NextSettles
<1>4. Settles => ReconciledStopIsSettled
  BY DEF Settles
<1>5. Spec => []ReconciledStopIsSettled
  BY <1>1, <1>2, <1>3, <1>4, SessionIsSound, SessionIsBacked, PTL DEF Spec
<1>6. TypeOK /\ SafetyStopIsOnRecord /\ ReconciliationIsKept /\ ReconciledStopIsSettled
        => StopsAreSettled
  BY DEF StopsAreSettled
<1> QED BY <1>5, <1>6, SessionIsTyped, EverySafetyStopIsOnRecord, ReplayKeepsReconciliation, PTL
===============================================================================
